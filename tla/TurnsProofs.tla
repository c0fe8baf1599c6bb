---------------------------- MODULE TurnsProofs ----------------------------
(***************************************************************************)
(* Proofs about Turns for any transcripts, any way of comparing them, any    *)
(* calls, and any number of turns and attempts.                             *)
(***************************************************************************)
EXTENDS Turns, SequenceTheorems, WellFoundedInduction, TLAPS

(***************************************************************************)
(* The invariant part by part, as predicates of values: Answerable of the    *)
(* attempts, the rest of the coroutines.                                    *)
(***************************************************************************)
Answerable(B, f) ==
  /\ B \in [Attempts -> AttemptSet]
  /\ \A a \in Attempts : B[a].auth /\ B[a].hyp # None => Norm[B[a].hyp] \in f
Responds(r, f) ==
  /\ r \in CoroutineSet({"grace", "window", "answer", "replace", "release", "drain"})
  /\ (r.pc = "drain" => r.old \in 0 .. MaxAttempts) /\ (r.pc = "release" => r.old \in Attempts)
  /\ r.pc \in {"grace", "window", "answer", "replace"} => r.text # None /\ Norm[r.text] \in f
Receiving(r, f) ==
  r \in CoroutineSet({"publish", "revise"}) /\ (r.pc = "publish" => r.text # None /\ Norm[r.text] \in f)
Inputs(i) == i \in CoroutineSet({"barge", "text", "commit"}) /\ (i.pc = "text" => i.text # None)
Stabilizes(s) == s \in CoroutineSet({"armed", "replace"})
Times(t) == t \in CoroutineSet({"armed", "cancel", "recover"})

LEMMA HeardIs ==
  HeardInv <=> /\ conf \in Confs /\ p \in PipelineSet /\ Answerable(A, finals) /\ Inputs(inp) /\ Receiving(rcv, finals)
               /\ Stabilizes(stab) /\ Times(timer) /\ Responds(resp, finals)
               /\ asked \subseteq Nat /\ finals \subseteq Texts /\ notices \in Nat
BY DEF HeardInv, TurnTypes, FinalsRetained, OnlyFinalHeard, Answerable, Inputs, Receiving, Stabilizes, Times, Responds

LEMMA HeardNext ==
  ASSUME conf' \in Confs, p' \in PipelineSet, Answerable(A', finals'), Inputs(inp'), Receiving(rcv', finals'),
         Stabilizes(stab'), Times(timer'), Responds(resp', finals'),
         asked' \subseteq Nat, finals' \subseteq Texts, notices' \in Nat
  PROVE  HeardInv'
BY DEF HeardInv, TurnTypes, FinalsRetained, OnlyFinalHeard, Answerable, Inputs, Receiving, Stabilizes, Times, Responds

\* An idle coroutine.
LEMMA IdleIs ==
  /\ Inputs(Idle) /\ Stabilizes(Idle) /\ Times(Idle)
  /\ \A f : Receiving(Idle, f) /\ Responds(Idle, f)
  /\ Idle.pc = "ready" /\ Idle.text = None /\ Idle.turn \in Nat /\ Idle.old \in Nat
BY TurnsAssumption DEF Idle, NoTurn, Inputs, Stabilizes, Times, Receiving, Responds, CoroutineSet, Words

\* An idle coroutine that is given a place and a text.
LEMMA PlacedIs ==
  ASSUME NEW text \in Words
  PROVE  /\ Stabilizes([Idle EXCEPT !.pc = "armed", !.text = text])
         /\ Inputs([Idle EXCEPT !.pc = "commit"])
         /\ text # None => Inputs([Idle EXCEPT !.pc = "text", !.text = text])
         /\ \A f : Receiving([Idle EXCEPT !.pc = "revise", !.text = text], f)
         /\ \A f : text # None /\ Norm[text] \in f => Receiving([Idle EXCEPT !.pc = "publish", !.text = text], f)
         /\ \A turn \in Nat : Times([Idle EXCEPT !.pc = "armed", !.turn = turn])
<1>1. NoTurn \in Nat
  BY TurnsAssumption DEF NoTurn
<1> QED BY <1>1 DEF Idle, Inputs, Stabilizes, Times, Receiving, CoroutineSet, Words

-----------------------------------------------------------------------------
(* The pipeline's fields                                                     *)

LEMMA TtsIs ==
  ASSUME NEW q \in PipelineSet
  PROVE  /\ TtsStart(q) \in PipelineSet
         /\ \A B : TtsStop(q, B) \in PipelineSet /\ StopTts(q, B) \in PipelineSet
         /\ \A B, cap : FinishPlayout(q, B, cap) \in PipelineSet
         /\ ClearCandidate(q) \in PipelineSet
<1>1. NoTurn \in Nat /\ 0 \in 0 .. MaxAttempts /\ None \in Words
  BY TurnsAssumption DEF NoTurn, Words
<1>2. TtsStart(q) \in PipelineSet
  BY DEF TtsStart, PipelineSet
<1>3. ClearCandidate(q) \in PipelineSet
  BY <1>1 DEF ClearCandidate, PipelineSet
<1>4. ASSUME NEW B PROVE TtsStop(q, B) \in PipelineSet
  <2>1. [q EXCEPT !.state = "releasing"] \in PipelineSet
    BY DEF PipelineSet
  <2> DEFINE c == IF q.turn = NoTurn THEN q.closed ELSE q.closed \union {q.turn}
  <2>2. c \in SUBSET Nat
    BY DEF PipelineSet
  <2> HIDE DEF c
  <2>3. [q EXCEPT !.closed = c, !.state = "idle", !.turn = NoTurn, !.att = 0] \in PipelineSet
    BY <1>1, <2>2 DEF PipelineSet
  <2> QED BY <2>1, <2>3 DEF TtsStop, c
<1>5. ASSUME NEW r \in PipelineSet, NEW b \in BOOLEAN PROVE [r EXCEPT !.playing = b] \in PipelineSet
  BY DEF PipelineSet
<1>6. ASSUME NEW B PROVE StopTts(q, B) \in PipelineSet
  BY <1>4, <1>5 DEF StopTts
<1>7. ASSUME NEW B, NEW cap PROVE FinishPlayout(q, B, cap) \in PipelineSet
  <2> DEFINE r == IF q.att = cap THEN TtsStop(q, B) ELSE q
  <2>1. r \in PipelineSet
    BY <1>4
  <2> HIDE DEF r
  <2>2. (IF r.att = 0 THEN FALSE ELSE r.playing) \in BOOLEAN
    BY <2>1 DEF PipelineSet
  <2>3. [r EXCEPT !.playing = IF r.att = 0 THEN FALSE ELSE r.playing] \in PipelineSet
    BY <1>5, <2>1, <2>2
  <2> QED BY <2>3 DEF FinishPlayout, r
<1> QED BY <1>2, <1>3, <1>4, <1>6, <1>7

LEMMA CancelledIs ==
  ASSUME p \in PipelineSet
  PROVE  Cancelled \in PipelineSet
<1>1. ASSUME NEW q \in PipelineSet PROVE [q EXCEPT !.att = 0] \in PipelineSet
  BY TurnsAssumption DEF PipelineSet
<1>2. StopTts(p, A) \in PipelineSet
  BY TtsIs
<1> QED BY <1>1, <1>2 DEF Cancelled

LEMMA NewTurnIs ==
  ASSUME NEW q \in PipelineSet, NEW t \in Nat, NEW old \in Nat, NEW text \in Words
  PROVE  NewTurn(q, t, old, text) \in PipelineSet
<1> DEFINE r == ClearCandidate(q)
           c == (IF old = NoTurn THEN r.closed ELSE r.closed \union {old}) \ {t}
           n == r.number + 1
<1>1. r \in PipelineSet
  BY TtsIs
<1>2. c \in SUBSET Nat /\ n \in Nat /\ None \in Words
  BY <1>1 DEF PipelineSet, Words
<1>3. NewTurn(q, t, old, text) =
        [r EXCEPT !.number = n, !.turn = t, !.last = text, !.final = None, !.state = "speaking", !.closed = c]
  BY DEF NewTurn
<1> HIDE DEF r, c, n
<1> QED BY <1>1, <1>2, <1>3, ZenonT(60) DEF PipelineSet

LEMMA TypedIs ==
  ASSUME NEW q \in PipelineSet
  PROVE  TypedAccepted(q) \in PipelineSet
<1> DEFINE r == ClearCandidate(q)
           n == r.number + 1
           t == q.number + 1
<1>1. r \in PipelineSet
  BY TtsIs
<1>2. n \in Nat /\ t \in Nat /\ None \in Words
  BY <1>1 DEF PipelineSet, Words
<1>3. TypedAccepted(q) = [r EXCEPT !.number = n, !.turn = t, !.final = None, !.last = None, !.state = "awaiting_final"]
  BY DEF TypedAccepted
<1> HIDE DEF r, n, t
<1> QED BY <1>1, <1>2, <1>3 DEF PipelineSet

-----------------------------------------------------------------------------
(* The attempts                                                              *)

\* A free attempt, the smallest, is one of the attempts.
LEMMA NextIs ==
  ASSUME Fresh # {}
  PROVE  NextAttempt \in Fresh /\ NextAttempt \in Attempts
<1>1. Fresh \subseteq Attempts /\ Attempts \subseteq Nat
  BY TurnsAssumption DEF Fresh, Attempts
<1>2. \E a \in Fresh : \A b \in Fresh : a <= b
  <2>1. Fresh \subseteq Nat
    BY <1>1
  <2>2. PICK a \in Fresh : \A b \in Fresh : ~(<<b, a>> \in OpToRel(<, Nat))
    BY <2>1, NatLessThanWellFounded, WFMin
  <2>3. \A b \in Fresh : ~(b < a)
    BY <2>1, <2>2 DEF OpToRel
  <2> QED BY <2>1, <2>3
<1> QED BY <1>1, <1>2 DEF NextAttempt

LEMMA NewAttemptIs ==
  ASSUME NEW text \in Words, NEW auth \in BOOLEAN, NEW pc \in {"stream", "drain", "transfer", "apology", "done"}
  PROVE  /\ Attempt(text, auth, pc) \in AttemptSet
         /\ Attempt(text, auth, pc).hyp = text /\ Attempt(text, auth, pc).auth = auth
BY TurnsAssumption DEF Attempt, AttemptSet, None

LEMMA NoAttemptIs == NoAttempt \in AttemptSet /\ ~NoAttempt.auth
<1>1. None \in Words
  BY DEF Words
<1> QED BY <1>1, NewAttemptIs DEF NoAttempt

\* One attempt is changed, and not authorized but for words that were retained.
LEMMA OneChanged ==
  ASSUME NEW f, NEW B, Answerable(B, f), NEW a, NEW x \in AttemptSet, x.auth /\ x.hyp # None => Norm[x.hyp] \in f
  PROVE  Answerable([B EXCEPT ![a] = x], f)
BY DEF Answerable

\* What a generation changes of its attempt.
LEMMA StillAnswerable ==
  ASSUME NEW f, NEW B, Answerable(B, f), NEW a, NEW x \in AttemptSet, a \in Attempts => x.hyp = B[a].hyp /\ x.auth = B[a].auth
  PROVE  Answerable([B EXCEPT ![a] = x], f)
BY DEF Answerable

LEMMA DroppedIs ==
  ASSUME NEW f, NEW B, Answerable(B, f), NEW a
  PROVE  Answerable([B EXCEPT ![a] = NoAttempt], f)
BY NoAttemptIs, OneChanged

LEMMA StartsIs ==
  ASSUME NEW f, NEW B, Answerable(B, f), NEW text \in Words, NEW auth \in BOOLEAN, StartsAttempt(B, text, auth),
         auth /\ text # None => Norm[text] \in f
  PROVE  Answerable(A', f) /\ NextAttempt \in Attempts /\ NextAttempt \in 0 .. MaxAttempts
<1>1. NextAttempt \in Attempts /\ A' = [B EXCEPT ![NextAttempt] = Attempt(text, auth, "stream")]
  BY NextIs DEF StartsAttempt
<1> DEFINE x == Attempt(text, auth, "stream")
<1>2. x \in AttemptSet /\ x.hyp = text /\ x.auth = auth
  BY NewAttemptIs
<1> HIDE DEF x
<1>3. Answerable([B EXCEPT ![NextAttempt] = x], f)
  BY <1>2, OneChanged
<1>4. NextAttempt \in 0 .. MaxAttempts
  BY <1>1, TurnsAssumption DEF Attempts
<1> QED BY <1>1, <1>3, <1>4 DEF x

\* The stored attempt is one of the attempts.
LEMMA StoredIs ==
  ASSUME p \in PipelineSet, p.att # 0
  PROVE  p.att \in Attempts
BY TurnsAssumption DEF PipelineSet, Attempts

LEMMA AttemptIs ==
  ASSUME NEW f, NEW B, Answerable(B, f), NEW a \in Attempts
  PROVE  /\ B[a] \in AttemptSet /\ B[a].hyp \in Words /\ B[a].auth \in BOOLEAN
         /\ B[a].auth /\ B[a].hyp # None => Norm[B[a].hyp] \in f
<1>1. B[a] \in AttemptSet
  BY DEF Answerable
<1> QED BY <1>1 DEF AttemptSet, Answerable

\* _cancel_attempt up to its wait.
LEMMA CancelIs ==
  ASSUME p \in PipelineSet, Answerable(A, finals), Responds(resp, finals), NEW who, CancelBegins(who), who = "resp" => resp.pc \in {"grace", "window", "answer"}
  PROVE  Answerable(A', finals) /\ Responds(resp', finals)
<1> DEFINE x == [A[p.att] EXCEPT !.cancelled = TRUE, !.pc = "done", !.held = 0]
<1>1. p.att \in Attempts
  BY StoredIs DEF CancelBegins
<1>2. A[p.att] \in AttemptSet
  BY <1>1, AttemptIs
<1>3. x \in AttemptSet /\ x.hyp = A[p.att].hyp /\ x.auth = A[p.att].auth
  BY <1>2 DEF AttemptSet
<1>4. A' = [A EXCEPT ![p.att] = x]
  BY <1>1, <1>2 DEF CancelBegins, Answerable, AttemptSet
<1> HIDE DEF x
<1>5. Answerable(A', finals)
  BY <1>3, <1>4, StillAnswerable
<1>6. resp.pc \in {"grace", "window", "answer"} => Responds([resp EXCEPT !.pc = "replace"], finals)
  BY DEF Responds, CoroutineSet
<1>7. Responds(resp', finals)
  BY <1>6, IdleIs DEF CancelBegins
<1> QED BY <1>5, <1>7

LEMMA AfterCancel ==
  ASSUME NEW f, Answerable(A, f)
  PROVE  Answerable(Dropped, f)
BY DroppedIs DEF Dropped

\* A coroutine goes on with what more was retained.
LEMMA MoreRetained ==
  ASSUME NEW f, NEW g, f \subseteq g
  PROVE  /\ \A B : Answerable(B, f) => Answerable(B, g)
         /\ \A r : (Responds(r, f) => Responds(r, g)) /\ (Receiving(r, f) => Receiving(r, g))
BY DEF Answerable, Responds, Receiving

LEMMA AnsweringIs ==
  ASSUME NEW q \in PipelineSet, NEW text \in Texts, NEW f, Norm[text] \in f
  PROVE  Responds(Answering(q, text), f)
<1>1. NoTurn \in Nat /\ text # None /\ text \in Words
  BY TurnsAssumption DEF NoTurn, Words
<1>2. q.turn \in Nat
  BY DEF PipelineSet
<1> QED BY <1>1, <1>2 DEF Answering, Responds, CoroutineSet

\* text() after its cancellation.
LEMMA TypedKeeps ==
  ASSUME HeardInv, NEW q \in PipelineSet, NEW B, Answerable(B, finals), NEW text \in Texts, NEW queue, NEW r, Responds(r, finals),
         TypedFinal(q, B, text, queue, r)
  PROVE  /\ p' \in PipelineSet /\ Answerable(A', finals') /\ Responds(resp', finals') /\ Receiving(rcv, finals')
         /\ Stabilizes(stab') /\ Times(timer') /\ finals' \subseteq Texts
<1> DEFINE t == TypedAccepted(q)
           ok == Accepts(t, text)
           f == finals \union {Norm[text]}
<1>1. Norm[text] \in Texts /\ text \in Words /\ text # None
  BY TurnsAssumption DEF Words
<1>2. t \in PipelineSet
  BY TypedIs
<1>3. Receiving(rcv, finals) /\ finals \subseteq Texts
  BY HeardIs
<1>4. finals' = (IF ok THEN f ELSE finals) /\ stab' = Idle /\ timer' = Idle
  BY DEF TypedFinal
<1>5. f \subseteq Texts /\ finals \subseteq f /\ Norm[text] \in f
  BY <1>1, <1>3
<1> HIDE DEF t, f
<1>6. CASE ~ok
  <2>1. p' = t /\ resp' = r /\ A' = B
    BY <1>6 DEF TypedFinal, t, ok
  <2> QED BY <1>2, <1>3, <1>4, <1>6, <2>1, IdleIs
<1>7. CASE ok /\ conf.engaged
  <2>1. p' = [t EXCEPT !.final = text, !.state = "releasing"] /\ resp' = Answering(t, text) /\ A' = B
    BY <1>7 DEF TypedFinal, t, ok
  <2>2. p' \in PipelineSet
    BY <1>1, <1>2, <2>1 DEF PipelineSet
  <2>3. Answerable(B, f) /\ Receiving(rcv, f)
    BY <1>3, <1>5, MoreRetained
  <2>4. Responds(Answering(t, text), f)
    BY <1>2, <1>5, AnsweringIs
  <2> QED BY <1>4, <1>5, <1>7, <2>1, <2>2, <2>3, <2>4, IdleIs
<1>8. CASE ok /\ ~conf.engaged
  <2>1. /\ p' = [t EXCEPT !.final = text, !.state = "releasing", !.att = NextAttempt] /\ resp' = r
        /\ StartsAttempt(B, text, TRUE)
    BY <1>8 DEF TypedFinal, t, ok
  <2>2. Answerable(B, f) /\ Receiving(rcv, f) /\ Responds(r, f)
    BY <1>3, <1>5, MoreRetained
  <2>3. Answerable(A', f) /\ NextAttempt \in 0 .. MaxAttempts
    BY <1>1, <1>5, <2>1, <2>2, StartsIs
  <2>4. p' \in PipelineSet
    BY <1>1, <1>2, <2>1, <2>3 DEF PipelineSet
  <2> QED BY <1>4, <1>5, <1>8, <2>1, <2>2, <2>3, <2>4, IdleIs
<1> QED BY <1>6, <1>7, <1>8

-----------------------------------------------------------------------------
(* The caller's input                                                        *)

LEMMA InputKeeps ==
  ASSUME HeardInv,
         \/ CandidateStarts \/ CandidateCancelled \/ SpeechIgnored \/ SpeechStarts \/ BargeIn \/ SpeechEnds \/ Committed
         \/ (\E text \in conf.typed : Types(text)) \/ TypedSubmitted
  PROVE  HeardInv'
<1>0. /\ conf \in Confs /\ p \in PipelineSet /\ Answerable(A, finals) /\ Inputs(inp) /\ Receiving(rcv, finals)
      /\ Stabilizes(stab) /\ Times(timer) /\ Responds(resp, finals)
      /\ asked \subseteq Nat /\ finals \subseteq Texts /\ notices \in Nat
  BY HeardIs
<1>a. /\ p.turn \in Nat /\ p.number \in Nat /\ p.number + 1 \in Nat /\ p.candTurn \in Nat /\ p.buf \in Words
      /\ NoTurn \in Nat
  BY <1>0, TurnsAssumption DEF PipelineSet, NoTurn
<1>b. inp.text \in Words /\ inp.turn \in Nat /\ inp.old \in Nat
  BY <1>0 DEF Inputs, CoroutineSet
<1>c. Cancelled \in PipelineSet /\ Answerable(Dropped, finals)
  BY <1>0, CancelledIs, AfterCancel
<1>1. CASE CandidateStarts
  <2>1. p' \in PipelineSet
    BY <1>0, <1>1, <1>a DEF CandidateStarts, PipelineSet
  <2> QED BY <1>0, <1>1, <2>1, HeardNext DEF CandidateStarts
<1>2. CASE CandidateCancelled \/ SpeechIgnored
  <2>1. p' \in PipelineSet
    BY <1>0, <1>2, TtsIs DEF CandidateCancelled, SpeechIgnored
  <2> QED BY <1>0, <1>2, <2>1, HeardNext DEF CandidateCancelled, SpeechIgnored
<1>3. CASE SpeechStarts
  <2>1. UNCHANGED <<conf, rcv, timer, asked, finals, notices>>
    BY <1>3 DEF SpeechStarts
  <2>2. CASE p.state = "idle" \/ p.att = 0
    <3> DEFINE old == IF p.state = "idle" THEN NoTurn ELSE p.turn
    <3>1. /\ p' = NewTurn(p, p.candTurn, old, p.buf) /\ UNCHANGED <<A, inp>>
          /\ resp' \in {resp, Idle} /\ stab' = Buffered(p.buf)
      BY <1>3, <2>2 DEF SpeechStarts
    <3>2. old \in Nat
      BY <1>a
    <3> HIDE DEF old
    <3>3. p' \in PipelineSet
      BY <1>0, <1>a, <3>1, <3>2, NewTurnIs
    <3>4. Stabilizes(stab')
      BY <1>0, <1>a, <3>1, PlacedIs DEF Buffered
    <3>5. Responds(resp', finals)
      BY <1>0, <3>1, IdleIs
    <3> QED BY <1>0, <2>1, <3>1, <3>3, <3>4, <3>5, HeardNext
  <2>3. CASE ~(p.state = "idle" \/ p.att = 0)
    <3>1. /\ CancelBegins("inp") /\ UNCHANGED <<p, stab>>
          /\ inp' = [pc |-> "barge", text |-> p.buf, turn |-> p.candTurn, old |-> p.turn]
      BY <1>3, <2>3 DEF SpeechStarts
    <3>2. Inputs(inp')
      BY <1>a, <3>1 DEF Inputs, CoroutineSet
    <3>3. Answerable(A', finals) /\ Responds(resp', finals)
      BY <1>0, <3>1, CancelIs
    <3> QED BY <1>0, <2>1, <3>1, <3>2, <3>3, HeardNext
  <2> QED BY <2>2, <2>3
<1>4. CASE BargeIn
  <2>1. /\ p' = NewTurn(Cancelled, inp.turn, inp.old, inp.text) /\ stab' = Buffered(inp.text) /\ inp' = Idle /\ A' = Dropped
        /\ UNCHANGED <<conf, rcv, timer, resp, asked, finals, notices>>
    BY <1>4 DEF BargeIn
  <2>2. p' \in PipelineSet
    BY <1>b, <1>c, <2>1, NewTurnIs
  <2>3. Stabilizes(stab')
    BY <1>0, <1>b, <2>1, PlacedIs DEF Buffered
  <2> QED BY <1>0, <1>c, <2>1, <2>2, <2>3, IdleIs, HeardNext
<1>5. CASE SpeechEnds
  <2>1. /\ p' = [p EXCEPT !.state = "awaiting_final"] /\ inp' = [Idle EXCEPT !.pc = "commit"]
        /\ asked' = (IF p.turn = NoTurn THEN asked ELSE asked \union {p.turn})
        /\ UNCHANGED <<conf, A, cq, rcv, stab, timer, resp, finals, notices>>
    BY <1>5 DEF SpeechEnds
  <2>2. p' \in PipelineSet /\ asked' \subseteq Nat
    BY <1>0, <1>a, <2>1 DEF PipelineSet
  <2>3. Inputs(inp')
    BY <1>a, <2>1, PlacedIs
  <2> QED BY <1>0, <2>1, <2>2, <2>3, HeardNext
<1>6. CASE Committed
  <2>1. /\ timer' = [Idle EXCEPT !.pc = "armed", !.turn = p.turn] /\ inp' = Idle
        /\ UNCHANGED <<conf, p, A, rcv, stab, resp, asked, finals, notices>>
    BY <1>6 DEF Committed
  <2>2. Times(timer')
    BY <1>a, <2>1, PlacedIs
  <2> QED BY <1>0, <2>1, <2>2, IdleIs, HeardNext
<1>7. ASSUME NEW text \in conf.typed, Types(text) PROVE HeardInv'
  <2>1. text \in Texts /\ text \in Words /\ text # None
    BY <1>0, TurnsAssumption DEF Words
  <2>2. UNCHANGED <<conf, rcv, asked, notices>>
    BY <1>7 DEF Types
  <2>3. CASE p.att = 0
    <3> DEFINE queue == Unanswered
               r == IF conf.engaged THEN Idle ELSE resp
    <3>1. TypedFinal(p, A, text, queue, r) /\ UNCHANGED inp
      BY <1>7, <2>3 DEF Types
    <3>2. Responds(r, finals)
      BY <1>0, IdleIs
    <3> HIDE DEF queue, r
    <3>3. /\ p' \in PipelineSet /\ Answerable(A', finals') /\ Responds(resp', finals') /\ Receiving(rcv, finals')
          /\ Stabilizes(stab') /\ Times(timer') /\ finals' \subseteq Texts
      BY <1>0, <2>1, <3>1, <3>2, TypedKeeps
    <3> QED BY <1>0, <2>2, <3>1, <3>3, HeardNext
  <2>4. CASE p.att # 0
    <3>1. CancelBegins("inp") /\ inp' = [Idle EXCEPT !.pc = "text", !.text = text] /\ UNCHANGED <<p, stab, timer, finals>>
      BY <1>7, <2>4 DEF Types
    <3>2. Inputs(inp')
      BY <2>1, <3>1, PlacedIs
    <3>3. Answerable(A', finals) /\ Responds(resp', finals)
      BY <1>0, <3>1, CancelIs
    <3> QED BY <1>0, <2>2, <3>1, <3>2, <3>3, HeardNext
  <2> QED BY <2>3, <2>4
<1>8. CASE TypedSubmitted
  <2>1. /\ inp.pc = "text" /\ TypedFinal(Cancelled, Dropped, inp.text, Rest, resp) /\ inp' = Idle
        /\ UNCHANGED <<conf, rcv, asked, notices>>
    BY <1>8 DEF TypedSubmitted
  <2>2. inp.text \in Texts
    BY <1>0, <1>b, <2>1 DEF Inputs, Words
  <2>3. /\ p' \in PipelineSet /\ Answerable(A', finals') /\ Responds(resp', finals') /\ Receiving(rcv, finals')
        /\ Stabilizes(stab') /\ Times(timer') /\ finals' \subseteq Texts
    BY <1>0, <1>c, <2>1, <2>2, TypedKeeps
  <2> QED BY <1>0, <2>1, <2>3, IdleIs, HeardNext
<1> QED BY <1>1, <1>2, <1>3, <1>4, <1>5, <1>6, <1>7, <1>8

-----------------------------------------------------------------------------
(* The final and its answer                                                  *)

LEMMA FinalKeeps ==
  ASSUME HeardInv,
         \/ \E t \in asked : FinalLost(t) \/ \E text \in Finals : FinalArrives(t, text)
         \/ FinalPublished \/ Answers \/ FreshAnswer
  PROVE  HeardInv'
<1>0. /\ conf \in Confs /\ p \in PipelineSet /\ Answerable(A, finals) /\ Inputs(inp) /\ Receiving(rcv, finals)
      /\ Stabilizes(stab) /\ Times(timer) /\ Responds(resp, finals)
      /\ asked \subseteq Nat /\ finals \subseteq Texts /\ notices \in Nat
  BY HeardIs
<1>a. /\ rcv.pc = "publish" => rcv.text \in Texts /\ Norm[rcv.text] \in finals
      /\ resp.pc \in {"grace", "window", "answer", "replace"} => resp.text \in Texts /\ resp.text \in Words /\ Norm[resp.text] \in finals
      /\ resp.pc = "release" => resp.old \in Attempts
      /\ resp \in CoroutineSet({"grace", "window", "answer", "replace", "release", "drain"})
  BY <1>0 DEF Receiving, Responds, CoroutineSet, Words
<1>b. ASSUME NEW q \in PipelineSet
      PROVE  /\ [q EXCEPT !.state = "releasing"] \in PipelineSet
             /\ \A a \in 0 .. MaxAttempts : [q EXCEPT !.att = a, !.state = "releasing"] \in PipelineSet
  BY DEF PipelineSet
<1>1. ASSUME NEW t \in asked, FinalLost(t) PROVE HeardInv'
  <2>1. asked' \subseteq Nat /\ UNCHANGED <<conf, p, A, inp, rcv, stab, timer, resp, finals, notices>>
    BY <1>0, <1>1 DEF FinalLost
  <2> QED BY <1>0, <2>1, HeardNext
<1>2. ASSUME NEW t \in asked, NEW text \in Finals, FinalArrives(t, text) PROVE HeardInv'
  <2>1. asked' \subseteq Nat /\ UNCHANGED <<conf, A, inp, stab, resp, notices>>
    BY <1>0, <1>2 DEF FinalArrives
  <2>2. text \in Texts /\ text \in Words /\ text # None /\ Norm[text] \in Texts
    BY TurnsAssumption DEF Words
  <2>3. CASE Accepts(p, text)
    <3> DEFINE f == finals \union {Norm[text]}
    <3>1. /\ p' = [p EXCEPT !.final = text] /\ timer' = Idle /\ finals' = f
          /\ rcv' = [Idle EXCEPT !.pc = "publish", !.text = text]
      BY <1>2, <2>3 DEF FinalArrives
    <3>2. finals \subseteq f /\ f \subseteq Texts /\ Norm[text] \in f
      BY <1>0, <2>2
    <3> HIDE DEF f
    <3>3. Answerable(A, f) /\ Responds(resp, f)
      BY <1>0, <3>2, MoreRetained
    <3>4. Receiving(rcv', f)
      BY <2>2, <3>1, <3>2, PlacedIs
    <3>5. p' \in PipelineSet
      BY <1>0, <2>2, <3>1 DEF PipelineSet
    <3> QED BY <1>0, <2>1, <3>1, <3>2, <3>3, <3>4, <3>5, IdleIs, HeardNext
  <2>4. CASE ~Accepts(p, text)
    <3>1. UNCHANGED <<p, timer, cq, finals, rcv>>
      BY <1>2, <2>4 DEF FinalArrives
    <3> QED BY <1>0, <2>1, <3>1, HeardNext
  <2> QED BY <2>3, <2>4
<1>3. CASE FinalPublished
  <2>1. /\ rcv.pc = "publish" /\ rcv' = Idle /\ stab' = Idle /\ resp' = Answering(p, rcv.text)
        /\ p' = (IF conf.engaged THEN [p EXCEPT !.state = "releasing"] ELSE p)
        /\ UNCHANGED <<conf, A, inp, timer, asked, finals, notices>>
    BY <1>3 DEF FinalPublished
  <2>2. Responds(resp', finals)
    BY <1>0, <1>a, <2>1, AnsweringIs
  <2>3. p' \in PipelineSet
    BY <1>0, <1>b, <2>1
  <2> QED BY <1>0, <2>1, <2>2, <2>3, IdleIs, HeardNext
<1>4. CASE GraceElapses
  <2>1. /\ resp.pc \in {"grace", "window"}
        /\ resp' \in {Idle, [resp EXCEPT !.pc = "window"]}
        /\ UNCHANGED <<conf, p, A, cq, inp, rcv, stab, timer, asked, finals, notices>>
    BY <1>4 DEF GraceElapses
  <2>2. Responds([resp EXCEPT !.pc = "window"], finals)
    BY <1>0, <2>1 DEF Responds, CoroutineSet
  <2>3. Responds(resp', finals)
    BY <2>1, <2>2, IdleIs
  <2> QED BY <1>0, <2>1, <2>3, HeardNext
<1>5. CASE Authorize
  <2>1. /\ resp.pc \in {"grace", "window", "answer"} /\ p.att # 0 /\ Same(A[p.att].hyp, resp.text)
        /\ A' = [A EXCEPT ![p.att].auth = TRUE] /\ p' = [p EXCEPT !.state = "releasing"]
        /\ resp' = [resp EXCEPT !.pc = "release", !.old = p.att]
        /\ UNCHANGED <<conf, cq, inp, rcv, stab, timer, asked, finals, notices>>
    BY <1>5 DEF Authorize, GraceOver
  <2>2. p.att \in Attempts /\ p.att \in Nat
    BY <1>0, <2>1, StoredIs, TurnsAssumption DEF Attempts
  <2> DEFINE x == [A[p.att] EXCEPT !.auth = TRUE]
  <2>3. A[p.att] \in AttemptSet
    BY <1>0, <2>2, AttemptIs
  <2>4. x \in AttemptSet /\ x.hyp = A[p.att].hyp
    BY <2>3 DEF AttemptSet
  <2>5. Norm[x.hyp] \in finals
    BY <1>a, <2>1, <2>4 DEF Same
  <2>6. A' = [A EXCEPT ![p.att] = x]
    BY <1>0, <2>1, <2>2 DEF Answerable
  <2> HIDE DEF x
  <2>7. Answerable(A', finals)
    BY <1>0, <2>4, <2>5, <2>6, OneChanged
  <2>8. Responds(resp', finals)
    BY <1>0, <2>1, <2>2 DEF Responds, CoroutineSet
  <2> QED BY <1>0, <1>b, <2>1, <2>7, <2>8, HeardNext
<1>6. CASE Discard
  <2>1. resp.pc \in {"grace", "window", "answer"} /\ CancelBegins("resp") /\ UNCHANGED <<conf, p, inp, rcv, stab, timer, asked, finals, notices>>
    BY <1>6 DEF Discard, GraceOver
  <2>2. Answerable(A', finals) /\ Responds(resp', finals)
    BY <1>0, <2>1, CancelIs
  <2> QED BY <1>0, <2>1, <2>2, HeardNext
<1>7. CASE Answer
  <2>1. /\ resp.pc \in {"grace", "window", "answer"} /\ StartsAttempt(A, resp.text, TRUE) /\ p' = [p EXCEPT !.att = NextAttempt, !.state = "releasing"]
        /\ resp' = Idle /\ UNCHANGED <<conf, cq, inp, rcv, stab, timer, asked, finals, notices>>
    BY <1>7 DEF Answer, GraceOver
  <2>2. Answerable(A', finals) /\ NextAttempt \in 0 .. MaxAttempts
    BY <1>0, <1>a, <2>1, StartsIs
  <2>3. p' \in PipelineSet
    BY <1>0, <1>b, <2>1, <2>2
  <2> QED BY <1>0, <2>1, <2>2, <2>3, IdleIs, HeardNext
<1>8. CASE FreshAnswer
  <2>1. /\ resp.pc = "replace" /\ StartsAttempt(Dropped, resp.text, TRUE)
        /\ p' = [Cancelled EXCEPT !.att = NextAttempt, !.state = "releasing"]
        /\ resp' = Idle /\ UNCHANGED <<conf, inp, rcv, stab, timer, asked, finals, notices>>
    BY <1>8 DEF FreshAnswer
  <2>2. Cancelled \in PipelineSet /\ Answerable(Dropped, finals)
    BY <1>0, CancelledIs, AfterCancel
  <2>3. Answerable(A', finals) /\ NextAttempt \in 0 .. MaxAttempts
    BY <1>a, <2>1, <2>2, StartsIs
  <2>4. p' \in PipelineSet
    BY <1>b, <2>1, <2>2, <2>3
  <2> QED BY <1>0, <2>1, <2>3, <2>4, IdleIs, HeardNext
<1>9. CASE ReleaseChunk
  <2>1. /\ resp.pc = "release" /\ A[resp.old].held > 0 /\ A' = [A EXCEPT ![resp.old].held = @ - 1]
        /\ p' \in {p, TtsStart(p)}
        /\ UNCHANGED <<conf, cq, inp, rcv, stab, timer, resp, asked, finals, notices>>
    BY <1>9 DEF ReleaseChunk
  <2> DEFINE h == A[resp.old].held - 1
             x == [A[resp.old] EXCEPT !.held = h]
  <2>2. A[resp.old] \in AttemptSet
    BY <1>0, <1>a, <2>1, AttemptIs
  <2>3. h \in Nat
    BY <2>1, <2>2 DEF AttemptSet
  <2>4. A' = [A EXCEPT ![resp.old] = x]
    BY <1>0, <1>a, <2>1 DEF Answerable
  <2> HIDE DEF h
  <2>5. x \in AttemptSet /\ x.hyp = A[resp.old].hyp /\ x.auth = A[resp.old].auth
    BY <2>2, <2>3 DEF AttemptSet
  <2> HIDE DEF x
  <2>6. Answerable(A', finals)
    BY <1>0, <2>4, <2>5, StillAnswerable
  <2> QED BY <1>0, <2>1, <2>6, TtsIs, HeardNext
<1>10. CASE Released
  <2>1. /\ resp' \in {Idle, [resp EXCEPT !.pc = "drain", !.old = p.att]}
        /\ UNCHANGED <<conf, p, A, cq, inp, rcv, stab, timer, asked, finals, notices>>
    BY <1>10 DEF Released
  <2>2. p.att \in 0 .. MaxAttempts /\ p.att \in Nat
    BY <1>0, TurnsAssumption DEF PipelineSet
  <2>3. Responds([resp EXCEPT !.pc = "drain", !.old = p.att], finals)
    BY <1>a, <2>2 DEF Responds, CoroutineSet
  <2> QED BY <1>0, <2>1, <2>3, IdleIs, HeardNext
<1>11. CASE ReleaseDrained
  <2>1. /\ p' = FinishPlayout(p, A, resp.old) /\ (A' = A \/ A' = [A EXCEPT ![p.att] = NoAttempt]) /\ resp' = Idle
        /\ UNCHANGED <<conf, cq, inp, rcv, stab, timer, asked, finals, notices>>
    BY <1>11 DEF ReleaseDrained
  <2>2. Answerable(A', finals)
    BY <1>0, <2>1, DroppedIs
  <2> QED BY <1>0, <2>1, <2>2, TtsIs, IdleIs, HeardNext
<1> QED BY <1>1, <1>2, <1>3, <1>4, <1>5, <1>6, <1>7, <1>8, <1>9, <1>10, <1>11 DEF Answers

-----------------------------------------------------------------------------
(* Partials, speculation and the timeout                                     *)

LEMMA SpeculationKeeps ==
  ASSUME HeardInv,
         \/ (\E text \in conf.heard : Partial(text)) \/ Revised \/ StableStale \/ Speculate \/ Respeculate
         \/ TimeoutStale \/ Timeout \/ TimeoutCancelled \/ Recovered
  PROVE  HeardInv'
<1>0. /\ conf \in Confs /\ p \in PipelineSet /\ Answerable(A, finals) /\ Inputs(inp) /\ Receiving(rcv, finals)
      /\ Stabilizes(stab) /\ Times(timer) /\ Responds(resp, finals)
      /\ asked \subseteq Nat /\ finals \subseteq Texts /\ notices \in Nat
  BY HeardIs
<1>a. stab.text \in Words /\ rcv.text \in Words
  BY <1>0 DEF Stabilizes, Receiving, CoroutineSet
<1>b. ASSUME NEW q \in PipelineSet
      PROVE  /\ [q EXCEPT !.state = "recovering_stt"] \in PipelineSet
             /\ \A a \in 0 .. MaxAttempts : [q EXCEPT !.att = a, !.state = "speculating"] \in PipelineSet
  BY DEF PipelineSet
<1>c. Cancelled \in PipelineSet /\ Answerable(Dropped, finals)
  BY <1>0, CancelledIs, AfterCancel
<1>1. ASSUME NEW text \in conf.heard, Partial(text) PROVE HeardInv'
  <2>1. UNCHANGED <<conf, inp, timer, asked, finals, notices>>
    BY <1>1 DEF Partial
  <2>2. text \in Words
    BY <1>0, TurnsAssumption DEF Words
  <2>3. [p EXCEPT !.buf = text] \in PipelineSet /\ [p EXCEPT !.last = text] \in PipelineSet
    BY <1>0, <2>2 DEF PipelineSet
  <2>4. Stabilizes([Idle EXCEPT !.pc = "armed", !.text = text]) /\ Receiving([Idle EXCEPT !.pc = "revise", !.text = text], finals)
    BY <2>2, PlacedIs
  <2>5. CASE p' = [p EXCEPT !.buf = text] /\ UNCHANGED <<A, cq, rcv, stab, resp>>
    BY <1>0, <2>1, <2>3, <2>5, HeardNext
  <2>6. CASE /\ p' = [p EXCEPT !.last = text] /\ CancelBegins("rcv")
             /\ rcv' = [Idle EXCEPT !.pc = "revise", !.text = text] /\ UNCHANGED stab
    <3>1. Answerable(A', finals) /\ Responds(resp', finals)
      BY <1>0, <2>6, CancelIs
    <3> QED BY <1>0, <2>1, <2>3, <2>4, <2>6, <3>1, HeardNext
  <2>7. CASE p' = [p EXCEPT !.last = text] /\ stab' = [Idle EXCEPT !.pc = "armed", !.text = text] /\ UNCHANGED <<A, rcv, resp>>
    BY <1>0, <2>1, <2>3, <2>4, <2>7, HeardNext
  <2> QED BY <1>1, <2>5, <2>6, <2>7 DEF Partial
<1>2. CASE Revised
  <2>1. /\ p' = Cancelled /\ stab' = [Idle EXCEPT !.pc = "armed", !.text = rcv.text] /\ rcv' = Idle /\ A' = Dropped
        /\ UNCHANGED <<conf, inp, timer, resp, asked, finals, notices>>
    BY <1>2 DEF Revised
  <2>2. Stabilizes(stab')
    BY <1>a, <2>1, PlacedIs
  <2> QED BY <1>0, <1>c, <2>1, <2>2, IdleIs, HeardNext
<1>3. CASE StableStale \/ TimeoutStale
  <2>1. /\ (stab' = Idle /\ UNCHANGED timer) \/ (timer' = Idle /\ UNCHANGED stab)
        /\ UNCHANGED <<conf, p, A, cq, inp, rcv, resp, asked, finals, notices>>
    BY <1>3 DEF StableStale, TimeoutStale
  <2> QED BY <1>0, <2>1, IdleIs, HeardNext
<1>4. CASE Speculate
  <2>1. UNCHANGED <<conf, inp, rcv, timer, asked, finals, notices>>
    BY <1>4 DEF Speculate
  <2>2. CASE p.att = 0
    <3>1. /\ StartsAttempt(A, stab.text, FALSE) /\ p' = [p EXCEPT !.att = NextAttempt, !.state = "speculating"]
          /\ stab' = Idle /\ UNCHANGED <<cq, resp>>
      BY <1>4, <2>2 DEF Speculate
    <3>2. Answerable(A', finals) /\ NextAttempt \in 0 .. MaxAttempts
      BY <1>0, <1>a, <3>1, StartsIs
    <3>3. p' \in PipelineSet
      BY <1>0, <1>b, <3>1, <3>2
    <3> QED BY <1>0, <2>1, <3>1, <3>2, <3>3, IdleIs, HeardNext
  <2>3. CASE p.att # 0
    <3>1. CancelBegins("stab") /\ stab' = [stab EXCEPT !.pc = "replace"] /\ UNCHANGED p
      BY <1>4, <2>3 DEF Speculate
    <3>2. Answerable(A', finals) /\ Responds(resp', finals)
      BY <1>0, <3>1, CancelIs
    <3>3. Stabilizes(stab')
      BY <1>0, <3>1 DEF Stabilizes, CoroutineSet
    <3> QED BY <1>0, <2>1, <3>1, <3>2, <3>3, HeardNext
  <2> QED BY <2>2, <2>3
<1>5. CASE Respeculate
  <2>1. /\ StartsAttempt(Dropped, stab.text, FALSE) /\ p' = [Cancelled EXCEPT !.att = NextAttempt, !.state = "speculating"]
        /\ stab' = Idle /\ UNCHANGED <<conf, inp, rcv, timer, resp, asked, finals, notices>>
    BY <1>5 DEF Respeculate
  <2>2. Answerable(A', finals) /\ NextAttempt \in 0 .. MaxAttempts
    BY <1>a, <1>c, <2>1, StartsIs
  <2>3. p' \in PipelineSet
    BY <1>b, <1>c, <2>1, <2>2
  <2> QED BY <1>0, <2>1, <2>2, <2>3, IdleIs, HeardNext
<1>d. Times([timer EXCEPT !.pc = "recover"]) /\ Times([timer EXCEPT !.pc = "cancel"])
  BY <1>0 DEF Times, CoroutineSet
<1>6. CASE Timeout
  <2>1. UNCHANGED <<conf, inp, rcv, stab, asked, finals, notices>>
    BY <1>6 DEF Timeout
  <2>2. CASE p.att = 0
    <3>1. /\ NothingToCancel /\ p' = [p EXCEPT !.state = "recovering_stt"] /\ timer' = [timer EXCEPT !.pc = "recover"]
          /\ UNCHANGED A
      BY <1>6, <2>2 DEF Timeout
    <3>2. Responds(resp', finals)
      BY <1>0, <3>1, IdleIs DEF NothingToCancel
    <3> QED BY <1>0, <1>b, <1>d, <2>1, <3>1, <3>2, HeardNext
  <2>3. CASE p.att # 0
    <3>1. CancelBegins("timer") /\ timer' = [timer EXCEPT !.pc = "cancel"] /\ UNCHANGED p
      BY <1>6, <2>3 DEF Timeout
    <3>2. Answerable(A', finals) /\ Responds(resp', finals)
      BY <1>0, <3>1, CancelIs
    <3> QED BY <1>0, <1>d, <2>1, <3>1, <3>2, HeardNext
  <2> QED BY <2>2, <2>3
<1>7. CASE TimeoutCancelled
  <2>1. /\ p' = [Cancelled EXCEPT !.state = "recovering_stt"] /\ A' = Dropped
        /\ timer' = [timer EXCEPT !.pc = "recover", !.turn = Cancelled.turn]
        /\ UNCHANGED <<conf, inp, rcv, stab, resp, asked, finals, notices>>
    BY <1>7 DEF TimeoutCancelled
  <2> DEFINE t == Cancelled.turn
  <2>2. t \in Nat
    BY <1>c DEF PipelineSet
  <2> HIDE DEF t
  <2>3. Times([timer EXCEPT !.pc = "recover", !.turn = t])
    BY <1>0, <2>2 DEF Times, CoroutineSet
  <2>4. Times(timer')
    BY <2>1, <2>3 DEF t
  <2> QED BY <1>0, <1>b, <1>c, <2>1, <2>4, HeardNext
<1>8. CASE Recovered
  <2> DEFINE c == IF timer.turn = NoTurn THEN p.closed ELSE p.closed \union {timer.turn}
  <2>1. /\ p' = [p EXCEPT !.state = "idle", !.turn = NoTurn, !.closed = c] /\ timer' = Idle
        /\ UNCHANGED <<conf, A, cq, inp, rcv, stab, resp, asked, finals, notices>>
    BY <1>8 DEF Recovered
  <2>2. c \in SUBSET Nat /\ NoTurn \in Nat
    BY <1>0, TurnsAssumption DEF PipelineSet, NoTurn, Times, CoroutineSet
  <2> HIDE DEF c
  <2>3. p' \in PipelineSet
    BY <1>0, <2>1, <2>2 DEF PipelineSet
  <2> QED BY <1>0, <2>1, <2>3, IdleIs, HeardNext
<1> QED BY <1>1, <1>2, <1>3, <1>4, <1>5, <1>6, <1>7, <1>8

-----------------------------------------------------------------------------
(* Generation, the greeting, announcements and the end of the call           *)

\* What a generation does to its attempt keeps its words and its authorization.
LEMMA Generating ==
  ASSUME Answerable(A, finals), p \in PipelineSet, NEW a \in Attempts
  PROVE  /\ \A t \in {"end_call", "transfer"} : Answerable([A EXCEPT ![a].tool = t], finals)
         /\ \A pc \in {"transfer", "done"} : Answerable([A EXCEPT ![a].pc = pc], finals)
         /\ Answerable([A EXCEPT ![a].pc = "apology", ![a].cap = p.att], finals)
         /\ \A pc \in {"drain", "done"} : Answerable([A EXCEPT ![a].complete = TRUE, ![a].cap = p.att, ![a].pc = pc], finals)
         /\ Answerable([A EXCEPT ![a].made = @ + 1, ![a].held = IF A[a].auth THEN @ ELSE @ + 1], finals)
<1>1. A[a] \in AttemptSet /\ p.att \in 0 .. MaxAttempts
  BY AttemptIs DEF PipelineSet
<1>2. ASSUME NEW x \in AttemptSet, x.hyp = A[a].hyp, x.auth = A[a].auth PROVE Answerable([A EXCEPT ![a] = x], finals)
  BY <1>2, StillAnswerable
<1>3. ASSUME NEW t \in {"end_call", "transfer"} PROVE Answerable([A EXCEPT ![a].tool = t], finals)
  <2> DEFINE x == [A[a] EXCEPT !.tool = t]
  <2>1. x \in AttemptSet /\ x.hyp = A[a].hyp /\ x.auth = A[a].auth
    BY <1>1 DEF AttemptSet
  <2> QED BY <1>2, <2>1
<1>4. ASSUME NEW pc \in {"transfer", "done"} PROVE Answerable([A EXCEPT ![a].pc = pc], finals)
  <2> DEFINE x == [A[a] EXCEPT !.pc = pc]
  <2>1. x \in AttemptSet /\ x.hyp = A[a].hyp /\ x.auth = A[a].auth
    BY <1>1 DEF AttemptSet
  <2> QED BY <1>2, <2>1
<1>5. Answerable([A EXCEPT ![a].pc = "apology", ![a].cap = p.att], finals)
  <2> DEFINE x == [A[a] EXCEPT !.pc = "apology", !.cap = p.att]
  <2>1. x \in AttemptSet /\ x.hyp = A[a].hyp /\ x.auth = A[a].auth
    BY <1>1 DEF AttemptSet
  <2>2. [A EXCEPT ![a].pc = "apology", ![a].cap = p.att] = [A EXCEPT ![a] = x]
    BY <1>1 DEF Answerable, AttemptSet
  <2> HIDE DEF x
  <2> QED BY <1>2, <2>1, <2>2
<1>6. ASSUME NEW pc \in {"drain", "done"}
      PROVE  Answerable([A EXCEPT ![a].complete = TRUE, ![a].cap = p.att, ![a].pc = pc], finals)
  <2> DEFINE x == [A[a] EXCEPT !.complete = TRUE, !.cap = p.att, !.pc = pc]
  <2>1. x \in AttemptSet /\ x.hyp = A[a].hyp /\ x.auth = A[a].auth
    BY <1>1 DEF AttemptSet
  <2>2. [A EXCEPT ![a].complete = TRUE, ![a].cap = p.att, ![a].pc = pc] = [A EXCEPT ![a] = x]
    BY <1>1 DEF Answerable, AttemptSet
  <2> HIDE DEF x
  <2> QED BY <1>2, <2>1, <2>2
<1>7. Answerable([A EXCEPT ![a].made = @ + 1, ![a].held = IF A[a].auth THEN @ ELSE @ + 1], finals)
  <2> DEFINE m == A[a].made + 1
             h == IF A[a].auth THEN A[a].held ELSE A[a].held + 1
             x == [A[a] EXCEPT !.made = m, !.held = h]
  <2>1. m \in Nat /\ h \in Nat
    BY <1>1 DEF AttemptSet
  <2>2. [A EXCEPT ![a].made = @ + 1, ![a].held = IF A[a].auth THEN @ ELSE @ + 1] = [A EXCEPT ![a] = x]
    BY <1>1 DEF Answerable, AttemptSet
  <2> HIDE DEF m, h
  <2>3. x \in AttemptSet /\ x.hyp = A[a].hyp /\ x.auth = A[a].auth
    BY <1>1, <2>1 DEF AttemptSet
  <2> HIDE DEF x
  <2> QED BY <1>2, <2>2, <2>3
<1> QED BY <1>3, <1>4, <1>5, <1>6, <1>7

LEMMA FinishedIs ==
  ASSUME Answerable(A, finals), p \in PipelineSet, NEW a \in Attempts, NEW q
  PROVE  Answerable(Finished(a, q), finals)
<1>1. q.att = a => Finished(a, q) = [A EXCEPT ![a].pc = "done"]
  BY DEF Finished
<1>2. q.att # a => Finished(a, q) = [A EXCEPT ![a] = NoAttempt]
  BY DEF Finished
<1>3. Answerable([A EXCEPT ![a].pc = "done"], finals)
  BY Generating
<1>4. Answerable([A EXCEPT ![a] = NoAttempt], finals)
  BY DroppedIs
<1> QED BY <1>1, <1>2, <1>3, <1>4

LEMMA EndedKeeps ==
  ASSUME HeardInv, Close
  PROVE  HeardInv'
<1>1. New \in PipelineSet
  BY TurnsAssumption DEF New, PipelineSet, NoTurn, Words
<1>2. p' \in PipelineSet
  BY <1>1 DEF Close, PipelineSet
<1>3. Answerable(A', {})
  BY NoAttemptIs DEF Close, Answerable
<1> QED BY <1>2, <1>3, HeardIs, IdleIs, HeardNext DEF Close

LEMMA GenerationKeeps ==
  ASSUME HeardInv, (\E a \in Attempts : Generates(a)) \/ OpeningStarts \/ Announce \/ HangUp
  PROVE  HeardInv'
<1>0. /\ conf \in Confs /\ p \in PipelineSet /\ Answerable(A, finals) /\ Inputs(inp) /\ Receiving(rcv, finals)
      /\ Stabilizes(stab) /\ Times(timer) /\ Responds(resp, finals)
      /\ asked \subseteq Nat /\ finals \subseteq Texts /\ notices \in Nat
  BY HeardIs
<1>a. ASSUME p' \in PipelineSet, Answerable(A', finals), UNCHANGED Others PROVE HeardInv'
  BY <1>0, <1>a, HeardNext DEF Others
<1>b. TtsStart(p) \in PipelineSet /\ \A B, cap : FinishPlayout(p, B, cap) \in PipelineSet
  BY <1>0, TtsIs
<1>c. ASSUME NEW q \in PipelineSet, NEW h \in {"no", "progress", "active"} PROVE [q EXCEPT !.handoff = h] \in PipelineSet
  BY DEF PipelineSet
<1>1. ASSUME NEW a \in Attempts, GenChunk(a) PROVE HeardInv'
  <2>1. /\ p' \in {p, TtsStart(p)} /\ UNCHANGED Others
        /\ A' = [A EXCEPT ![a].made = @ + 1, ![a].held = IF A[a].auth THEN @ ELSE @ + 1]
    BY <1>1 DEF GenChunk, SentOrHeld
  <2>2. Answerable(A', finals)
    BY <1>0, <2>1, Generating
  <2> QED BY <1>0, <1>a, <1>b, <2>1, <2>2
<1>2. ASSUME NEW a \in Attempts, NEW tool \in conf.tools, GenTool(a, tool) PROVE HeardInv'
  <2>1. p' \in {p, [p EXCEPT !.ending = TRUE]} /\ UNCHANGED Others /\ A' = [A EXCEPT ![a].tool = tool]
    BY <1>2 DEF GenTool
  <2>2. tool \in {"end_call", "transfer"}
    BY <1>0, TurnsAssumption
  <2>3. Answerable(A', finals)
    BY <1>0, <2>1, <2>2, Generating
  <2>4. p' \in PipelineSet
    BY <1>0, <2>1, ZenonT(60) DEF PipelineSet
  <2> QED BY <1>a, <2>1, <2>3, <2>4
<1>3. ASSUME NEW a \in Attempts, GenComplete(a) PROVE HeardInv'
  <2> DEFINE pc == IF A[a].auth THEN "drain" ELSE "done"
  <2>1. UNCHANGED p /\ UNCHANGED Others /\ A' = [A EXCEPT ![a].complete = TRUE, ![a].cap = p.att, ![a].pc = pc]
    BY <1>3 DEF GenComplete
  <2>2. pc \in {"drain", "done"}
    OBVIOUS
  <2> HIDE DEF pc
  <2>3. Answerable(A', finals)
    BY <1>0, <2>1, <2>2, Generating
  <2> QED BY <1>0, <1>a, <2>1, <2>3
<1>4. ASSUME NEW a \in Attempts, GenError(a) PROVE HeardInv'
  <2>1. UNCHANGED p /\ UNCHANGED Others /\ A' = [A EXCEPT ![a].pc = "done"]
    BY <1>4 DEF GenError
  <2> QED BY <1>0, <1>a, <2>1, Generating
<1>5. ASSUME NEW a \in Attempts, GenDrained(a) PROVE HeardInv'
  <2> DEFINE q == FinishPlayout(p, A, A[a].cap)
  <2>1. /\ UNCHANGED Others
        /\ \/ p' = [q EXCEPT !.handoff = "progress"] /\ A' = [A EXCEPT ![a].pc = "transfer"]
           \/ p' = q /\ A' = Finished(a, q)
    BY <1>5 DEF GenDrained
  <2>2. q \in PipelineSet
    BY <1>b
  <2> HIDE DEF q
  <2>3. Answerable(A', finals)
    BY <1>0, <2>1, Generating, FinishedIs
  <2>4. p' \in PipelineSet
    BY <1>c, <2>1, <2>2
  <2> QED BY <1>a, <2>1, <2>3, <2>4
<1>6. ASSUME NEW a \in Attempts, CallEnds(a) \/ HangUp PROVE HeardInv'
  BY <1>6, EndedKeeps DEF CallEnds, HangUp
<1>7. ASSUME NEW a \in Attempts, TransferConnects(a) PROVE HeardInv'
  <2>1. p' = [p EXCEPT !.handoff = "active"] /\ A' = Finished(a, p) /\ UNCHANGED Others
    BY <1>7 DEF TransferConnects
  <2> QED BY <1>0, <1>a, <1>c, <2>1, FinishedIs
<1>8. ASSUME NEW a \in Attempts, TransferFails(a) PROVE HeardInv'
  <2>1. p' \in {p, TtsStart(p)} /\ A' = [A EXCEPT ![a].pc = "apology", ![a].cap = p.att] /\ UNCHANGED Others
    BY <1>8 DEF TransferFails
  <2> QED BY <1>0, <1>a, <1>b, <2>1, Generating
<1>9. ASSUME NEW a \in Attempts, Apologized(a) PROVE HeardInv'
  <2>1. p' = [FinishPlayout(p, A, A[a].cap) EXCEPT !.handoff = "no"] /\ A' = Finished(a, p') /\ UNCHANGED Others
    BY <1>9 DEF Apologized
  <2>2. p' \in PipelineSet
    BY <1>b, <1>c, <2>1
  <2> QED BY <1>0, <1>a, <2>1, <2>2, FinishedIs
<1>10. ASSUME NEW a \in Attempts, OpeningEnds(a) PROVE HeardInv'
  <2> DEFINE b == p.playing /\ A[a].pc = "done"
             c == p.closed \union {Opening}
  <2>1. /\ p' = [p EXCEPT !.state = "idle", !.turn = NoTurn, !.att = 0, !.closed = c, !.playing = b]
        /\ A' = [A EXCEPT ![a] = NoAttempt] /\ UNCHANGED Others
    BY <1>10 DEF OpeningEnds
  <2>2. b \in BOOLEAN /\ c \in SUBSET Nat /\ NoTurn \in Nat /\ 0 \in 0 .. MaxAttempts
    BY <1>0, TurnsAssumption DEF PipelineSet, NoTurn, Opening
  <2> HIDE DEF b, c
  <2>3. p' \in PipelineSet
    BY <1>0, <2>1, <2>2 DEF PipelineSet
  <2> QED BY <1>0, <1>a, <2>1, <2>3, DroppedIs
<1>11. CASE OpeningStarts
  <2>1. /\ StartsAttempt(A, None, TRUE) /\ UNCHANGED Others
        /\ p' = [p EXCEPT !.turn = Opening, !.att = NextAttempt, !.state = "generating"]
    BY <1>11 DEF OpeningStarts
  <2>2. None \in Words /\ Opening \in Nat
    BY DEF Words, Opening
  <2>3. Answerable(A', finals) /\ NextAttempt \in 0 .. MaxAttempts
    BY <1>0, <2>1, <2>2, StartsIs
  <2>4. p' \in PipelineSet
    BY <1>0, <2>1, <2>2, <2>3 DEF PipelineSet
  <2> QED BY <1>a, <2>1, <2>3, <2>4
<1>12. CASE Announce
  <2>1. notices' = notices + 1 /\ p' = TtsStart(p) /\ UNCHANGED <<conf, A, cq, inp, rcv, stab, timer, resp, asked, finals>>
    BY <1>12 DEF Announce
  <2>2. notices' \in Nat
    BY <1>0, <2>1
  <2> QED BY <1>0, <1>b, <2>1, <2>2, HeardNext
<1>13. CASE HangUp
  BY <1>13, EndedKeeps DEF HangUp
<1> QED BY <1>1, <1>2, <1>3, <1>4, <1>5, <1>6, <1>7, <1>8, <1>9, <1>10, <1>11, <1>12, <1>13 DEF Generates

-----------------------------------------------------------------------------
(* The theorems                                                              *)

LEMMA HeardInit == Init => HeardInv
<1> SUFFICES ASSUME Init PROVE HeardInv
  OBVIOUS
<1>1. p \in PipelineSet
  BY TurnsAssumption DEF Init, New, PipelineSet, NoTurn, Words
<1>2. Answerable(A, finals)
  BY NoAttemptIs DEF Init, Answerable
<1> QED BY <1>1, <1>2, HeardIs, IdleIs DEF Init

\* The pipeline's fields and coroutines keep their types, and a text that is on
\* its way to be answered aloud (published by on_final, waiting out the reply
\* grace, or waiting for a cancellation to end) was retained as a final.
THEOREM HeardInvariance == Spec => []HeardInv
<1>1. HeardInv /\ [Next]_vars => HeardInv'
  <2> SUFFICES ASSUME HeardInv, [Next]_vars PROVE HeardInv'
    OBVIOUS
  <2>1. CASE UNCHANGED vars
    BY <2>1, HeardIs, HeardNext DEF vars
  <2>2. CASE Next
    BY <2>2, InputKeeps, FinalKeeps, SpeculationKeeps, GenerationKeeps DEF Next
  <2> QED BY <2>1, <2>2
<1> QED BY <1>1, HeardInit, PTL DEF Spec

\* Whatever is answered aloud was finally said: an attempt that is authorized
\* was generated for words on_final retained, or is the opening greeting.
THEOREM OnlyFinalHeardHolds == Spec => []OnlyFinalHeard
<1>1. HeardInv => OnlyFinalHeard
  BY DEF HeardInv
<1> QED BY <1>1, HeardInvariance, PTL

-----------------------------------------------------------------------------
(* The queue of _cancel_attempt                                              *)

\* Every entry of w is one of q's.
Within(w, q) == \A k \in 1 .. Len(w) : \E i \in 1 .. Len(q) : w[k] = q[i]

LEMMA EntryIs ==
  ASSUME NEW q, Queue(q), NEW k \in 1 .. Len(q)
  PROVE  /\ q[k] \in Entries /\ q[k].att \in Attempts /\ q[k].woken \in BOOLEAN
         /\ q[k].who \in {"inp", "rcv", "stab", "timer", "resp"}
<1>1. q \in Seq(Entries)
  BY DEF Queue
<1>2. q[k] \in Entries
  BY <1>1, ElementOfSeq
<1> QED BY <1>2 DEF Entries

LEMMA EmptyIs == ASSUME NEW q, Queue(q) PROVE Len(q) \in Nat /\ (q = <<>> <=> Len(q) = 0) /\ Queue(<<>>)
<1>1. q \in Seq(Entries) /\ <<>> \in Seq(Entries) /\ Len(<<>>) = 0
  BY DEF Queue
<1>2. Len(q) \in Nat /\ (q = <<>> <=> Len(q) = 0)
  BY <1>1, EmptySeq, LenProperties
<1>3. Queue(<<>>)
  BY <1>1 DEF Queue
<1> QED BY <1>2, <1>3

LEMMA WithinIs ==
  ASSUME NEW q, NEW w, Within(w, q), NEW i, NEW rc, NEW s, NEW t, NEW r, NEW P, NEW B
  PROVE  /\ Waiters(q, i, rc, s, t, r) => Waiters(w, i, rc, s, t, r)
         /\ Pending(q, P, B, i, rc, r) => Pending(w, P, B, i, rc, r)
BY DEF Within, Waiters, Pending

\* What is left of a queue once the entry at place k is gone.
LEMMA LeavesIs ==
  ASSUME NEW q, Queue(q), NEW k \in 1 .. Len(q)
  PROVE  /\ Queue(Leaves(q, k)) /\ Within(Leaves(q, k), q)
         /\ \A j \in 1 .. Len(Leaves(q, k)) : Leaves(q, k)[j].who # q[k].who
<1> DEFINE w == Leaves(q, k)
           at(j) == IF j < k THEN j ELSE j + 1
<1>1. Len(q) \in Nat /\ Len(q) # 0 /\ q \in Seq(Entries)
  BY EmptyIs DEF Queue
<1>2. Len(q) - 1 \in Nat
  BY <1>1
<1>3. \A j \in 1 .. Len(q) - 1 : at(j) \in 1 .. Len(q) /\ at(j) # k
  BY <1>1
<1>4. \A i, j \in 1 .. Len(q) - 1 : i < j => at(i) < at(j)
  BY <1>1
<1>5. w = [j \in 1 .. Len(q) - 1 |-> q[at(j)]]
  BY DEF Leaves
<1> HIDE DEF w, at
<1>6. \A j \in 1 .. Len(q) - 1 : w[j] = q[at(j)] /\ w[j] \in Entries
  BY <1>3, <1>5, EntryIs
<1>7. w \in Seq(Entries) /\ Len(w) = Len(q) - 1
  <2>1. w \in [1 .. Len(q) - 1 -> Entries]
    BY <1>5, <1>6
  <2>2. w \in Seq(Entries)
    BY <1>2, <2>1 DEF Seq
  <2>3. DOMAIN w = 1 .. Len(q) - 1 /\ DOMAIN w = 1 .. Len(w) /\ Len(w) \in Nat
    BY <2>1, <2>2, LenProperties
  <2> QED BY <1>2, <2>2, <2>3
<1>8. Queue(w)
  <2>1. ASSUME NEW i \in 1 .. Len(w), NEW j \in 1 .. Len(w), i < j
        PROVE  w[i].who \notin {w[j].who, "resp"} /\ w[i].att = w[j].att /\ w[i].woken = w[j].woken
    <3>1. i \in 1 .. Len(q) - 1 /\ j \in 1 .. Len(q) - 1
      BY <1>7
    <3>2. at(i) \in 1 .. Len(q) /\ at(j) \in 1 .. Len(q) /\ at(i) < at(j)
      BY <1>3, <1>4, <2>1, <3>1
    <3> QED BY <1>6, <3>1, <3>2, SMTT(30) DEF Queue
  <2> QED BY <1>7, <2>1 DEF Queue
<1>9. Within(w, q)
  BY <1>3, <1>6, <1>7 DEF Within
<1>10. \A j \in 1 .. Len(w) : w[j].who # q[k].who
  <2> SUFFICES ASSUME NEW j \in 1 .. Len(w) PROVE w[j].who # q[k].who
    OBVIOUS
  <2>1. w[j] = q[at(j)] /\ at(j) \in 1 .. Len(q) /\ at(j) # k
    BY <1>3, <1>6, <1>7
  <2>2. at(j) < k \/ k < at(j)
    BY <1>1, <2>1
  <2> QED BY <2>1, <2>2 DEF Queue
<1> QED BY <1>8, <1>9, <1>10 DEF w

LEMMA WithoutIs ==
  ASSUME NEW q, Queue(q), NEW who
  PROVE  /\ Queue(Without(q, who)) /\ Within(Without(q, who), q)
         /\ \A k \in 1 .. Len(Without(q, who)) : Without(q, who)[k].who # who
         /\ q = <<>> => Without(q, who) = <<>>
<1>1. CASE \E i \in 1 .. Len(q) : q[i].who = who
  <2>1. PlaceOf(q, who) \in 1 .. Len(q) /\ q[PlaceOf(q, who)].who = who
    BY <1>1 DEF PlaceOf
  <2>2. Without(q, who) = Leaves(q, PlaceOf(q, who))
    BY <1>1 DEF Without
  <2>3. q # <<>>
    BY <2>1, EmptyIs
  <2> QED BY <2>1, <2>2, <2>3, LeavesIs
<1>2. CASE ~\E i \in 1 .. Len(q) : q[i].who = who
  BY <1>2 DEF Without, Within
<1> QED BY <1>1, <1>2

\* The queue once its head has run: whoever is left was woken by the same end.
LEMMA RestIs ==
  ASSUME Queue(cq), cq # <<>>
  PROVE  /\ Queue(Rest) /\ (cq[1].who = "resp" => Rest = <<>>) /\ 1 \in 1 .. Len(cq)
         /\ \A k \in 1 .. Len(Rest) : Rest[k].woken /\ Rest[k].who # cq[1].who /\ \E i \in 1 .. Len(cq) : Rest[k].who = cq[i].who
<1> DEFINE n == Len(cq) - 1
           entry(k) == [cq[k + 1] EXCEPT !.woken = @ \/ cq[k + 1].att = cq[1].att]
<1>1. Len(cq) \in Nat /\ Len(cq) # 0 /\ 1 \in 1 .. Len(cq) /\ n \in Nat
  BY EmptyIs
<1>2. \A k \in 1 .. n : k + 1 \in 1 .. Len(cq) /\ 1 < k + 1
  BY <1>1
<1>3. ASSUME NEW k \in 1 .. n
      PROVE  entry(k) \in Entries /\ entry(k).woken /\ entry(k).who = cq[k + 1].who /\ entry(k).att = cq[k + 1].att
             /\ cq[k + 1].who # cq[1].who /\ cq[1].who # "resp"
  <2>1. cq[k + 1] \in Entries /\ cq[k + 1].woken \in BOOLEAN
    BY <1>2, EntryIs
  <2>2. cq[1].who \notin {cq[k + 1].who, "resp"} /\ cq[1].att = cq[k + 1].att
    BY <1>1, <1>2 DEF Queue
  <2> QED BY <2>1, <2>2 DEF Entries
<1>4. Rest = [k \in 1 .. n |-> entry(k)]
  BY DEF Rest
<1> HIDE DEF entry
<1>5. Rest \in Seq(Entries) /\ Len(Rest) = n
  <2>1. Rest \in [1 .. n -> Entries]
    BY <1>3, <1>4
  <2>2. Rest \in Seq(Entries)
    BY <1>1, <2>1 DEF Seq
  <2>3. DOMAIN Rest = 1 .. n /\ DOMAIN Rest = 1 .. Len(Rest) /\ Len(Rest) \in Nat
    BY <2>1, <2>2, LenProperties
  <2> QED BY <1>1, <2>2, <2>3
<1>6. \A k \in 1 .. n : Rest[k] = entry(k)
  BY <1>4
<1>7. ASSUME NEW i \in 1 .. n, NEW j \in 1 .. n, i < j
      PROVE  Rest[i].who \notin {Rest[j].who, "resp"} /\ Rest[i].att = Rest[j].att /\ Rest[i].woken = Rest[j].woken
  <2>1. i + 1 \in 1 .. Len(cq) /\ j + 1 \in 1 .. Len(cq) /\ i + 1 < j + 1
    BY <1>1, <1>2, <1>7
  <2>2. cq[i + 1].who \notin {cq[j + 1].who, "resp"} /\ cq[i + 1].att = cq[j + 1].att
    BY <2>1 DEF Queue
  <2>3. Rest[i].woken /\ Rest[j].woken /\ Rest[i].woken \in BOOLEAN /\ Rest[j].woken \in BOOLEAN
    BY <1>3, <1>6 DEF Entries
  <2> QED BY <1>3, <1>6, <2>2, <2>3
<1>8. Queue(Rest)
  BY <1>5, <1>7 DEF Queue
<1>9. cq[1].who = "resp" => Rest = <<>>
  <2>0. \A m \in Nat : m # 0 => 1 \in 1 .. m
    OBVIOUS
  <2>1. n # 0 => 1 \in 1 .. n
    BY <1>1, <2>0, Zenon
  <2>2. \A k \in 1 .. n : cq[1].who # "resp"
    BY <1>3
  <2>3. cq[1].who = "resp" => n = 0
    BY <2>1, <2>2
  <2> QED BY <1>5, <1>8, <2>3, EmptyIs
<1> QED BY <1>1, <1>2, <1>3, <1>5, <1>6, <1>8, <1>9

\* Another coroutine waits for the task the others wait for.
LEMMA AppendIs ==
  ASSUME NEW q, Queue(q), NEW e \in Entries,
         \A k \in 1 .. Len(q) : q[k].who \notin {e.who, "resp"} /\ q[k].att = e.att /\ q[k].woken = e.woken
  PROVE  /\ Queue(Append(q, e)) /\ Append(q, e) # <<>>
         /\ \A k \in 1 .. Len(Append(q, e)) : Append(q, e)[k] = e \/ \E i \in 1 .. Len(q) : Append(q, e)[k] = q[i]
<1>1. q \in Seq(Entries) /\ Len(q) \in Nat
  BY EmptyIs DEF Queue
<1>2. /\ Append(q, e) \in Seq(Entries) /\ Len(Append(q, e)) = Len(q) + 1 /\ Append(q, e)[Len(q) + 1] = e
      /\ \A k \in 1 .. Len(q) : Append(q, e)[k] = q[k]
  BY <1>1, AppendProperties
<1>3. \A k \in 1 .. Len(Append(q, e)) : k \in 1 .. Len(q) \/ k = Len(q) + 1
  BY <1>1, <1>2
<1>4. ASSUME NEW i \in 1 .. Len(Append(q, e)), NEW j \in 1 .. Len(Append(q, e)), i < j
      PROVE  Append(q, e)[i].who \notin {Append(q, e)[j].who, "resp"} /\ Append(q, e)[i].att = Append(q, e)[j].att
             /\ Append(q, e)[i].woken = Append(q, e)[j].woken
  <2>1. i \in 1 .. Len(q)
    BY <1>1, <1>2, <1>4
  <2>2. CASE j \in 1 .. Len(q)
    BY <1>2, <1>4, <2>1, <2>2 DEF Queue
  <2>3. CASE j = Len(q) + 1
    BY <1>2, <2>1, <2>3
  <2> QED BY <1>3, <2>2, <2>3
<1>5. Queue(Append(q, e))
  BY <1>2, <1>4 DEF Queue
<1>6. Append(q, e) # <<>>
  BY <1>1, <1>2, <1>5, EmptyIs
<1> QED BY <1>2, <1>3, <1>5, <1>6

-----------------------------------------------------------------------------
(* What the steps do to the fields NoOrphan depends on                       *)

\* The same attempt, turn and number; the state and the playback may differ.
SameTurn(Q, P) ==
  Q.att = P.att /\ Q.turn = P.turn /\ Q.number = P.number /\ Q.closed = P.closed /\ Q.candTurn = P.candTurn

\* The turn is over: its attempt is dropped, and with engagement it was not
\* running any more.
TurnEnds(Q, P, B) ==
  /\ Q.state = "idle" /\ Q.turn = NoTurn /\ Q.att = 0 /\ Q.number = P.number /\ Q.candTurn = P.candTurn
  /\ P.turn # NoTurn => Q.closed = P.closed \union {P.turn}
  /\ P.turn = NoTurn => Q.closed = P.closed
  /\ P.att = 0 \/ B[P.att].complete \/ B[P.att].cancelled \/ B[P.att].pc = "done"

LEMMA StartEffect ==
  ASSUME NEW q \in PipelineSet
  PROVE  SameTurn(TtsStart(q), q) /\ TtsStart(q).state \in {q.state, "playing"}
BY DEF TtsStart, PipelineSet, SameTurn

LEMMA StopEffect ==
  ASSUME conf.engaged, NEW q \in PipelineSet, NEW B
  PROVE  (SameTurn(TtsStop(q, B), q) /\ TtsStop(q, B).state = "releasing" /\ q.att # 0) \/ TurnEnds(TtsStop(q, B), q, B)
<1>1. CASE q.att # 0 /\ ~B[q.att].complete /\ ~B[q.att].cancelled
  <2>1. TtsStop(q, B) = [q EXCEPT !.state = "releasing"]
    BY <1>1 DEF TtsStop
  <2> QED BY <1>1, <2>1 DEF PipelineSet, SameTurn
<1>2. CASE ~(q.att # 0 /\ ~B[q.att].complete /\ ~B[q.att].cancelled)
  <2> DEFINE c == IF q.turn = NoTurn THEN q.closed ELSE q.closed \union {q.turn}
  <2>1. TtsStop(q, B) = [q EXCEPT !.closed = c, !.state = "idle", !.turn = NoTurn, !.att = 0]
    BY <1>2 DEF TtsStop, PipelineSet
  <2> HIDE DEF c
  <2>2. /\ TtsStop(q, B).state = "idle" /\ TtsStop(q, B).turn = NoTurn /\ TtsStop(q, B).att = 0 /\ TtsStop(q, B).closed = c
        /\ TtsStop(q, B).number = q.number /\ TtsStop(q, B).candTurn = q.candTurn
    BY <2>1 DEF PipelineSet
  <2> QED BY <1>2, <2>2 DEF TurnEnds, c
<1> QED BY <1>1, <1>2

LEMMA FinishEffect ==
  ASSUME conf.engaged, NEW q \in PipelineSet, NEW B, NEW cap
  PROVE  LET r == FinishPlayout(q, B, cap)
         IN \/ SameTurn(r, q) /\ r.state \in {q.state, "releasing"} /\ (r.state = q.state \/ q.att # 0)
            \/ q.att = cap /\ TurnEnds(r, q, B)
<1> DEFINE m == IF q.att = cap THEN TtsStop(q, B) ELSE q
           r == FinishPlayout(q, B, cap)
<1>1. m \in PipelineSet
  BY TtsIs
<1>2. r = [m EXCEPT !.playing = IF m.att = 0 THEN FALSE ELSE @]
  BY DEF FinishPlayout
<1>3. r.att = m.att /\ r.turn = m.turn /\ r.number = m.number /\ r.closed = m.closed /\ r.candTurn = m.candTurn /\ r.state = m.state
  <2> HIDE DEF m, r
  <2> QED BY <1>1, <1>2 DEF PipelineSet
<1>4. CASE q.att = cap
  <2>1. m = TtsStop(q, B)
    BY <1>4
  <2> HIDE DEF m, r
  <2>2. (SameTurn(m, q) /\ m.state = "releasing" /\ q.att # 0) \/ TurnEnds(m, q, B)
    BY <2>1, StopEffect
  <2>3. (SameTurn(r, q) /\ r.state = "releasing" /\ q.att # 0) \/ TurnEnds(r, q, B)
    BY <1>3, <2>2 DEF SameTurn, TurnEnds
  <2> QED BY <1>4, <2>3 DEF r
<1>5. CASE q.att # cap
  <2>1. m = q
    BY <1>5
  <2> HIDE DEF m, r
  <2>2. SameTurn(r, q) /\ r.state = q.state
    BY <1>3, <2>1 DEF SameTurn
  <2> QED BY <2>2 DEF r
<1> QED BY <1>4, <1>5

LEMMA CancelledEffect ==
  ASSUME conf.engaged, p \in PipelineSet
  PROVE  /\ Cancelled \in PipelineSet /\ Cancelled.att = 0 /\ Cancelled.number = p.number /\ Cancelled.candTurn = p.candTurn
         /\ Cancelled.turn \in {p.turn, NoTurn}
<1> DEFINE a == Head(cq).att
           m == IF A[a].auth THEN StopTts(p, A) ELSE p
           s == IF p.playing THEN TtsStop(p, A) ELSE p
<1>1. s \in PipelineSet /\ m \in PipelineSet
  BY TtsIs
<1>2. s.number = p.number /\ s.candTurn = p.candTurn /\ s.turn \in {p.turn, NoTurn}
  <2>1. CASE p.playing
    <3>1. s = TtsStop(p, A)
      BY <2>1
    <3> HIDE DEF s
    <3> QED BY <3>1, StopEffect DEF SameTurn, TurnEnds
  <2>2. CASE ~p.playing
    BY <2>2
  <2> QED BY <2>1, <2>2
<1>3. StopTts(p, A) = [s EXCEPT !.playing = FALSE]
  BY DEF StopTts
<1>4. Cancelled = [m EXCEPT !.att = 0]
  BY DEF Cancelled
<1> HIDE DEF s
<1>5. /\ StopTts(p, A).number = p.number /\ StopTts(p, A).candTurn = p.candTurn /\ StopTts(p, A).turn \in {p.turn, NoTurn}
  BY <1>1, <1>2, <1>3 DEF PipelineSet
<1>6. m.number = p.number /\ m.candTurn = p.candTurn /\ m.turn \in {p.turn, NoTurn}
  BY <1>5
<1> HIDE DEF m
<1>7. Cancelled.att = 0 /\ Cancelled.number = m.number /\ Cancelled.candTurn = m.candTurn /\ Cancelled.turn = m.turn
  BY <1>1, <1>4 DEF PipelineSet
<1> QED BY <1>6, <1>7, CancelledIs

LEMMA NewTurnEffect ==
  ASSUME NEW q \in PipelineSet, NEW t \in Nat, NEW old \in Nat, NEW text \in Words
  PROVE  LET r == NewTurn(q, t, old, text)
         IN r.att = q.att /\ r.number = q.number + 1 /\ r.turn = t /\ r.candTurn = NoTurn /\ r.state = "speaking"
<1> DEFINE m == ClearCandidate(q)
           c == (IF old = NoTurn THEN m.closed ELSE m.closed \union {old}) \ {t}
<1>1. m \in PipelineSet /\ m.att = q.att /\ m.number = q.number /\ m.candTurn = NoTurn
  BY TtsIs DEF ClearCandidate, PipelineSet
<1>2. NewTurn(q, t, old, text) =
        [m EXCEPT !.number = m.number + 1, !.turn = t, !.last = text, !.final = None, !.state = "speaking", !.closed = c]
  BY <1>1 DEF NewTurn, PipelineSet
<1> HIDE DEF m, c
<1> QED BY <1>1, <1>2 DEF PipelineSet

LEMMA TypedEffect ==
  ASSUME NEW q \in PipelineSet
  PROVE  LET r == TypedAccepted(q)
         IN r.att = q.att /\ r.number = q.number + 1 /\ r.turn = q.number + 1 /\ r.candTurn = NoTurn /\ r.state = "awaiting_final"
<1> DEFINE m == ClearCandidate(q)
<1>1. m \in PipelineSet /\ m.att = q.att /\ m.number = q.number /\ m.candTurn = NoTurn
  BY TtsIs DEF ClearCandidate, PipelineSet
<1>2. TypedAccepted(q) =
        [m EXCEPT !.number = m.number + 1, !.turn = q.number + 1, !.final = None, !.last = None, !.state = "awaiting_final"]
  BY <1>1 DEF TypedAccepted, PipelineSet
<1> HIDE DEF m
<1> QED BY <1>1, <1>2 DEF PipelineSet

-----------------------------------------------------------------------------
(* OrphanInv as a predicate of values, and the ways in which steps keep it   *)

Parts(q, P, B, i, rc, s, t, r) ==
  /\ Queue(q) /\ Waiters(q, i, rc, s, t, r) /\ Pending(q, P, B, i, rc, r)
  /\ Stored(q, P, B) /\ Greeting(q, P, B, i, rc, s, t, r)

LEMMA OrphanIs == OrphanInv <=> (conf.engaged => Parts(cq, p, A, inp, rcv, stab, timer, resp))
BY DEF OrphanInv, Parts

LEMMA OrphanNext ==
  ASSUME conf' = conf, conf.engaged => Parts(cq', p', A', inp', rcv', stab', timer', resp')
  PROVE  OrphanInv'
BY DEF OrphanInv, Parts

LEMMA TurnsApart == NoTurn \in Nat /\ NoTurn # Opening /\ Opening = 0
BY TurnsAssumption DEF NoTurn, Opening

LEMMA RunningIs ==
  ASSUME Queue(cq), Running
  PROVE  \A k \in 1 .. Len(cq) : ~cq[k].woken
<1> SUFFICES ASSUME NEW k \in 1 .. Len(cq) PROVE ~cq[k].woken
  OBVIOUS
<1>1. Len(cq) \in Nat /\ cq # <<>> /\ 1 \in 1 .. Len(cq)
  BY EmptyIs
<1>2. ~cq[1].woken
  <2>1. cq[1] = Head(cq)
    BY <1>1 DEF Head, Queue
  <2> QED BY <1>1, <2>1 DEF Running, Waking
<1>3. k = 1 \/ 1 < k
  BY <1>1
<1> QED BY <1>1, <1>2, <1>3 DEF Queue

\* The attempts change as a generation that goes on, or ends, changes its own.
Calmer(C, B) ==
  \A a \in Attempts :
    \/ C[a].pc = B[a].pc /\ C[a].auth = B[a].auth /\ C[a].complete = B[a].complete /\ C[a].cancelled = B[a].cancelled /\ C[a].cap = B[a].cap
    \/ C[a].pc = "done"
    \/ B[a].pc # "done" /\ C[a].pc \in {"transfer", "apology"}

LEMMA PlaybackKeeps ==
  ASSUME NEW q, NEW P, NEW B, NEW i, NEW rc, NEW s, NEW t, NEW r, Parts(q, P, B, i, rc, s, t, r),
         NEW C, Calmer(C, B), NEW Q, SameTurn(Q, P),
         Q.state \in {P.state, "playing"} \/ (Q.state = "releasing" /\ P.att # 0)
  PROVE  Parts(q, Q, C, i, rc, s, t, r)
<1>1. Queue(q) /\ Waiters(q, i, rc, s, t, r)
  BY DEF Parts
<1>2. \A k \in 1 .. Len(q) : q[k].att \in Attempts
  BY <1>1, EntryIs
<1>3. Pending(q, Q, C, i, rc, r)
  BY <1>2 DEF Parts, Pending, SameTurn, Calmer
<1>4. Stored(q, Q, C)
  BY DEF Parts, Stored, SameTurn, Calmer
<1>5. Greeting(q, Q, C, i, rc, s, t, r)
  BY DEF Parts, Greeting, SameTurn, Calmer
<1> QED BY <1>1, <1>3, <1>4, <1>5 DEF Parts

\* What is overruled while a cancelled task ends.
LEMMA EndingKeeps ==
  ASSUME NEW q, NEW P, NEW B, NEW i, NEW rc, NEW s, NEW t, NEW r, Parts(q, P, B, i, rc, s, t, r),
         NEW C, Calmer(C, B), NEW Q, TurnEnds(Q, P, B),
         \A k \in 1 .. Len(q) : ~q[k].woken => i.pc \in InCancel /\ rc.pc # "publish" /\ r.pc = "ready"
  PROVE  Parts(q, Q, C, i, rc, s, t, r)
<1>1. Queue(q) /\ Waiters(q, i, rc, s, t, r)
  BY DEF Parts
<1>2. \A k \in 1 .. Len(q) : q[k].att \in Attempts
  BY <1>1, EntryIs
<1>3. Pending(q, Q, C, i, rc, r)
  BY <1>2 DEF Parts, Pending, TurnEnds, Calmer
<1>4. Stored(q, Q, C)
  BY TurnsAssumption DEF Parts, Stored, TurnEnds, Calmer, Attempts
<1>5. Greeting(q, Q, C, i, rc, s, t, r)
  BY TurnsApart DEF Parts, Greeting, TurnEnds, Calmer
<1> QED BY <1>1, <1>3, <1>4, <1>5 DEF Parts

\* The answering task moves on, outside _cancel_attempt.
LEMMA AnswerMoves ==
  ASSUME NEW q, NEW P, NEW B, NEW i, NEW rc, NEW s, NEW t, NEW r, Parts(q, P, B, i, rc, s, t, r),
         r.pc \notin {"ready", "replace"}, NEW r2, r2.pc # "replace"
  PROVE  Parts(q, P, B, i, rc, s, t, r2)
<1>1. Queue(q) /\ Stored(q, P, B)
  BY DEF Parts
<1>2. Waiters(q, i, rc, s, t, r2)
  BY DEF Parts, Waiters
<1>3. Pending(q, P, B, i, rc, r2)
  BY DEF Parts, Pending
<1>4. Greeting(q, P, B, i, rc, s, t, r2)
  BY DEF Parts, Greeting
<1> QED BY <1>1, <1>2, <1>3, <1>4 DEF Parts

\* A new attempt, when none is stored and nothing is being cancelled.
LEMMA StartEffectIs ==
  ASSUME NEW B \in [Attempts -> AttemptSet], NEW text \in Words, NEW auth \in BOOLEAN, StartsAttempt(B, text, auth)
  PROVE  /\ NextAttempt \in Fresh /\ NextAttempt \in Attempts /\ NextAttempt # 0
         /\ A'[NextAttempt].pc = "stream" /\ A'[NextAttempt].auth = auth
         /\ ~A'[NextAttempt].complete /\ ~A'[NextAttempt].cancelled
         /\ \A a \in Attempts : a # NextAttempt => A'[a] = B[a]
<1>1. NextAttempt \in Fresh /\ NextAttempt \in Attempts /\ A' = [B EXCEPT ![NextAttempt] = Attempt(text, auth, "stream")]
  BY NextIs DEF StartsAttempt
<1>2. Attempt(text, auth, "stream").pc = "stream" /\ Attempt(text, auth, "stream").auth = auth
      /\ ~Attempt(text, auth, "stream").complete /\ ~Attempt(text, auth, "stream").cancelled
  BY DEF Attempt
<1>3. NextAttempt # 0
  BY <1>1, TurnsAssumption DEF Attempts
<1> HIDE DEF NextAttempt
<1> QED BY <1>1, <1>2, <1>3

LEMMA StartKeeps ==
  ASSUME NEW text \in Words, NEW auth \in BOOLEAN, A \in [Attempts -> AttemptSet], StartsAttempt(A, text, auth),
         p.att = 0, Stored(<<>>, p, A), NEW Q, Q.att = NextAttempt
  PROVE  Stored(<<>>, Q, A')
<1>1. /\ NextAttempt \in Attempts /\ A'[NextAttempt].pc = "stream"
      /\ ~A'[NextAttempt].complete /\ ~A'[NextAttempt].cancelled
      /\ \A a \in Attempts : a # NextAttempt => A'[a] = A[a]
  BY StartEffectIs
<1>2. \A a \in Attempts : a # 0
  BY TurnsAssumption DEF Attempts
<1> HIDE DEF NextAttempt
<1> QED BY <1>1, <1>2 DEF Stored

\* The head of the queue is who runs next.
LEMMA HeadIs ==
  ASSUME Queue(cq), NEW who, CancelEnds(who)
  PROVE  cq # <<>> /\ Len(cq) # 0 /\ 1 \in 1 .. Len(cq) /\ cq[1] = Head(cq) /\ cq[1].who = who
<1>1. cq # <<>> /\ Head(cq).who = who
  BY DEF CancelEnds
<1>2. Len(cq) \in Nat /\ Len(cq) # 0
  BY <1>1, EmptyIs
<1>3. cq[1] = Head(cq)
  BY <1>1, <1>2 DEF Head, Queue
<1> QED BY <1>1, <1>2, <1>3

\* _cancel_attempt up to its wait: the caller of it joins the queue.
LEMMA CancelKeeps ==
  ASSUME HeardInv, Parts(cq, p, A, inp, rcv, stab, timer, resp), Running, conf.engaged,
         NEW who \in {"inp", "rcv", "stab", "timer", "resp"}, CancelBegins(who), \A k \in 1 .. Len(cq) : cq[k].who # who,
         NEW Q, SameTurn(Q, p), Q.state = p.state, NEW i, NEW rc, NEW s, NEW t,
         IF who = "inp" THEN i.pc \in InCancel /\ i.turn # Opening ELSE i = inp /\ p.number # 0,
         IF who = "rcv" THEN rc.pc = "revise" ELSE rc = rcv,
         IF who = "stab" THEN s.pc = "replace" ELSE s = stab,
         IF who = "timer" THEN t.pc = "cancel" /\ rcv.pc # "publish" ELSE t = timer
  PROVE  Parts(cq', Q, A', i, rc, s, t, resp')
<1> DEFINE q == IF who # "resp" THEN Without(cq, "resp") ELSE cq
           e == [who |-> who, att |-> p.att, woken |-> FALSE]
<1>1. p.att # 0 /\ p.att \in Attempts /\ e \in Entries /\ e.who = who /\ e.att = p.att /\ ~e.woken
  <2>1. p \in PipelineSet
    BY HeardIs
  <2>2. p.att # 0 /\ p.att \in Attempts
    BY <2>1, StoredIs DEF CancelBegins
  <2> QED BY <2>2 DEF Entries
<1>2. Queue(cq) /\ cq' = Append(q, e)
  BY DEF CancelBegins, Parts
<1>3. /\ resp' = IF who = "resp" THEN [resp EXCEPT !.pc = "replace"] ELSE Idle
      /\ (who = "resp" => resp'.pc = "replace") /\ (who # "resp" => resp'.pc = "ready")
  <2>1. resp \in CoroutineSet({"grace", "window", "answer", "replace", "release", "drain"})
    BY HeardIs DEF Responds
  <2>2. [resp EXCEPT !.pc = "replace"].pc = "replace"
    BY <2>1 DEF CoroutineSet
  <2>3. Idle.pc = "ready"
    BY DEF Idle
  <2> QED BY <2>2, <2>3 DEF CancelBegins
<1>4. /\ A'[p.att].pc = "done"
      /\ \A a \in Attempts : a # p.att => A'[a] = A[a]
  <2>1. A \in [Attempts -> AttemptSet]
    BY HeardIs DEF Answerable
  <2>2. A[p.att] \in AttemptSet
    BY <1>1, <2>1
  <2> DEFINE w == [A[p.att] EXCEPT !.cancelled = TRUE, !.pc = "done", !.held = 0]
  <2>3. w.pc = "done"
    BY <2>2 DEF AttemptSet
  <2>4. A' = [A EXCEPT ![p.att] = w]
    BY <1>1, <2>1, <2>2 DEF CancelBegins, AttemptSet
  <2> HIDE DEF w
  <2> QED BY <1>1, <2>1, <2>3, <2>4
<1>5. /\ Queue(q) /\ Within(q, cq)
      /\ \A k \in 1 .. Len(q) : q[k].who # "resp"
  <2>1. CASE who # "resp"
    BY <1>2, <2>1, WithoutIs
  <2>2. CASE who = "resp"
    BY <1>2, <2>2 DEF Within
  <2> QED BY <2>1, <2>2
<1> HIDE DEF q, e
<1>6. \A k \in 1 .. Len(cq) : ~cq[k].woken /\ cq[k].att = p.att
  BY <1>1, <1>2, RunningIs DEF Parts, Pending
<1>7. \A k \in 1 .. Len(q) : \E j \in 1 .. Len(cq) : q[k] = cq[j]
  BY <1>5 DEF Within
<1>8. \A k \in 1 .. Len(q) : q[k].who \notin {e.who, "resp"} /\ q[k].att = e.att /\ q[k].woken = e.woken
  <2>1. \A k \in 1 .. Len(q) : q[k].woken \in BOOLEAN /\ e.woken \in BOOLEAN
    BY <1>1, <1>5, EntryIs DEF Entries
  <2> QED BY <1>1, <1>5, <1>6, <1>7, <2>1
<1>9. /\ Queue(cq') /\ cq' # <<>>
      /\ \A k \in 1 .. Len(cq') : cq'[k] = e \/ \E j \in 1 .. Len(q) : cq'[k] = q[j]
  BY <1>1, <1>2, <1>5, <1>8, AppendIs
<1>10. \A k \in 1 .. Len(cq') :
         /\ cq'[k].att = p.att
         /\ cq'[k].who = who \/ (cq'[k].who # "resp" /\ \E j \in 1 .. Len(cq) : cq'[k].who = cq[j].who)
  BY <1>1, <1>5, <1>7, <1>8, <1>9, SMTT(30)
<1>11. Waiters(cq', i, rc, s, t, resp')
  <2>1. ASSUME NEW k \in 1 .. Len(cq')
        PROVE  /\ cq'[k].who = "inp" => i.pc \in InCancel
               /\ cq'[k].who = "rcv" => rc.pc = "revise"
               /\ cq'[k].who = "stab" => s.pc = "replace"
               /\ cq'[k].who = "timer" => t.pc = "cancel"
               /\ cq'[k].who = "resp" => resp'.pc = "replace"
    <3>1. CASE cq'[k].who = who
      BY <1>3, <3>1
    <3>2. CASE cq'[k].who # who
      <4>1. cq'[k].who # "resp" /\ \E j \in 1 .. Len(cq) : cq'[k].who = cq[j].who
        BY <1>10, <3>2
      <4>2. /\ cq'[k].who = "inp" => inp.pc \in InCancel
            /\ cq'[k].who = "rcv" => rcv.pc = "revise"
            /\ cq'[k].who = "stab" => stab.pc = "replace"
            /\ cq'[k].who = "timer" => timer.pc = "cancel"
        BY <4>1 DEF Parts, Waiters
      <4> QED BY <3>2, <4>1, <4>2
    <3> QED BY <3>1, <3>2
  <2>2. rc.pc = "publish" => t.pc # "cancel"
    BY DEF Parts, Waiters
  <2> QED BY <2>1, <2>2 DEF Waiters
<1>12. Pending(cq', Q, A', i, rc, resp')
  <2>1. Q.att = p.att /\ Q.att # 0 /\ resp'.pc \in {"ready", "replace"}
    BY <1>1, <1>3 DEF SameTurn
  <2> QED BY <1>4, <1>10, <2>1 DEF Pending
<1>13. Stored(cq', Q, A')
  BY <1>1, <1>4 DEF Parts, Stored
<1>14. Greeting(cq', Q, A', i, rc, s, t, resp')
  <2>1. CASE who = "inp"
    BY <1>1, <1>3, <2>1 DEF Parts, Greeting, SameTurn, InCancel
  <2>2. CASE who # "inp"
    BY <2>2 DEF Parts, Greeting, SameTurn
  <2> QED BY <2>1, <2>2
<1> QED BY <1>9, <1>11, <1>12, <1>13, <1>14 DEF Parts

\* The queue the head leaves, and what it may then store.
LEMMA HeadKeeps ==
  ASSUME HeardInv, Parts(cq, p, A, inp, rcv, stab, timer, resp), cq # <<>>,
         NEW w, Queue(w), \A k \in 1 .. Len(w) : w[k].woken,
         NEW i, NEW rc, NEW s, NEW t, NEW r, Waiters(w, i, rc, s, t, r),
         NEW P, P.number # 0, P.turn # Opening, P.candTurn # Opening, i.turn # Opening,
         NEW B, \A a \in Attempts :
                  \/ B[a] = Dropped[a]
                  \/ B[a].pc = "stream" /\ ~B[a].complete /\ ~B[a].cancelled /\ (B[a].auth => P.att = a /\ w = <<>>)
  PROVE  Parts(w, P, B, i, rc, s, t, r)
<1>1. Pending(w, P, B, i, rc, r)
  BY DEF Pending
<1>2. \A a \in Attempts : Dropped[a] = A[a] \/ Dropped[a] = NoAttempt
  BY HeardIs DEF Dropped, Answerable
<1>3. NoAttempt.pc = "done"
  BY DEF NoAttempt, Attempt
<1>4. Stored(w, P, B)
  BY <1>2, <1>3 DEF Parts, Stored
<1>5. Greeting(w, P, B, i, rc, s, t, r)
  BY DEF Greeting
<1> QED BY <1>1, <1>4, <1>5 DEF Parts

\* Who the head leaves behind waits where it waited.
LEMMA RestWaits ==
  ASSUME Queue(cq), cq # <<>>, Waiters(cq, inp, rcv, stab, timer, resp)
  PROVE  \A k \in 1 .. Len(Rest) :
           /\ Rest[k].who # cq[1].who
           /\ Rest[k].who = "inp" => inp.pc \in InCancel
           /\ Rest[k].who = "rcv" => rcv.pc = "revise"
           /\ Rest[k].who = "stab" => stab.pc = "replace"
           /\ Rest[k].who = "timer" => timer.pc = "cancel"
           /\ Rest[k].who = "resp" => resp.pc = "replace"
BY RestIs DEF Waiters

\* Fields NoOrphan does not depend on, and the candidate.
LEMMA FieldsKeep ==
  ASSUME NEW q, NEW P, NEW B, NEW i, NEW rc, NEW s, NEW t, NEW r, Parts(q, P, B, i, rc, s, t, r),
         NEW Q, Q.att = P.att, Q.turn = P.turn, Q.number = P.number, Q.closed = P.closed, Q.state = P.state, Q.candTurn # Opening
  PROVE  Parts(q, Q, B, i, rc, s, t, r)
<1>1. Queue(q) /\ Waiters(q, i, rc, s, t, r) /\ Pending(q, Q, B, i, rc, r)
  BY DEF Parts, Pending
<1>2. Stored(q, Q, B) /\ Greeting(q, Q, B, i, rc, s, t, r)
  BY DEF Parts, Stored, Greeting
<1> QED BY <1>1, <1>2 DEF Parts

LEMMA WithinTwice ==
  ASSUME NEW q, NEW u, NEW w, Within(w, u), Within(u, q)
  PROVE  Within(w, q)
BY DEF Within

LEMMA WithinNone ==
  ASSUME NEW w, Queue(w), Within(w, <<>>)
  PROVE  w = <<>>
<1>1. Len(<<>>) = 0 /\ Len(w) \in Nat /\ (w = <<>> <=> Len(w) = 0)
  BY EmptyIs
<1>2. \A k \in 1 .. Len(w) : FALSE
  BY <1>1 DEF Within
<1>3. Len(w) # 0 => 1 \in 1 .. Len(w)
  BY <1>1
<1> QED BY <1>1, <1>2, <1>3

\* Coroutines leave the queue as they are cancelled.
LEMMA FewerWait ==
  ASSUME NEW q, NEW i, NEW rc, NEW s, NEW t, NEW r, Waiters(q, i, rc, s, t, r), NEW w, Within(w, q),
         NEW i2, NEW rc2, NEW s2, NEW t2, NEW r2,
         i2 = i \/ i2.pc \in InCancel \/ \A k \in 1 .. Len(w) : w[k].who # "inp",
         rc2 = rc \/ \A k \in 1 .. Len(w) : w[k].who # "rcv",
         s2 = s \/ \A k \in 1 .. Len(w) : w[k].who # "stab",
         t2 = t \/ \A k \in 1 .. Len(w) : w[k].who # "timer",
         r2 = r \/ \A k \in 1 .. Len(w) : w[k].who # "resp",
         rc2.pc = "publish" => t2.pc # "cancel"
  PROVE  Waiters(w, i2, rc2, s2, t2, r2)
<1> SUFFICES ASSUME NEW k \in 1 .. Len(w)
             PROVE  /\ w[k].who = "inp" => i2.pc \in InCancel
                    /\ w[k].who = "rcv" => rc2.pc = "revise"
                    /\ w[k].who = "stab" => s2.pc = "replace"
                    /\ w[k].who = "timer" => t2.pc = "cancel"
                    /\ w[k].who = "resp" => r2.pc = "replace"
  BY DEF Waiters
<1>1. PICK j \in 1 .. Len(q) : w[k] = q[j]
  BY DEF Within
<1>2. /\ w[k].who = "inp" => i.pc \in InCancel
      /\ w[k].who = "rcv" => rc.pc = "revise"
      /\ w[k].who = "stab" => s.pc = "replace"
      /\ w[k].who = "timer" => t.pc = "cancel"
      /\ w[k].who = "resp" => r.pc = "replace"
  BY <1>1 DEF Waiters
<1> QED BY <1>2

\* The generations that can be heard do not depend on who waits any more.
LEMMA FewerStored ==
  ASSUME NEW q, NEW w, Queue(w), Within(w, q), NEW P, NEW B, Stored(q, P, B), NEW Q, Q.att = P.att
  PROVE  Stored(w, Q, B)
<1>1. q = <<>> => w = <<>>
  BY WithinNone
<1> QED BY <1>1 DEF Stored

\* text() after its cancellation, with engagement.
LEMMA TypedOwned ==
  ASSUME conf.engaged, NEW q \in PipelineSet, NEW B, NEW text \in Texts, NEW queue, Queue(queue), NEW r,
         TypedFinal(q, B, text, queue, r)
  PROVE  /\ p'.att = q.att /\ p'.number = q.number + 1 /\ p'.turn = q.number + 1 /\ p'.candTurn = NoTurn
         /\ A' = B /\ stab' = Idle /\ timer' = Idle
         /\ Queue(cq') /\ Within(cq', queue)
         /\ \A k \in 1 .. Len(cq') : cq'[k].who \notin {"stab", "timer"}
         /\ resp' = r \/ \A k \in 1 .. Len(cq') : cq'[k].who # "resp"
<1> DEFINE t == TypedAccepted(q)
           ok == Accepts(t, text)
           u == Without(queue, "stab")
           v == Without(u, "timer")
           w == Without(v, "resp")
<1>1. /\ t \in PipelineSet
      /\ t.att = q.att /\ t.number = q.number + 1 /\ t.turn = q.number + 1 /\ t.candTurn = NoTurn
  BY TypedIs, TypedEffect
<1>2. /\ stab' = Idle /\ timer' = Idle /\ A' = B
      /\ cq' = IF ok THEN w ELSE v
      /\ IF ok THEN p' = [t EXCEPT !.final = text, !.state = "releasing"] ELSE p' = t /\ resp' = r
  BY DEF TypedFinal
<1>3. Queue(u) /\ Within(u, queue) /\ (\A k \in 1 .. Len(u) : u[k].who # "stab")
  BY WithoutIs
<1> HIDE DEF t, u
<1>4. Queue(v) /\ Within(v, u) /\ (\A k \in 1 .. Len(v) : v[k].who # "timer")
  BY <1>3, WithoutIs
<1> HIDE DEF v
<1>5. Queue(w) /\ Within(w, v) /\ (\A k \in 1 .. Len(w) : w[k].who # "resp")
  BY <1>4, WithoutIs
<1> HIDE DEF w
<1>6. Within(v, queue) /\ Within(w, queue)
  BY <1>3, <1>4, <1>5, WithinTwice
<1>7. /\ \A k \in 1 .. Len(v) : v[k].who \notin {"stab", "timer"}
      /\ \A k \in 1 .. Len(w) : w[k].who \notin {"stab", "timer"}
  <2>1. ASSUME NEW k \in 1 .. Len(v) PROVE v[k].who \notin {"stab", "timer"}
    <3>1. PICK j \in 1 .. Len(u) : v[k] = u[j]
      BY <1>4 DEF Within
    <3> QED BY <1>3, <1>4, <3>1
  <2>2. ASSUME NEW k \in 1 .. Len(w) PROVE w[k].who \notin {"stab", "timer"}
    <3>1. PICK j \in 1 .. Len(v) : w[k] = v[j]
      BY <1>5 DEF Within
    <3> QED BY <2>1, <3>1
  <2> QED BY <2>1, <2>2
<1>8. p'.att = q.att /\ p'.number = q.number + 1 /\ p'.turn = q.number + 1 /\ p'.candTurn = NoTurn
  BY <1>1, <1>2 DEF PipelineSet
<1> QED BY <1>2, <1>4, <1>5, <1>6, <1>7, <1>8

-----------------------------------------------------------------------------
(* The caller's input keeps every reply reachable                            *)

LEMMA InputOwned ==
  ASSUME HeardInv, conf.engaged, Parts(cq, p, A, inp, rcv, stab, timer, resp),
         \/ CandidateStarts \/ CandidateCancelled \/ SpeechIgnored \/ SpeechStarts \/ BargeIn \/ SpeechEnds \/ Committed
         \/ (\E text \in conf.typed : Types(text)) \/ TypedSubmitted
  PROVE  Parts(cq', p', A', inp', rcv', stab', timer', resp')
<1>0. /\ conf \in Confs /\ p \in PipelineSet /\ Answerable(A, finals) /\ Inputs(inp)
      /\ Queue(cq) /\ Waiters(cq, inp, rcv, stab, timer, resp) /\ Pending(cq, p, A, inp, rcv, resp)
      /\ Stored(cq, p, A) /\ Greeting(cq, p, A, inp, rcv, stab, timer, resp)
  BY HeardIs DEF Parts
<1>a. /\ p.turn \in Nat /\ p.number \in Nat /\ p.number + 1 \in Nat /\ p.number + 1 # 0 /\ p.candTurn \in Nat /\ p.buf \in Words
      /\ NoTurn \in Nat /\ NoTurn # Opening /\ p.candTurn # Opening /\ inp.turn # Opening /\ Opening = 0
  BY <1>0, TurnsApart DEF PipelineSet, Greeting
<1>b. inp.text \in Words /\ inp.turn \in Nat /\ inp.old \in Nat
  BY <1>0 DEF Inputs, CoroutineSet
<1>c. Cancelled \in PipelineSet /\ Cancelled.att = 0 /\ Cancelled.number = p.number
  BY <1>0, CancelledEffect
<1>d. Running => \A k \in 1 .. Len(cq) : ~cq[k].woken
  BY <1>0, RunningIs
<1>e. Idle.pc = "ready" /\ Idle.turn = NoTurn
  BY DEF Idle
<1>f. rcv.pc = "publish" => timer.pc # "cancel"
  BY <1>0 DEF Waiters
<1>1. CASE CandidateStarts
  <2>1. p' = [p EXCEPT !.cand = TRUE, !.candTurn = p.number + 1] /\ UNCHANGED <<A, cq, inp, rcv, stab, timer, resp>>
    BY <1>1 DEF CandidateStarts
  <2>2. p'.att = p.att /\ p'.turn = p.turn /\ p'.number = p.number /\ p'.closed = p.closed /\ p'.state = p.state /\ p'.candTurn = p.number + 1
    BY <1>0, <2>1 DEF PipelineSet
  <2> QED BY <1>a, <2>1, <2>2, FieldsKeep
<1>2. CASE CandidateCancelled \/ SpeechIgnored
  <2>1. p' = ClearCandidate(p) /\ UNCHANGED <<A, cq, inp, rcv, stab, timer, resp>>
    BY <1>2 DEF CandidateCancelled, SpeechIgnored
  <2>2. p'.att = p.att /\ p'.turn = p.turn /\ p'.number = p.number /\ p'.closed = p.closed /\ p'.state = p.state /\ p'.candTurn = NoTurn
    BY <1>0, <2>1 DEF PipelineSet, ClearCandidate
  <2> QED BY <1>a, <2>1, <2>2, FieldsKeep
<1>3. CASE SpeechStarts
  <2>1. UNCHANGED <<conf, rcv, timer>> /\ inp.pc = "ready" /\ Running
    BY <1>3 DEF SpeechStarts, Hears
  <2>2. CASE p.state = "idle" \/ p.att = 0
    <3> DEFINE old == IF p.state = "idle" THEN NoTurn ELSE p.turn
               u == IF p.state = "idle" THEN cq ELSE Unanswered
               w == Rescheduled(u, p.buf)
    <3>1. /\ p' = NewTurn(p, p.candTurn, old, p.buf) /\ UNCHANGED <<A, inp>>
          /\ resp' = (IF p.state # "idle" THEN Idle ELSE resp) /\ stab' = Buffered(p.buf) /\ cq' = w
      BY <1>3, <2>2 DEF SpeechStarts
    <3>2. old \in Nat
      BY <1>a
    <3> HIDE DEF old
    <3>3. p'.att = p.att /\ p'.number # 0 /\ p'.turn = p.candTurn /\ p'.candTurn = NoTurn /\ p'.state = "speaking"
      BY <1>0, <1>a, <3>1, <3>2, NewTurnEffect
    <3>4. Queue(u) /\ Within(u, cq) /\ (p.state # "idle" => \A k \in 1 .. Len(u) : u[k].who # "resp")
      <4>1. Within(cq, cq)
        BY DEF Within
      <4> QED BY <1>0, <4>1, WithoutIs DEF Unanswered
    <3> HIDE DEF u
    <3>5. Queue(w) /\ Within(w, u) /\ (p.buf # None => \A k \in 1 .. Len(w) : w[k].who # "stab")
      <4>1. Within(u, u)
        BY DEF Within
      <4> QED BY <3>4, <4>1, WithoutIs DEF Rescheduled
    <3> HIDE DEF w
    <3>6. Within(w, cq) /\ (p.state # "idle" => \A k \in 1 .. Len(w) : w[k].who # "resp")
      BY <3>4, <3>5, WithinTwice DEF Within
    <3>7. stab' = stab \/ \A k \in 1 .. Len(w) : w[k].who # "stab"
      BY <3>1, <3>5 DEF Buffered
    <3>8. resp' = resp \/ \A k \in 1 .. Len(w) : w[k].who # "resp"
      BY <3>1, <3>6
    <3>9. Waiters(w, inp, rcv, stab', timer, resp')
      BY <1>0, <1>f, <3>6, <3>7, <3>8, FewerWait
    <3>10. \A k \in 1 .. Len(cq) :
             A[cq[k].att].pc = "done" /\ p.att = cq[k].att /\ p.att # 0 /\ resp.pc \in {"ready", "replace"}
      BY <1>0, <1>d, <2>1 DEF Pending, InCancel
    <3>11. Pending(w, p', A, inp, rcv, resp')
      <4>1. \A k \in 1 .. Len(w) : \E j \in 1 .. Len(cq) : w[k] = cq[j]
        BY <3>6 DEF Within
      <4>2. resp'.pc = "ready" \/ resp' = resp
        BY <1>e, <3>1
      <4>3. \A k \in 1 .. Len(w) :
              A[w[k].att].pc = "done" /\ p'.att = w[k].att /\ p'.att # 0 /\ resp'.pc \in {"ready", "replace"}
        BY <3>3, <3>10, <4>1, <4>2
      <4> QED BY <4>3 DEF Pending
    <3>12. Stored(w, p', A)
      BY <1>0, <3>3, <3>5, <3>6, FewerStored
    <3>13. Greeting(w, p', A, inp, rcv, stab', timer, resp')
      BY <1>a, <3>3 DEF Greeting
    <3> QED BY <2>1, <3>1, <3>5, <3>9, <3>11, <3>12, <3>13 DEF Parts
  <2>3. CASE ~(p.state = "idle" \/ p.att = 0)
    <3>1. /\ CancelBegins("inp") /\ UNCHANGED <<p, stab>>
          /\ inp' = [pc |-> "barge", text |-> p.buf, turn |-> p.candTurn, old |-> p.turn]
      BY <1>3, <2>3 DEF SpeechStarts
    <3>2. inp'.pc \in InCancel /\ inp'.turn # Opening
      BY <1>a, <3>1 DEF InCancel
    <3>3. \A k \in 1 .. Len(cq) : cq[k].who # "inp"
      BY <1>0, <2>1 DEF Waiters, InCancel
    <3>4. SameTurn(p', p) /\ p'.state = p.state
      BY <3>1 DEF SameTurn
    <3> QED BY <2>1, <3>1, <3>2, <3>3, <3>4, CancelKeeps
  <2> QED BY <2>2, <2>3
<1>4. CASE BargeIn
  <2>1. /\ p' = NewTurn(Cancelled, inp.turn, inp.old, inp.text) /\ stab' = Buffered(inp.text) /\ inp' = Idle /\ A' = Dropped
        /\ cq' = Rescheduled(Rest, inp.text) /\ inp.pc = "barge" /\ CancelEnds("inp")
        /\ UNCHANGED <<conf, rcv, timer, resp, asked, finals, notices>>
    BY <1>4 DEF BargeIn
  <2>2. cq # <<>> /\ cq[1].who = "inp"
    BY <1>0, <2>1, HeadIs
  <2>3. p'.number # 0 /\ p'.turn # Opening /\ p'.candTurn # Opening
    BY <1>a, <1>b, <1>c, <2>1, NewTurnEffect
  <2>4. Queue(Rest) /\ (\A k \in 1 .. Len(Rest) : Rest[k].woken /\ Rest[k].who # "inp")
    BY <1>0, <2>2, RestIs
  <2>5. /\ Queue(cq') /\ Within(cq', Rest)
        /\ stab' = stab \/ \A k \in 1 .. Len(cq') : cq'[k].who # "stab"
    <3>1. Within(Rest, Rest)
      BY DEF Within
    <3> QED BY <2>1, <2>4, <3>1, WithoutIs DEF Rescheduled, Buffered
  <2>6. \A k \in 1 .. Len(cq') : cq'[k].woken /\ cq'[k].who # "inp"
    BY <2>4, <2>5 DEF Within
  <2>7. Waiters(Rest, inp, rcv, stab, timer, resp)
    BY <1>0, <2>2, RestWaits DEF Waiters
  <2>8. Waiters(cq', inp', rcv', stab', timer', resp')
    BY <1>0, <1>f, <2>1, <2>5, <2>6, <2>7, FewerWait
  <2> QED BY <1>a, <1>e, <2>1, <2>2, <2>3, <2>5, <2>6, <2>8, HeadKeeps
<1>5. CASE SpeechEnds
  <2>1. /\ p' = [p EXCEPT !.state = "awaiting_final"] /\ inp' = [Idle EXCEPT !.pc = "commit"] /\ inp.pc = "ready" /\ Running
        /\ p.state \in {"speaking", "speculating"}
        /\ UNCHANGED <<conf, A, cq, rcv, stab, timer, resp, finals, notices>>
    BY <1>5 DEF SpeechEnds, Hears
  <2>2. /\ p'.att = p.att /\ p'.turn = p.turn /\ p'.number = p.number /\ p'.candTurn = p.candTurn
        /\ inp'.pc = "commit" /\ inp'.turn = NoTurn
    BY <1>0, <2>1 DEF PipelineSet, Idle
  <2>3. Waiters(cq, inp', rcv, stab, timer, resp)
    BY <1>0, <2>1 DEF Waiters, InCancel
  <2>4. Pending(cq, p', A, inp', rcv, resp)
    BY <1>0, <2>1, <2>2 DEF Pending, InCancel
  <2>5. Stored(cq, p', A)
    BY <1>0, <2>2 DEF Stored
  <2>6. Greeting(cq, p', A, inp', rcv, stab, timer, resp)
    BY <1>0, <1>a, <2>1, <2>2 DEF Greeting
  <2> QED BY <1>0, <2>1, <2>3, <2>4, <2>5, <2>6 DEF Parts
<1>6. CASE Committed
  <2>1. /\ timer' = [Idle EXCEPT !.pc = "armed", !.turn = p.turn] /\ inp' = Idle /\ inp.pc = "commit" /\ Running
        /\ cq' = Without(cq, "timer") /\ UNCHANGED <<conf, p, A, rcv, stab, resp, asked, finals, notices>>
    BY <1>6 DEF Committed
  <2>2. timer'.pc = "armed"
    BY <2>1 DEF Idle
  <2>3. Queue(cq') /\ Within(cq', cq) /\ (\A k \in 1 .. Len(cq') : cq'[k].who # "timer")
    BY <1>0, <2>1, WithoutIs
  <2>4. \A k \in 1 .. Len(cq') : cq'[k].who # "inp"
    BY <1>0, <2>1, <2>3 DEF Waiters, Within, InCancel
  <2>5. Waiters(cq', inp', rcv, stab, timer', resp)
    BY <1>0, <2>2, <2>3, <2>4, FewerWait
  <2>6. Pending(cq, p, A, inp', rcv, resp)
    BY <1>0, <2>1 DEF Pending, InCancel
  <2>7. Pending(cq', p, A, inp', rcv, resp)
    BY <2>3, <2>6, WithinIs
  <2>8. Stored(cq', p, A)
    BY <1>0, <2>3, FewerStored
  <2>9. Greeting(cq', p, A, inp', rcv, stab, timer', resp)
    BY <1>0, <1>a, <1>e, <2>1 DEF Greeting
  <2> QED BY <2>1, <2>3, <2>5, <2>7, <2>8, <2>9 DEF Parts
<1>7. ASSUME NEW text \in conf.typed, Types(text) PROVE Parts(cq', p', A', inp', rcv', stab', timer', resp')
  <2>1. text \in Texts
    BY <1>0, TurnsAssumption
  <2>2. UNCHANGED <<conf, rcv, asked, notices>> /\ inp.pc = "ready" /\ Running
    BY <1>7 DEF Types, Hears
  <2>3. CASE p.att = 0
    <3>1. TypedFinal(p, A, text, Unanswered, Idle) /\ UNCHANGED inp
      BY <1>7, <2>3 DEF Types
    <3>2. \A k \in 1 .. Len(cq) : FALSE
      BY <1>0, <1>d, <2>2, <2>3 DEF Pending, InCancel
    <3>3. cq = <<>>
      <4>1. Len(cq) \in Nat /\ (cq = <<>> <=> Len(cq) = 0)
        BY <1>0, EmptyIs
      <4>2. Len(cq) # 0 => 1 \in 1 .. Len(cq)
        BY <4>1
      <4> QED BY <3>2, <4>1, <4>2
    <3>4. Queue(Unanswered) /\ Unanswered = cq
      BY <1>0, <3>3, WithoutIs DEF Unanswered
    <3>5. /\ p'.att = p.att /\ p'.number = p.number + 1 /\ p'.turn = p.number + 1 /\ p'.candTurn = NoTurn
          /\ A' = A /\ stab' = Idle /\ timer' = Idle /\ Queue(cq') /\ Within(cq', cq)
      BY <1>0, <2>1, <3>1, <3>4, TypedOwned
    <3>6. cq' = <<>>
      BY <3>3, <3>5, WithinNone
    <3>7. \A k \in 1 .. Len(cq') : FALSE
      BY <3>2, <3>5 DEF Within
    <3>8. Waiters(cq', inp, rcv, stab', timer', resp')
      BY <1>e, <3>5, <3>7 DEF Waiters
    <3>9. Pending(cq', p', A', inp, rcv, resp')
      BY <3>7 DEF Pending
    <3>10. Stored(cq', p', A')
      BY <1>0, <3>3, <3>5, <3>6 DEF Stored
    <3>11. Greeting(cq', p', A', inp, rcv, stab', timer', resp')
      BY <1>a, <3>5 DEF Greeting
    <3> QED BY <2>2, <3>1, <3>5, <3>8, <3>9, <3>10, <3>11 DEF Parts
  <2>4. CASE p.att # 0
    <3>1. CancelBegins("inp") /\ inp' = [Idle EXCEPT !.pc = "text", !.text = text] /\ UNCHANGED <<p, stab, timer, finals>>
      BY <1>7, <2>4 DEF Types
    <3>2. inp'.pc \in InCancel /\ inp'.turn # Opening
      BY <1>a, <3>1 DEF InCancel, Idle
    <3>3. \A k \in 1 .. Len(cq) : cq[k].who # "inp"
      BY <1>0, <2>2 DEF Waiters, InCancel
    <3>4. SameTurn(p', p) /\ p'.state = p.state
      BY <3>1 DEF SameTurn
    <3> QED BY <2>2, <3>1, <3>2, <3>3, <3>4, CancelKeeps
  <2> QED BY <2>3, <2>4
<1>8. CASE TypedSubmitted
  <2>1. /\ inp.pc = "text" /\ CancelEnds("inp") /\ TypedFinal(Cancelled, Dropped, inp.text, Rest, resp) /\ inp' = Idle
        /\ UNCHANGED <<conf, rcv, asked, notices>>
    BY <1>8 DEF TypedSubmitted
  <2>2. inp.text \in Texts
    BY <1>0, <1>b, <2>1 DEF Inputs, Words
  <2>3. cq # <<>> /\ cq[1].who = "inp"
    BY <1>0, <2>1, HeadIs
  <2>4. Queue(Rest) /\ (\A k \in 1 .. Len(Rest) : Rest[k].woken /\ Rest[k].who # "inp")
    BY <1>0, <2>3, RestIs
  <2>5. /\ p'.number = p.number + 1 /\ p'.turn = p.number + 1 /\ p'.candTurn = NoTurn
        /\ A' = Dropped /\ stab' = Idle /\ timer' = Idle /\ Queue(cq') /\ Within(cq', Rest)
        /\ \A k \in 1 .. Len(cq') : cq'[k].who \notin {"stab", "timer"}
        /\ resp' = resp \/ \A k \in 1 .. Len(cq') : cq'[k].who # "resp"
    BY <1>c, <2>1, <2>2, <2>4, TypedOwned
  <2>6. \A k \in 1 .. Len(cq') : cq'[k].woken /\ cq'[k].who # "inp"
    BY <2>4, <2>5 DEF Within
  <2>7. Waiters(Rest, inp, rcv, stab, timer, resp)
    BY <1>0, <2>3, RestWaits DEF Waiters
  <2>8. Waiters(cq', inp', rcv', stab', timer', resp')
    BY <1>e, <2>1, <2>5, <2>6, <2>7, FewerWait
  <2>9. p'.number # 0 /\ p'.turn # Opening /\ p'.candTurn # Opening /\ inp'.turn # Opening
    BY <1>a, <1>e, <2>1, <2>5
  <2> QED BY <2>3, <2>5, <2>6, <2>8, <2>9, HeadKeeps
<1> QED BY <1>1, <1>2, <1>3, <1>4, <1>5, <1>6, <1>7, <1>8

-----------------------------------------------------------------------------
(* The final and its answer keep every reply reachable                       *)

LEMMA NobodyIs ==
  ASSUME NEW q, Queue(q), \A k \in 1 .. Len(q) : FALSE
  PROVE  q = <<>>
<1>1. Len(q) \in Nat /\ (q = <<>> <=> Len(q) = 0)
  BY EmptyIs
<1>2. Len(q) # 0 => 1 \in 1 .. Len(q)
  BY <1>1
<1> QED BY <1>1, <1>2

\* A drained playback, for the answering task or for a generation.
LEMMA FinishKeeps ==
  ASSUME conf.engaged, p \in PipelineSet, Parts(cq, p, A, inp, rcv, stab, timer, resp),
         NEW C, Calmer(C, A), NEW cap, NEW Q, NEW r, Parts(cq, p, A, inp, rcv, stab, timer, r),
         LET f == FinishPlayout(p, A, cap)
         IN Q.att = f.att /\ Q.turn = f.turn /\ Q.number = f.number /\ Q.closed = f.closed /\ Q.candTurn = f.candTurn /\ Q.state = f.state,
         p.att = cap => \A k \in 1 .. Len(cq) : ~cq[k].woken => inp.pc \in InCancel /\ rcv.pc # "publish" /\ r.pc = "ready"
  PROVE  Parts(cq, Q, C, inp, rcv, stab, timer, r)
<1> DEFINE f == FinishPlayout(p, A, cap)
<1>1. \/ SameTurn(f, p) /\ f.state \in {p.state, "releasing"} /\ (f.state = p.state \/ p.att # 0)
      \/ p.att = cap /\ TurnEnds(f, p, A)
  BY FinishEffect
<1>2. Q.att = f.att /\ Q.turn = f.turn /\ Q.number = f.number /\ Q.closed = f.closed /\ Q.candTurn = f.candTurn /\ Q.state = f.state
  OBVIOUS
<1> HIDE DEF f
<1>3. CASE SameTurn(f, p) /\ f.state \in {p.state, "releasing"} /\ (f.state = p.state \/ p.att # 0)
  <2>1. SameTurn(Q, p) /\ (Q.state \in {p.state, "playing"} \/ (Q.state = "releasing" /\ p.att # 0))
    BY <1>2, <1>3 DEF SameTurn
  <2> QED BY <2>1, PlaybackKeeps
<1>4. CASE p.att = cap /\ TurnEnds(f, p, A)
  <2>1. TurnEnds(Q, p, A)
    BY <1>2, <1>4 DEF TurnEnds
  <2> QED BY <1>4, <2>1, EndingKeeps
<1> QED BY <1>1, <1>3, <1>4

LEMMA SameIsCalmer == \A B : Calmer(B, B)
BY DEF Calmer

LEMMA FinalOwned ==
  ASSUME HeardInv, conf.engaged, Parts(cq, p, A, inp, rcv, stab, timer, resp),
         \/ (\E t \in asked : FinalLost(t)) \/ (\E t \in asked : \E text \in Finals : FinalArrives(t, text))
         \/ FinalPublished \/ FreshAnswer \/ Answers
  PROVE  Parts(cq', p', A', inp', rcv', stab', timer', resp')
<1>0. /\ conf \in Confs /\ p \in PipelineSet /\ Answerable(A, finals) /\ Responds(resp, finals) /\ Receiving(rcv, finals)
      /\ Queue(cq) /\ Waiters(cq, inp, rcv, stab, timer, resp) /\ Pending(cq, p, A, inp, rcv, resp)
      /\ Stored(cq, p, A) /\ Greeting(cq, p, A, inp, rcv, stab, timer, resp)
  BY HeardIs DEF Parts
<1>a. /\ resp \in CoroutineSet({"grace", "window", "answer", "replace", "release", "drain"})
      /\ resp.text \in Words /\ A \in [Attempts -> AttemptSet] /\ (resp.pc = "release" => resp.old \in Attempts)
  BY <1>0 DEF Responds, CoroutineSet, Answerable
<1>b. /\ NoTurn # Opening /\ p.candTurn # Opening /\ inp.turn # Opening /\ Opening = 0
      /\ (p.turn = Opening => p.number = 0) /\ (resp.pc # "ready" => p.number # 0) /\ (rcv.pc # "ready" => p.number # 0)
  BY <1>0, TurnsApart DEF Greeting
<1>c. Cancelled \in PipelineSet /\ Cancelled.att = 0 /\ Cancelled.number = p.number /\ Cancelled.candTurn = p.candTurn
      /\ Cancelled.turn \in {p.turn, NoTurn}
  BY <1>0, CancelledEffect
<1>d. Running => \A k \in 1 .. Len(cq) : ~cq[k].woken
  BY <1>0, RunningIs
<1>e. Idle.pc = "ready" /\ Idle.turn = NoTurn
  BY DEF Idle
<1>f. rcv.pc = "publish" => timer.pc # "cancel"
  BY <1>0 DEF Waiters
<1>1. ASSUME NEW t \in asked, FinalLost(t) PROVE Parts(cq', p', A', inp', rcv', stab', timer', resp')
  BY <1>1 DEF FinalLost
<1>2. ASSUME NEW t \in asked, NEW text \in Finals, FinalArrives(t, text)
      PROVE  Parts(cq', p', A', inp', rcv', stab', timer', resp')
  <2>1. UNCHANGED <<conf, A, inp, stab, resp, notices>> /\ rcv.pc = "ready" /\ Running
    BY <1>2 DEF FinalArrives, RcvFree
  <2>2. CASE Accepts(p, text)
    <3>1. /\ p' = [p EXCEPT !.final = text] /\ timer' = Idle /\ cq' = Without(cq, "timer")
          /\ rcv' = [Idle EXCEPT !.pc = "publish", !.text = text] /\ p.state = "awaiting_final"
      BY <1>2, <2>2 DEF FinalArrives, Accepts
    <3>2. /\ p'.att = p.att /\ p'.turn = p.turn /\ p'.number = p.number /\ p'.closed = p.closed /\ p'.state = p.state
          /\ p'.candTurn = p.candTurn /\ rcv'.pc = "publish"
      BY <1>0, <3>1 DEF PipelineSet, Idle
    <3>3. Queue(cq') /\ Within(cq', cq) /\ (\A k \in 1 .. Len(cq') : cq'[k].who # "timer")
      BY <1>0, <3>1, WithoutIs
    <3>4. \A k \in 1 .. Len(cq) : cq[k].who # "rcv"
      BY <1>0, <2>1 DEF Waiters
    <3>5. \A k \in 1 .. Len(cq') : cq'[k].who # "rcv"
      BY <3>3, <3>4 DEF Within
    <3>6. Waiters(cq', inp, rcv', stab, timer', resp)
      BY <1>0, <1>e, <3>1, <3>3, <3>5, FewerWait
    <3>7. Pending(cq, p', A, inp, rcv', resp)
      BY <1>0, <1>d, <2>1, <3>1, <3>2 DEF Pending
    <3>8. Pending(cq', p', A, inp, rcv', resp)
      BY <3>3, <3>7, WithinIs
    <3>9. Stored(cq', p', A)
      BY <1>0, <3>2, <3>3, FewerStored
    <3>10. Greeting(cq', p', A, inp, rcv', stab, timer', resp)
      BY <1>0, <1>b, <3>1, <3>2 DEF Greeting
    <3> QED BY <2>1, <3>3, <3>6, <3>8, <3>9, <3>10 DEF Parts
  <2>3. CASE ~Accepts(p, text)
    BY <1>2, <2>1, <2>3 DEF FinalArrives
  <2> QED BY <2>2, <2>3
<1>3. CASE FinalPublished
  <2> DEFINE u == Without(cq, "stab")
             w == Without(u, "resp")
  <2>1. /\ rcv.pc = "publish" /\ Running /\ rcv' = Idle /\ stab' = Idle /\ resp' = Answering(p, rcv.text)
        /\ p' = [p EXCEPT !.state = "releasing"] /\ cq' = w /\ UNCHANGED <<conf, A, inp, timer, asked, finals, notices>>
    BY <1>3 DEF FinalPublished
  <2>2. resp'.pc \in {"grace", "answer"}
    BY <2>1 DEF Answering
  <2>3. p'.att = p.att /\ p'.turn = p.turn /\ p'.number = p.number /\ p'.state = "releasing" /\ p'.candTurn = p.candTurn
    BY <1>0, <2>1 DEF PipelineSet
  <2>4. Queue(u) /\ Within(u, cq) /\ (\A k \in 1 .. Len(u) : u[k].who # "stab")
    BY <1>0, WithoutIs
  <2> HIDE DEF u
  <2>5. Queue(w) /\ Within(w, u) /\ (\A k \in 1 .. Len(w) : w[k].who # "resp")
    BY <2>4, WithoutIs
  <2> HIDE DEF w
  <2>6. Within(w, cq) /\ (\A k \in 1 .. Len(w) : w[k].who # "stab")
    <3>1. Within(w, cq)
      BY <2>4, <2>5, WithinTwice
    <3>2. \A k \in 1 .. Len(w) : \E j \in 1 .. Len(u) : w[k] = u[j]
      BY <2>5 DEF Within
    <3> QED BY <2>4, <3>1, <3>2
  <2>7. \A k \in 1 .. Len(cq) : cq[k].who \notin {"rcv", "timer"} /\ (cq[k].who = "inp" => inp.pc \in InCancel)
    BY <1>0, <1>f, <2>1 DEF Waiters
  <2>8. \A k \in 1 .. Len(w) : \E j \in 1 .. Len(cq) : w[k] = cq[j]
    BY <2>6 DEF Within
  <2>9. \A k \in 1 .. Len(w) : w[k].who \in {"inp", "rcv", "stab", "timer", "resp"}
    BY <2>5, EntryIs
  <2>10. \A k \in 1 .. Len(w) : w[k].who \notin {"rcv", "timer", "stab", "resp"} /\ inp.pc \in InCancel
    BY <2>5, <2>6, <2>7, <2>8, <2>9
  <2>11. Waiters(w, inp, rcv', stab', timer, resp')
    BY <1>0, <1>e, <2>1, <2>6, <2>10, FewerWait
  <2>12. \A k \in 1 .. Len(cq) : A[cq[k].att].pc = "done" /\ p.att = cq[k].att /\ p.att # 0
    BY <1>0, <1>d, <2>1 DEF Pending
  <2>13. Pending(w, p', A, inp, rcv', resp')
    <3>1. \A k \in 1 .. Len(w) : A[w[k].att].pc = "done" /\ p'.att = w[k].att /\ p'.att # 0
      BY <2>3, <2>8, <2>12
    <3> QED BY <1>e, <2>1, <2>3, <2>10, <3>1 DEF Pending
  <2>14. Stored(w, p', A)
    BY <1>0, <2>3, <2>5, <2>6, FewerStored
  <2>15. Greeting(w, p', A, inp, rcv', stab', timer, resp')
    BY <1>b, <2>1, <2>3 DEF Greeting
  <2> QED BY <2>1, <2>5, <2>11, <2>13, <2>14, <2>15 DEF Parts
<1>4. CASE GraceElapses
  <2>1. /\ resp.pc \in {"grace", "window"}
        /\ resp' \in {Idle, [resp EXCEPT !.pc = "window"]}
        /\ UNCHANGED <<conf, p, A, cq, inp, rcv, stab, timer, asked, finals, notices>>
    BY <1>4 DEF GraceElapses
  <2>2. resp'.pc # "replace"
    BY <1>a, <1>e, <2>1 DEF CoroutineSet
  <2> QED BY <2>1, <2>2, AnswerMoves
<1>5. CASE Authorize
  <2>1. /\ resp.pc \in {"grace", "window", "answer"} /\ p.att # 0 /\ Running
        /\ A' = [A EXCEPT ![p.att].auth = TRUE] /\ p' = [p EXCEPT !.state = "releasing"]
        /\ resp' = [resp EXCEPT !.pc = "release", !.old = p.att]
        /\ UNCHANGED <<conf, cq, inp, rcv, stab, timer, asked, finals, notices>>
    BY <1>5 DEF Authorize, GraceOver
  <2>2. p.att \in Attempts
    BY <1>0, <2>1, StoredIs
  <2>3. A[p.att] \in AttemptSet
    BY <1>a, <2>2
  <2> DEFINE x == [A[p.att] EXCEPT !.auth = TRUE]
  <2>4. x.pc = A[p.att].pc /\ x.complete = A[p.att].complete /\ x.cancelled = A[p.att].cancelled /\ x.cap = A[p.att].cap
    BY <2>3 DEF AttemptSet
  <2>5. A' = [A EXCEPT ![p.att] = x]
    BY <1>a, <2>1, <2>2
  <2> HIDE DEF x
  <2>6. /\ \A a \in Attempts : A'[a].pc = A[a].pc /\ A'[a].complete = A[a].complete /\ A'[a].cancelled = A[a].cancelled
                               /\ A'[a].cap = A[a].cap
        /\ \A a \in Attempts : a # p.att => A'[a] = A[a]
    BY <1>a, <2>2, <2>4, <2>5
  <2>7. /\ p'.att = p.att /\ p'.turn = p.turn /\ p'.number = p.number /\ p'.state = "releasing" /\ p'.candTurn = p.candTurn
        /\ resp'.pc = "release"
    BY <1>0, <1>a, <2>1 DEF PipelineSet, CoroutineSet
  <2>8. Waiters(cq, inp, rcv, stab, timer, resp')
    BY <1>0, <2>1 DEF Waiters
  <2>9. \A k \in 1 .. Len(cq) : cq[k].att \in Attempts
    BY <1>0, EntryIs
  <2>10. Pending(cq, p', A', inp, rcv, resp')
    BY <1>0, <1>d, <2>1, <2>6, <2>7, <2>9 DEF Pending
  <2>11. A[p.att].pc = "stream" => cq = <<>>
    <3>1. A[p.att].pc = "stream" => \A k \in 1 .. Len(cq) : FALSE
      BY <1>0, <1>d, <2>1 DEF Pending
    <3> QED BY <1>0, <3>1, NobodyIs
  <2>12. Stored(cq, p', A')
    BY <1>0, <2>6, <2>7, <2>11 DEF Stored
  <2>13. Greeting(cq, p', A', inp, rcv, stab, timer, resp')
    BY <1>b, <2>1, <2>7 DEF Greeting
  <2> QED BY <1>0, <2>1, <2>8, <2>10, <2>12, <2>13 DEF Parts
<1>6. CASE Discard
  <2>1. resp.pc \in {"grace", "window", "answer"} /\ Running /\ CancelBegins("resp") /\ UNCHANGED <<conf, p, inp, rcv, stab, timer, asked, finals, notices>>
    BY <1>6 DEF Discard, GraceOver
  <2>2. \A k \in 1 .. Len(cq) : cq[k].who # "resp"
    BY <1>0, <2>1 DEF Waiters
  <2>3. SameTurn(p', p) /\ p'.state = p.state /\ p.number # 0
    BY <1>b, <2>1 DEF SameTurn
  <2> QED BY <2>1, <2>2, <2>3, CancelKeeps
<1>7. CASE Answer
  <2>1. /\ resp.pc \in {"grace", "window", "answer"} /\ Running /\ p.att = 0
        /\ StartsAttempt(A, resp.text, TRUE) /\ p' = [p EXCEPT !.att = NextAttempt, !.state = "releasing"]
        /\ resp' = Idle /\ UNCHANGED <<conf, cq, inp, rcv, stab, timer, asked, finals, notices>>
    BY <1>7 DEF Answer, GraceOver
  <2>2. p'.att = NextAttempt /\ p'.turn = p.turn /\ p'.number = p.number /\ p'.candTurn = p.candTurn
    BY <1>0, <2>1 DEF PipelineSet
  <2>3. \A k \in 1 .. Len(cq) : FALSE
    BY <1>0, <1>d, <2>1 DEF Pending
  <2>4. cq = <<>>
    BY <1>0, <2>3, NobodyIs
  <2>5. Stored(<<>>, p, A)
    BY <1>0, <2>4
  <2>6. Stored(<<>>, p', A')
    BY <1>a, <2>1, <2>2, <2>5, StartKeeps
  <2>7. Waiters(cq, inp, rcv, stab, timer, resp') /\ Pending(cq, p', A', inp, rcv, resp')
    BY <1>f, <2>3 DEF Waiters, Pending
  <2>8. Greeting(cq, p', A', inp, rcv, stab, timer, resp')
    BY <1>b, <2>1, <2>2 DEF Greeting
  <2> QED BY <1>0, <2>1, <2>4, <2>6, <2>7, <2>8 DEF Parts
<1>8. CASE FreshAnswer
  <2>1. /\ resp.pc = "replace" /\ CancelEnds("resp") /\ StartsAttempt(Dropped, resp.text, TRUE)
        /\ p' = [Cancelled EXCEPT !.att = NextAttempt, !.state = "releasing"] /\ cq' = Rest
        /\ resp' = Idle /\ UNCHANGED <<conf, inp, rcv, stab, timer, asked, finals, notices>>
    BY <1>8 DEF FreshAnswer
  <2>2. cq # <<>> /\ cq[1].who = "resp"
    BY <1>0, <2>1, HeadIs
  <2>3. Queue(Rest) /\ Rest = <<>>
    BY <1>0, <2>2, RestIs
  <2>4. p'.att = NextAttempt /\ p'.turn = Cancelled.turn /\ p'.number = Cancelled.number /\ p'.candTurn = Cancelled.candTurn
    BY <1>c, <2>1 DEF PipelineSet
  <2>5. Dropped \in [Attempts -> AttemptSet]
    BY <1>0, AfterCancel DEF Answerable
  <2>6. /\ NextAttempt \in Attempts /\ A'[NextAttempt].pc = "stream"
        /\ ~A'[NextAttempt].complete /\ ~A'[NextAttempt].cancelled
        /\ \A a \in Attempts : a # NextAttempt => A'[a] = Dropped[a]
    BY <1>a, <2>1, <2>5, StartEffectIs
  <2>7. Waiters(Rest, inp, rcv, stab, timer, resp')
    <3>1. \A k \in 1 .. Len(Rest) : FALSE
      BY <2>3, EmptyIs
    <3> QED BY <1>f, <3>1 DEF Waiters
  <2>8. p'.number # 0 /\ p'.turn # Opening /\ p'.candTurn # Opening /\ inp.turn # Opening
    BY <1>b, <1>c, <2>1, <2>4
  <2>9. \A k \in 1 .. Len(Rest) : Rest[k].woken
    BY <2>3, EmptyIs
  <2>10. \A a \in Attempts :
           \/ A'[a] = Dropped[a]
           \/ A'[a].pc = "stream" /\ ~A'[a].complete /\ ~A'[a].cancelled /\ (A'[a].auth => p'.att = a /\ Rest = <<>>)
    BY <2>3, <2>4, <2>6
  <2> QED BY <2>1, <2>2, <2>3, <2>7, <2>8, <2>9, <2>10, HeadKeeps
<1>9. CASE ReleaseChunk
  <2>1. /\ resp.pc = "release" /\ A' = [A EXCEPT ![resp.old].held = @ - 1] /\ p' \in {p, TtsStart(p)}
        /\ UNCHANGED <<conf, cq, inp, rcv, stab, timer, resp, asked, finals, notices>>
    BY <1>9 DEF ReleaseChunk
  <2> DEFINE x == [A[resp.old] EXCEPT !.held = A[resp.old].held - 1]
  <2>2. A[resp.old] \in AttemptSet
    BY <1>a, <2>1
  <2>3. /\ x.pc = A[resp.old].pc /\ x.auth = A[resp.old].auth /\ x.complete = A[resp.old].complete
        /\ x.cancelled = A[resp.old].cancelled /\ x.cap = A[resp.old].cap
    BY <2>2 DEF AttemptSet
  <2>4. A' = [A EXCEPT ![resp.old] = x]
    BY <1>a, <2>1
  <2> HIDE DEF x
  <2>5. Calmer(A', A)
    BY <1>a, <2>1, <2>3, <2>4 DEF Calmer
  <2>6. SameTurn(p', p) /\ p'.state \in {p.state, "playing"}
    BY <1>0, <2>1, StartEffect DEF SameTurn
  <2> QED BY <2>1, <2>5, <2>6, PlaybackKeeps
<1>10. CASE Released
  <2>1. /\ resp.pc = "release" /\ resp' \in {Idle, [resp EXCEPT !.pc = "drain", !.old = p.att]}
        /\ UNCHANGED <<conf, p, A, cq, inp, rcv, stab, timer, asked, finals, notices>>
    BY <1>10 DEF Released
  <2>2. resp'.pc # "replace"
    BY <1>a, <1>e, <2>1 DEF CoroutineSet
  <2> QED BY <2>1, <2>2, AnswerMoves
<1>11. CASE ReleaseDrained
  <2>1. /\ resp.pc = "drain" /\ p' = FinishPlayout(p, A, resp.old) /\ (A' = A \/ A' = [A EXCEPT ![p.att] = NoAttempt]) /\ resp' = Idle
        /\ UNCHANGED <<conf, cq, inp, rcv, stab, timer, asked, finals, notices>>
    BY <1>11 DEF ReleaseDrained
  <2>2. Parts(cq, p, A, inp, rcv, stab, timer, Idle)
    BY <1>e, <2>1, AnswerMoves
  <2>3. Calmer(A', A)
    <3>1. NoAttempt.pc = "done"
      BY DEF NoAttempt, Attempt
    <3> QED BY <1>a, <2>1, <3>1 DEF Calmer
  <2>4. \A k \in 1 .. Len(cq) : ~cq[k].woken => inp.pc \in InCancel /\ rcv.pc # "publish"
    BY <1>0, <2>1 DEF Pending
  <2> QED BY <1>0, <1>e, <2>1, <2>2, <2>3, <2>4, FinishKeeps
<1> QED BY <1>1, <1>2, <1>3, <1>4, <1>5, <1>6, <1>7, <1>8, <1>9, <1>10, <1>11 DEF Answers

-----------------------------------------------------------------------------
(* Partials, speculation and the timeout keep every reply reachable          *)

LEMMA SpeculationOwned ==
  ASSUME HeardInv, conf.engaged, Parts(cq, p, A, inp, rcv, stab, timer, resp),
         \/ (\E text \in conf.heard : Partial(text)) \/ Revised \/ StableStale \/ Speculate \/ Respeculate
         \/ TimeoutStale \/ Timeout \/ TimeoutCancelled \/ Recovered
  PROVE  Parts(cq', p', A', inp', rcv', stab', timer', resp')
<1>0. /\ conf \in Confs /\ p \in PipelineSet /\ Answerable(A, finals) /\ Stabilizes(stab) /\ Times(timer)
      /\ Queue(cq) /\ Waiters(cq, inp, rcv, stab, timer, resp) /\ Pending(cq, p, A, inp, rcv, resp)
      /\ Stored(cq, p, A) /\ Greeting(cq, p, A, inp, rcv, stab, timer, resp)
  BY HeardIs DEF Parts
<1>a. /\ stab \in CoroutineSet({"armed", "replace"}) /\ timer \in CoroutineSet({"armed", "cancel", "recover"})
      /\ stab.text \in Words /\ A \in [Attempts -> AttemptSet]
  BY <1>0 DEF Stabilizes, Times, CoroutineSet, Answerable
<1>b. /\ NoTurn # Opening /\ p.candTurn # Opening /\ inp.turn # Opening /\ Opening = 0
      /\ (p.turn = Opening => p.number = 0) /\ (rcv.pc # "ready" => p.number # 0) /\ (stab.pc # "ready" => p.number # 0)
      /\ (timer.pc # "ready" => p.number # 0) /\ (p.state \in {"speaking", "speculating"} => p.number # 0)
  BY <1>0, TurnsApart DEF Greeting
<1>c. Cancelled \in PipelineSet /\ Cancelled.att = 0 /\ Cancelled.number = p.number /\ Cancelled.candTurn = p.candTurn
      /\ Cancelled.turn \in {p.turn, NoTurn}
  BY <1>0, CancelledEffect
<1>d. Running => \A k \in 1 .. Len(cq) : ~cq[k].woken
  BY <1>0, RunningIs
<1>e. Idle.pc = "ready" /\ Idle.turn = NoTurn
  BY DEF Idle
<1>f. rcv.pc = "publish" => timer.pc # "cancel"
  BY <1>0 DEF Waiters
<1>g. ASSUME NEW who, CancelEnds(who)
      PROVE  /\ cq # <<>> /\ Queue(Rest) /\ (\A k \in 1 .. Len(Rest) : Rest[k].woken /\ Rest[k].who # who)
             /\ Waiters(Rest, inp, rcv, stab, timer, resp)
  <2>1. cq # <<>> /\ cq[1].who = who
    BY <1>0, <1>g, HeadIs
  <2>2. Queue(Rest) /\ (\A k \in 1 .. Len(Rest) : Rest[k].woken /\ Rest[k].who # who)
    BY <1>0, <2>1, RestIs
  <2>3. Waiters(Rest, inp, rcv, stab, timer, resp)
    BY <1>0, <2>1, RestWaits DEF Waiters
  <2> QED BY <2>1, <2>2, <2>3
<1>h. \A w : Within(w, w)
  BY DEF Within
<1>1. ASSUME NEW text \in conf.heard, Partial(text) PROVE Parts(cq', p', A', inp', rcv', stab', timer', resp')
  <2>1. UNCHANGED <<conf, inp, timer, asked, finals, notices>> /\ rcv.pc = "ready" /\ Running
    BY <1>1 DEF Partial, RcvFree
  <2>2. CASE p' = [p EXCEPT !.buf = text] /\ UNCHANGED <<A, cq, rcv, stab, resp>>
    <3>1. p'.att = p.att /\ p'.turn = p.turn /\ p'.number = p.number /\ p'.closed = p.closed /\ p'.state = p.state /\ p'.candTurn = p.candTurn
      BY <1>0, <2>2 DEF PipelineSet
    <3> QED BY <1>b, <2>1, <2>2, <3>1, FieldsKeep
  <2>3. CASE /\ p.state \in {"speaking", "speculating"} /\ p' = [p EXCEPT !.last = text] /\ CancelBegins("rcv")
             /\ rcv' = [Idle EXCEPT !.pc = "revise", !.text = text] /\ UNCHANGED stab
    <3>1. p'.att = p.att /\ p'.turn = p.turn /\ p'.number = p.number /\ p'.closed = p.closed /\ p'.state = p.state /\ p'.candTurn = p.candTurn
      BY <1>0, <2>3 DEF PipelineSet
    <3>2. SameTurn(p', p) /\ rcv'.pc = "revise" /\ p.number # 0
      BY <1>b, <2>3, <3>1 DEF SameTurn, Idle
    <3>3. \A k \in 1 .. Len(cq) : cq[k].who # "rcv"
      BY <1>0, <2>1 DEF Waiters
    <3> QED BY <2>1, <2>3, <3>1, <3>2, <3>3, CancelKeeps
  <2>4. CASE /\ p.state \in {"speaking", "speculating"} /\ p' = [p EXCEPT !.last = text]
             /\ stab' = [Idle EXCEPT !.pc = "armed", !.text = text] /\ cq' = Without(cq, "stab") /\ UNCHANGED <<A, rcv, resp>>
    <3>1. p'.att = p.att /\ p'.turn = p.turn /\ p'.number = p.number /\ p'.closed = p.closed /\ p'.state = p.state /\ p'.candTurn = p.candTurn
      BY <1>0, <2>4 DEF PipelineSet
    <3>2. Queue(cq') /\ Within(cq', cq) /\ (\A k \in 1 .. Len(cq') : cq'[k].who # "stab")
      BY <1>0, <2>4, WithoutIs
    <3>3. Waiters(cq', inp, rcv, stab', timer, resp)
      BY <1>0, <1>f, <3>2, FewerWait
    <3>4. Pending(cq, p', A, inp, rcv, resp)
      BY <1>0, <3>1 DEF Pending
    <3>5. Pending(cq', p', A, inp, rcv, resp)
      BY <3>2, <3>4, WithinIs
    <3>6. Stored(cq', p', A)
      BY <1>0, <3>1, <3>2, FewerStored
    <3>7. Greeting(cq', p', A, inp, rcv, stab', timer, resp)
      BY <1>b, <2>4, <3>1 DEF Greeting
    <3> QED BY <2>1, <2>4, <3>2, <3>3, <3>5, <3>6, <3>7 DEF Parts
  <2> QED BY <1>1, <2>2, <2>3, <2>4 DEF Partial
<1>2. CASE Revised
  <2> DEFINE w == Without(Rest, "stab")
  <2>1. /\ rcv.pc = "revise" /\ CancelEnds("rcv") /\ p' = Cancelled /\ cq' = w
        /\ rcv' = Idle /\ A' = Dropped /\ UNCHANGED <<conf, inp, timer, resp, asked, finals, notices>>
    BY <1>2 DEF Revised
  <2>2. /\ cq # <<>> /\ Queue(Rest) /\ (\A k \in 1 .. Len(Rest) : Rest[k].woken /\ Rest[k].who # "rcv")
        /\ Waiters(Rest, inp, rcv, stab, timer, resp)
    BY <1>g, <2>1
  <2>3. Queue(w) /\ Within(w, Rest) /\ (\A k \in 1 .. Len(w) : w[k].who # "stab")
    BY <2>2, WithoutIs
  <2> HIDE DEF w
  <2>4. \A k \in 1 .. Len(w) : w[k].woken /\ w[k].who # "rcv"
    BY <2>2, <2>3 DEF Within
  <2>5. Waiters(w, inp, rcv', stab', timer, resp)
    BY <1>e, <2>1, <2>2, <2>3, <2>4, FewerWait
  <2>6. p'.number # 0 /\ p'.turn # Opening /\ p'.candTurn # Opening
    BY <1>b, <1>c, <2>1
  <2> QED BY <1>b, <2>1, <2>2, <2>3, <2>4, <2>5, <2>6, HeadKeeps
<1>3. CASE StableStale
  <2>1. stab.pc = "armed" /\ stab' = Idle /\ UNCHANGED <<conf, p, A, cq, inp, rcv, timer, resp, asked, finals, notices>>
    BY <1>3 DEF StableStale
  <2>2. Waiters(cq, inp, rcv, stab', timer, resp)
    BY <1>0, <2>1 DEF Waiters
  <2>3. Greeting(cq, p, A, inp, rcv, stab', timer, resp)
    BY <1>0, <1>e, <2>1 DEF Greeting
  <2> QED BY <1>0, <2>1, <2>2, <2>3 DEF Parts
<1>4. CASE Speculate
  <2>1. /\ stab.pc = "armed" /\ Running /\ p.state \in {"speaking", "speculating"}
        /\ UNCHANGED <<conf, inp, rcv, timer, asked, finals, notices>>
    BY <1>4 DEF Speculate
  <2>2. CASE p.att = 0
    <3>1. /\ StartsAttempt(A, stab.text, FALSE) /\ p' = [p EXCEPT !.att = NextAttempt, !.state = "speculating"]
          /\ stab' = Idle /\ UNCHANGED <<cq, resp>>
      BY <1>4, <2>2 DEF Speculate
    <3>2. p'.att = NextAttempt /\ p'.turn = p.turn /\ p'.number = p.number /\ p'.candTurn = p.candTurn
      BY <1>0, <3>1 DEF PipelineSet
    <3>3. \A k \in 1 .. Len(cq) : FALSE
      BY <1>0, <1>d, <2>1, <2>2 DEF Pending
    <3>4. cq = <<>>
      BY <1>0, <3>3, NobodyIs
    <3>5. Stored(<<>>, p, A)
      BY <1>0, <3>4
    <3>6. Stored(<<>>, p', A')
      BY <1>a, <2>2, <3>1, <3>2, <3>5, StartKeeps
    <3>7. Waiters(cq, inp, rcv, stab', timer, resp) /\ Pending(cq, p', A', inp, rcv, resp)
      BY <1>f, <3>3 DEF Waiters, Pending
    <3>8. Greeting(cq, p', A', inp, rcv, stab', timer, resp)
      BY <1>b, <2>1, <3>2 DEF Greeting
    <3> QED BY <1>0, <2>1, <3>1, <3>4, <3>6, <3>7, <3>8 DEF Parts
  <2>3. CASE p.att # 0
    <3>1. CancelBegins("stab") /\ stab' = [stab EXCEPT !.pc = "replace"] /\ UNCHANGED p
      BY <1>4, <2>3 DEF Speculate
    <3>2. stab'.pc = "replace" /\ SameTurn(p', p) /\ p'.state = p.state /\ p.number # 0
      BY <1>a, <1>b, <2>1, <3>1 DEF SameTurn, CoroutineSet
    <3>3. \A k \in 1 .. Len(cq) : cq[k].who # "stab"
      BY <1>0, <2>1 DEF Waiters
    <3> QED BY <2>1, <3>1, <3>2, <3>3, CancelKeeps
  <2> QED BY <2>2, <2>3
<1>5. CASE Respeculate
  <2>1. /\ stab.pc = "replace" /\ CancelEnds("stab") /\ StartsAttempt(Dropped, stab.text, FALSE)
        /\ p' = [Cancelled EXCEPT !.att = NextAttempt, !.state = "speculating"] /\ cq' = Rest
        /\ stab' = Idle /\ UNCHANGED <<conf, inp, rcv, timer, resp, asked, finals, notices>>
    BY <1>5 DEF Respeculate
  <2>2. /\ cq # <<>> /\ Queue(Rest) /\ (\A k \in 1 .. Len(Rest) : Rest[k].woken /\ Rest[k].who # "stab")
        /\ Waiters(Rest, inp, rcv, stab, timer, resp)
    BY <1>g, <2>1
  <2>3. p'.turn = Cancelled.turn /\ p'.number = Cancelled.number /\ p'.candTurn = Cancelled.candTurn
    BY <1>c, <2>1 DEF PipelineSet
  <2>4. Dropped \in [Attempts -> AttemptSet]
    BY <1>0, AfterCancel DEF Answerable
  <2>5. /\ NextAttempt \in Attempts /\ A'[NextAttempt].pc = "stream" /\ A'[NextAttempt].auth = FALSE
        /\ ~A'[NextAttempt].complete /\ ~A'[NextAttempt].cancelled
        /\ \A a \in Attempts : a # NextAttempt => A'[a] = Dropped[a]
    BY <1>a, <2>1, <2>4, StartEffectIs
  <2>6. Waiters(Rest, inp, rcv, stab', timer, resp)
    BY <1>f, <1>h, <2>2, FewerWait
  <2>7. p'.number # 0 /\ p'.turn # Opening /\ p'.candTurn # Opening
    BY <1>b, <1>c, <2>1, <2>3
  <2>8. \A a \in Attempts :
          \/ A'[a] = Dropped[a]
          \/ A'[a].pc = "stream" /\ ~A'[a].complete /\ ~A'[a].cancelled /\ (A'[a].auth => p'.att = a /\ Rest = <<>>)
    BY <2>5
  <2> QED BY <1>b, <2>1, <2>2, <2>6, <2>7, <2>8, HeadKeeps
<1>6. CASE TimeoutStale
  <2>1. timer.pc = "armed" /\ timer' = Idle /\ UNCHANGED <<conf, p, A, cq, inp, rcv, stab, resp, asked, finals, notices>>
    BY <1>6 DEF TimeoutStale
  <2>2. Waiters(cq, inp, rcv, stab, timer', resp)
    BY <1>0, <1>e, <2>1 DEF Waiters
  <2>3. Greeting(cq, p, A, inp, rcv, stab, timer', resp)
    BY <1>0, <1>e, <2>1 DEF Greeting
  <2> QED BY <1>0, <2>1, <2>2, <2>3 DEF Parts
<1>7. CASE Timeout
  <2>1. /\ timer.pc = "armed" /\ Running /\ rcv.pc # "publish" /\ cq = <<>>
        /\ UNCHANGED <<conf, inp, rcv, stab, asked, finals, notices>>
    BY <1>7 DEF Timeout
  <2>2. \A k \in 1 .. Len(cq) : FALSE
    BY <2>1, EmptyIs
  <2>3. CASE p.att = 0
    <3>1. /\ cq' = Unanswered /\ p' = [p EXCEPT !.state = "recovering_stt"] /\ UNCHANGED A
      BY <1>7, <2>3 DEF Timeout, NothingToCancel
    <3>2. cq' = <<>>
      BY <1>0, <2>1, <3>1, WithoutIs DEF Unanswered
    <3>3. p'.att = p.att /\ p'.turn = p.turn /\ p'.number = p.number /\ p'.candTurn = p.candTurn
      BY <1>0, <3>1 DEF PipelineSet
    <3>4. Waiters(cq, inp, rcv, stab, timer', resp') /\ Pending(cq, p', A, inp, rcv, resp')
      BY <2>1, <2>2 DEF Waiters, Pending
    <3>5. Stored(cq, p', A)
      BY <1>0, <3>3 DEF Stored
    <3>6. Greeting(cq, p', A, inp, rcv, stab, timer', resp')
      BY <1>b, <2>1, <3>3 DEF Greeting
    <3> QED BY <1>0, <2>1, <3>1, <3>2, <3>4, <3>5, <3>6 DEF Parts
  <2>4. CASE p.att # 0
    <3>1. CancelBegins("timer") /\ timer' = [timer EXCEPT !.pc = "cancel"] /\ UNCHANGED p
      BY <1>7, <2>4 DEF Timeout
    <3>2. timer'.pc = "cancel" /\ SameTurn(p', p) /\ p'.state = p.state /\ p.number # 0
      BY <1>a, <1>b, <2>1, <3>1 DEF SameTurn, CoroutineSet
    <3>3. \A k \in 1 .. Len(cq) : cq[k].who # "timer"
      BY <2>2
    <3> QED BY <2>1, <3>1, <3>2, <3>3, CancelKeeps
  <2> QED BY <2>3, <2>4
<1>8. CASE TimeoutCancelled
  <2>1. /\ timer.pc = "cancel" /\ CancelEnds("timer") /\ p' = [Cancelled EXCEPT !.state = "recovering_stt"]
        /\ cq' = Rest /\ A' = Dropped /\ timer' = [timer EXCEPT !.pc = "recover", !.turn = Cancelled.turn]
        /\ UNCHANGED <<conf, inp, rcv, stab, resp, asked, finals, notices>>
    BY <1>8 DEF TimeoutCancelled
  <2>2. /\ cq # <<>> /\ Queue(Rest) /\ (\A k \in 1 .. Len(Rest) : Rest[k].woken /\ Rest[k].who # "timer")
        /\ Waiters(Rest, inp, rcv, stab, timer, resp)
    BY <1>g, <2>1
  <2>3. p'.turn = Cancelled.turn /\ p'.number = Cancelled.number /\ p'.candTurn = Cancelled.candTurn
    BY <1>c, <2>1 DEF PipelineSet
  <2>4. timer'.pc = "recover"
    BY <1>a, <2>1 DEF CoroutineSet
  <2>5. Waiters(Rest, inp, rcv, stab, timer', resp)
    BY <1>h, <2>2, <2>4, FewerWait
  <2>6. p'.number # 0 /\ p'.turn # Opening /\ p'.candTurn # Opening
    BY <1>b, <1>c, <2>1, <2>3
  <2> QED BY <1>b, <2>1, <2>2, <2>5, <2>6, HeadKeeps
<1>9. CASE Recovered
  <2> DEFINE c == IF timer.turn = NoTurn THEN p.closed ELSE p.closed \union {timer.turn}
  <2>1. /\ timer.pc = "recover" /\ Running /\ timer' = Idle
        /\ p' = [p EXCEPT !.state = "idle", !.turn = NoTurn, !.closed = c]
        /\ UNCHANGED <<conf, A, cq, inp, rcv, stab, resp, asked, finals, notices>>
    BY <1>9 DEF Recovered
  <2> HIDE DEF c
  <2>2. p'.att = p.att /\ p'.turn = NoTurn /\ p'.number = p.number /\ p'.state = "idle" /\ p'.candTurn = p.candTurn
    BY <1>0, <2>1 DEF PipelineSet
  <2>3. Waiters(cq, inp, rcv, stab, timer', resp)
    BY <1>0, <1>e, <2>1 DEF Waiters
  <2>4. Pending(cq, p', A, inp, rcv, resp)
    BY <1>0, <2>2 DEF Pending
  <2>5. Stored(cq, p', A)
    BY <1>0, <2>2 DEF Stored
  <2>6. Greeting(cq, p', A, inp, rcv, stab, timer', resp)
    BY <1>b, <2>1, <2>2 DEF Greeting
  <2> QED BY <1>0, <2>1, <2>3, <2>4, <2>5, <2>6 DEF Parts
<1> QED BY <1>1, <1>2, <1>3, <1>4, <1>5, <1>6, <1>7, <1>8, <1>9

-----------------------------------------------------------------------------
(* The generations stay reachable                                            *)

\* What a generation changes of its own attempt.
LEMMA OwnAttempt ==
  ASSUME NEW B \in [Attempts -> AttemptSet], NEW a \in Attempts, NEW x, NEW C, C = [B EXCEPT ![a] = x],
         \/ x.pc = B[a].pc /\ x.auth = B[a].auth /\ x.complete = B[a].complete /\ x.cancelled = B[a].cancelled /\ x.cap = B[a].cap
         \/ x.pc = "done"
         \/ B[a].pc # "done" /\ x.pc \in {"transfer", "apology"}
  PROVE  Calmer(C, B)
BY DEF Calmer

LEMMA FinishedIsCalmer ==
  ASSUME A \in [Attempts -> AttemptSet], NEW a \in Attempts, NEW q
  PROVE  Calmer(Finished(a, q), A)
<1> DEFINE x == IF q.att = a THEN [A[a] EXCEPT !.pc = "done"] ELSE NoAttempt
<1>1. A[a] \in AttemptSet /\ NoAttempt.pc = "done"
  BY DEF NoAttempt, Attempt
<1>2. x.pc = "done"
  BY <1>1 DEF AttemptSet
<1>3. Finished(a, q) = [A EXCEPT ![a] = x]
  BY DEF Finished
<1> HIDE DEF x
<1> QED BY <1>2, <1>3, OwnAttempt

LEMMA GenerationOwned ==
  ASSUME HeardInv, conf.engaged, Parts(cq, p, A, inp, rcv, stab, timer, resp),
         (\E a \in Attempts : Generates(a)) \/ OpeningStarts \/ Announce \/ HangUp
  PROVE  Parts(cq', p', A', inp', rcv', stab', timer', resp')
<1>0. /\ conf \in Confs /\ p \in PipelineSet /\ A \in [Attempts -> AttemptSet]
      /\ Queue(cq) /\ Waiters(cq, inp, rcv, stab, timer, resp) /\ Pending(cq, p, A, inp, rcv, resp)
      /\ Stored(cq, p, A) /\ Greeting(cq, p, A, inp, rcv, stab, timer, resp)
  BY HeardIs DEF Parts, Answerable
<1>a. ASSUME Parts(cq, p', A', inp, rcv, stab, timer, resp), UNCHANGED Others
      PROVE  Parts(cq', p', A', inp', rcv', stab', timer', resp')
  BY <1>a DEF Others
<1>b. /\ NoTurn # Opening /\ p.candTurn # Opening /\ inp.turn # Opening /\ Opening = 0 /\ (p.turn = Opening => p.number = 0)
  BY <1>0, TurnsApart DEF Greeting
<1>c. Running => \A k \in 1 .. Len(cq) : ~cq[k].woken
  BY <1>0, RunningIs
<1>d. /\ \A Q : Q = TtsStart(p) => SameTurn(Q, p) /\ Q.state \in {p.state, "playing"}
      /\ SameTurn(p, p)
  BY <1>0, StartEffect DEF SameTurn
<1>e. \A a \in Attempts : A[a] \in AttemptSet /\ a # 0
  BY <1>0, TurnsAssumption DEF Attempts
<1>1. ASSUME NEW a \in Attempts, GenChunk(a) PROVE Parts(cq', p', A', inp', rcv', stab', timer', resp')
  <2> DEFINE m == A[a].made + 1
             h == IF A[a].auth THEN A[a].held ELSE A[a].held + 1
             x == [A[a] EXCEPT !.made = m, !.held = h]
  <2>1. p' \in {p, TtsStart(p)} /\ UNCHANGED Others /\ A' = [A EXCEPT ![a].made = @ + 1, ![a].held = IF A[a].auth THEN @ ELSE @ + 1]
    BY <1>1 DEF GenChunk, SentOrHeld
  <2>2. A' = [A EXCEPT ![a] = x]
    BY <1>0, <1>e, <2>1 DEF AttemptSet
  <2> HIDE DEF m, h
  <2>3. x.pc = A[a].pc /\ x.auth = A[a].auth /\ x.complete = A[a].complete /\ x.cancelled = A[a].cancelled /\ x.cap = A[a].cap
    BY <1>e DEF AttemptSet
  <2> HIDE DEF x
  <2>4. Calmer(A', A)
    BY <1>0, <2>2, <2>3, OwnAttempt
  <2>5. SameTurn(p', p) /\ p'.state \in {p.state, "playing"}
    BY <1>d, <2>1
  <2> QED BY <1>a, <2>1, <2>4, <2>5, PlaybackKeeps
<1>2. ASSUME NEW a \in Attempts, NEW tool \in conf.tools, GenTool(a, tool) PROVE Parts(cq', p', A', inp', rcv', stab', timer', resp')
  <2> DEFINE x == [A[a] EXCEPT !.tool = tool]
  <2>1. p' \in {p, [p EXCEPT !.ending = TRUE]} /\ UNCHANGED Others /\ A' = [A EXCEPT ![a] = x]
    BY <1>2 DEF GenTool
  <2>2. x.pc = A[a].pc /\ x.auth = A[a].auth /\ x.complete = A[a].complete /\ x.cancelled = A[a].cancelled /\ x.cap = A[a].cap
    BY <1>e DEF AttemptSet
  <2> HIDE DEF x
  <2>3. Calmer(A', A)
    BY <1>0, <2>1, <2>2, OwnAttempt
  <2>4. SameTurn(p', p) /\ p'.state = p.state
    BY <1>0, <1>d, <2>1 DEF SameTurn, PipelineSet
  <2> QED BY <1>a, <2>1, <2>3, <2>4, PlaybackKeeps
<1>3. ASSUME NEW a \in Attempts, GenComplete(a) PROVE Parts(cq', p', A', inp', rcv', stab', timer', resp')
  <2> DEFINE pc == IF A[a].auth THEN "drain" ELSE "done"
             x == [A[a] EXCEPT !.complete = TRUE, !.cap = p.att, !.pc = pc]
  <2>1. A[a].pc = "stream" /\ Running /\ UNCHANGED p /\ UNCHANGED Others
        /\ A' = [A EXCEPT ![a].complete = TRUE, ![a].cap = p.att, ![a].pc = pc]
    BY <1>3 DEF GenComplete
  <2>2. A' = [A EXCEPT ![a] = x]
    BY <1>0, <1>e, <2>1 DEF AttemptSet
  <2>3. x.pc \in {"done", "drain"} /\ (x.pc = "drain" => A[a].auth /\ x.cap = p.att)
    BY <1>e DEF AttemptSet
  <2> HIDE DEF pc, x
  <2>4. A'[a] = x /\ \A b \in Attempts : b # a => A'[b] = A[b]
    BY <1>0, <2>2
  <2>5. Stored(cq, p, A')
    BY <1>0, <2>1, <2>3, <2>4 DEF Stored
  <2>6. Pending(cq, p, A', inp, rcv, resp)
    <3>1. \A k \in 1 .. Len(cq) : ~cq[k].woken => cq[k].att # a /\ cq[k].att \in Attempts
      BY <1>0, <2>1, EntryIs DEF Pending
    <3> QED BY <1>0, <2>4, <3>1 DEF Pending
  <2>7. Greeting(cq, p, A', inp, rcv, stab, timer, resp)
    BY <1>0, <2>1 DEF Greeting
  <2> QED BY <1>0, <1>a, <2>1, <2>5, <2>6, <2>7 DEF Parts
<1>4. ASSUME NEW a \in Attempts, GenError(a) PROVE Parts(cq', p', A', inp', rcv', stab', timer', resp')
  <2> DEFINE x == [A[a] EXCEPT !.pc = "done"]
  <2>1. UNCHANGED p /\ UNCHANGED Others /\ A' = [A EXCEPT ![a] = x]
    BY <1>4 DEF GenError
  <2>2. x.pc = "done"
    BY <1>e DEF AttemptSet
  <2> HIDE DEF x
  <2>3. Calmer(A', A)
    BY <1>0, <2>1, <2>2, OwnAttempt
  <2> QED BY <1>a, <1>d, <2>1, <2>3, PlaybackKeeps
<1>5. ASSUME NEW a \in Attempts, GenDrained(a) PROVE Parts(cq', p', A', inp', rcv', stab', timer', resp')
  <2> DEFINE q == FinishPlayout(p, A, A[a].cap)
             x == [A[a] EXCEPT !.pc = "transfer"]
  <2>1. /\ A[a].pc = "drain" /\ Running /\ UNCHANGED Others
        /\ \/ p' = [q EXCEPT !.handoff = "progress"] /\ A' = [A EXCEPT ![a] = x]
           \/ p' = q /\ A' = Finished(a, q)
    BY <1>5 DEF GenDrained
  <2>2. q \in PipelineSet
    BY <1>0, TtsIs
  <2>3. A[a].cap = a
    BY <1>0, <2>1 DEF Stored
  <2>4. x.pc = "transfer"
    BY <1>e DEF AttemptSet
  <2> HIDE DEF x
  <2>5. Calmer(A', A)
    <3>1. A' = [A EXCEPT ![a] = x] => Calmer(A', A)
      BY <1>0, <2>1, <2>4, OwnAttempt
    <3> QED BY <1>0, <2>1, <3>1, FinishedIsCalmer
  <2>6. p'.att = q.att /\ p'.turn = q.turn /\ p'.number = q.number /\ p'.closed = q.closed /\ p'.candTurn = q.candTurn /\ p'.state = q.state
    <3> HIDE DEF q
    <3> QED BY <2>1, <2>2 DEF PipelineSet
  <2>7. p.att = A[a].cap => \A k \in 1 .. Len(cq) : ~cq[k].woken => FALSE
    BY <1>0, <1>e, <2>1, <2>3 DEF Pending
  <2>8. Parts(cq, p', A', inp, rcv, stab, timer, resp)
    BY <1>0, <2>5, <2>6, <2>7, FinishKeeps
  <2> QED BY <1>a, <2>1, <2>8
<1>6. ASSUME Close PROVE Parts(cq', p', A', inp', rcv', stab', timer', resp')
  <2>1. /\ cq' = <<>> /\ inp' = Idle /\ rcv' = Idle /\ stab' = Idle /\ timer' = Idle /\ resp' = Idle
        /\ \A a \in Attempts : A'[a] = NoAttempt
    BY <1>6 DEF Close
  <2>2. p'.att = 0 /\ p'.number = 0 /\ p'.turn = NoTurn /\ p'.candTurn = NoTurn /\ p'.state = "idle"
    BY <1>6 DEF Close, New
  <2>3. NoAttempt.pc = "done" /\ Idle.pc = "ready" /\ Idle.turn = NoTurn
    BY DEF NoAttempt, Attempt, Idle
  <2>4. Queue(cq') /\ \A k \in 1 .. Len(cq') : FALSE
    BY <1>0, <2>1, EmptyIs
  <2>5. Waiters(cq', inp', rcv', stab', timer', resp') /\ Pending(cq', p', A', inp', rcv', resp')
    BY <2>1, <2>3, <2>4 DEF Waiters, Pending
  <2>6. Stored(cq', p', A')
    BY <2>1, <2>3 DEF Stored
  <2>7. Greeting(cq', p', A', inp', rcv', stab', timer', resp')
    BY <1>b, <2>1, <2>2, <2>3 DEF Greeting
  <2> QED BY <2>4, <2>5, <2>6, <2>7 DEF Parts
<1>7. ASSUME NEW a \in Attempts, TransferConnects(a) PROVE Parts(cq', p', A', inp', rcv', stab', timer', resp')
  <2>1. p' = [p EXCEPT !.handoff = "active"] /\ A' = Finished(a, p) /\ UNCHANGED Others
    BY <1>7 DEF TransferConnects
  <2>2. SameTurn(p', p) /\ p'.state = p.state
    BY <1>0, <2>1 DEF SameTurn, PipelineSet
  <2>3. Calmer(A', A)
    BY <1>0, <2>1, FinishedIsCalmer
  <2> QED BY <1>a, <2>1, <2>2, <2>3, PlaybackKeeps
<1>8. ASSUME NEW a \in Attempts, TransferFails(a) PROVE Parts(cq', p', A', inp', rcv', stab', timer', resp')
  <2> DEFINE x == [A[a] EXCEPT !.pc = "apology", !.cap = p.att]
  <2>1. A[a].pc = "transfer" /\ p' \in {p, TtsStart(p)} /\ A' = [A EXCEPT ![a].pc = "apology", ![a].cap = p.att] /\ UNCHANGED Others
    BY <1>8 DEF TransferFails
  <2>2. A' = [A EXCEPT ![a] = x] /\ x.pc = "apology"
    BY <1>0, <1>e, <2>1 DEF AttemptSet
  <2> HIDE DEF x
  <2>3. Calmer(A', A)
    BY <1>0, <2>1, <2>2, OwnAttempt, ZenonT(60)
  <2>4. SameTurn(p', p) /\ p'.state \in {p.state, "playing"}
    BY <1>d, <2>1
  <2> QED BY <1>a, <2>1, <2>3, <2>4, PlaybackKeeps
<1>9. ASSUME NEW a \in Attempts, Apologized(a) PROVE Parts(cq', p', A', inp', rcv', stab', timer', resp')
  <2> DEFINE q == FinishPlayout(p, A, A[a].cap)
  <2>1. cq = <<>> /\ p' = [q EXCEPT !.handoff = "no"] /\ A' = Finished(a, p') /\ UNCHANGED Others
    BY <1>9 DEF Apologized
  <2>2. q \in PipelineSet
    BY <1>0, TtsIs
  <2>3. p'.att = q.att /\ p'.turn = q.turn /\ p'.number = q.number /\ p'.closed = q.closed /\ p'.candTurn = q.candTurn /\ p'.state = q.state
    <3> HIDE DEF q
    <3> QED BY <2>1, <2>2 DEF PipelineSet
  <2>4. Calmer(A', A)
    BY <1>0, <2>1, FinishedIsCalmer
  <2>5. \A k \in 1 .. Len(cq) : FALSE
    BY <1>0, <2>1, EmptyIs
  <2>6. Parts(cq, p', A', inp, rcv, stab, timer, resp)
    BY <1>0, <2>3, <2>4, <2>5, FinishKeeps
  <2> QED BY <1>a, <2>1, <2>6
<1>10. ASSUME NEW a \in Attempts, OpeningEnds(a) PROVE Parts(cq', p', A', inp', rcv', stab', timer', resp')
  <2> DEFINE b == p.playing /\ A[a].pc = "done"
             c == p.closed \union {Opening}
  <2>1. /\ p' = [p EXCEPT !.state = "idle", !.turn = NoTurn, !.att = 0, !.closed = c, !.playing = b]
        /\ p.att = a /\ p.turn = Opening /\ A' = [A EXCEPT ![a] = NoAttempt] /\ UNCHANGED Others
    BY <1>10 DEF OpeningEnds
  <2> HIDE DEF b
  <2>2. /\ p'.att = 0 /\ p'.turn = NoTurn /\ p'.number = p.number /\ p'.state = "idle" /\ p'.candTurn = p.candTurn /\ p'.closed = c
    BY <1>0, <2>1 DEF PipelineSet
  <2>3. NoAttempt.pc = "done"
    BY DEF NoAttempt, Attempt
  <2>4. Calmer(A', A) /\ A'[p.att].pc = "done"
    BY <1>0, <2>1, <2>3, OwnAttempt
  <2>5. Parts(cq, p, A', inp, rcv, stab, timer, resp)
    BY <1>d, <2>4, PlaybackKeeps
  <2>6. TurnEnds(p', p, A')
    BY <1>b, <2>1, <2>2, <2>4 DEF TurnEnds
  <2>7. p.number = 0 /\ rcv.pc = "ready" /\ stab.pc = "ready" /\ timer.pc = "ready" /\ resp.pc = "ready"
    BY <1>0, <1>b, <2>1 DEF Greeting
  <2>8. \A k \in 1 .. Len(cq) : inp.pc \in InCancel
    <3> SUFFICES ASSUME NEW k \in 1 .. Len(cq) PROVE inp.pc \in InCancel
      OBVIOUS
    <3>1. cq[k].who \in {"inp", "rcv", "stab", "timer", "resp"}
      BY <1>0, EntryIs
    <3> QED BY <1>0, <2>7, <3>1 DEF Waiters
  <2>9. Calmer(A', A')
    BY SameIsCalmer
  <2>10. Parts(cq, p', A', inp, rcv, stab, timer, resp)
    BY <2>5, <2>6, <2>7, <2>8, <2>9, EndingKeeps
  <2> QED BY <1>a, <2>1, <2>10
<1>11. CASE OpeningStarts
  <2>1. /\ StartsAttempt(A, None, TRUE) /\ UNCHANGED Others /\ p.state = "idle" /\ p.number = 0 /\ Opening \notin p.closed
        /\ p' = [p EXCEPT !.turn = Opening, !.att = NextAttempt, !.state = "generating"]
    BY <1>11 DEF OpeningStarts
  <2>2. None \in Words
    BY DEF Words
  <2>3. p'.att = NextAttempt /\ p'.turn = Opening /\ p'.number = p.number /\ p'.state = "generating" /\ p'.candTurn = p.candTurn
    BY <1>0, <2>1 DEF PipelineSet
  <2>4. p.att = 0 /\ cq = <<>>
    BY <1>0, <2>1 DEF Greeting
  <2>5. Stored(<<>>, p, A)
    BY <1>0, <2>4
  <2>6. Stored(<<>>, p', A')
    BY <1>0, <2>1, <2>2, <2>3, <2>4, <2>5, StartKeeps
  <2>7. \A k \in 1 .. Len(cq) : FALSE
    BY <1>0, <2>4, EmptyIs
  <2>8. Pending(cq, p', A', inp, rcv, resp)
    BY <2>7 DEF Pending
  <2>9. Greeting(cq, p', A', inp, rcv, stab, timer, resp)
    BY <1>0, <1>b, <2>1, <2>3 DEF Greeting
  <2>10. Parts(cq, p', A', inp, rcv, stab, timer, resp)
    BY <1>0, <2>4, <2>6, <2>8, <2>9 DEF Parts
  <2> QED BY <1>a, <2>1, <2>10
<1>12. CASE Announce
  <2>1. p' = TtsStart(p) /\ UNCHANGED <<conf, A, cq, inp, rcv, stab, timer, resp, asked, finals>>
    BY <1>12 DEF Announce
  <2>2. SameTurn(p', p) /\ p'.state \in {p.state, "playing"}
    BY <1>d, <2>1
  <2>3. Calmer(A, A)
    BY SameIsCalmer
  <2> QED BY <2>1, <2>2, <2>3, PlaybackKeeps
<1>13. CASE HangUp
  BY <1>6, <1>13 DEF HangUp
<1>14. ASSUME NEW a \in Attempts, CallEnds(a) PROVE Parts(cq', p', A', inp', rcv', stab', timer', resp')
  BY <1>6, <1>14 DEF CallEnds
<1> QED BY <1>1, <1>2, <1>3, <1>4, <1>5, <1>7, <1>8, <1>9, <1>10, <1>11, <1>12, <1>13, <1>14 DEF Generates

-----------------------------------------------------------------------------

LEMMA OrphanInit == Init => OrphanInv
<1> SUFFICES ASSUME Init, conf.engaged PROVE Parts(cq, p, A, inp, rcv, stab, timer, resp)
  BY OrphanIs
<1>1. /\ cq = <<>> /\ inp = Idle /\ rcv = Idle /\ stab = Idle /\ timer = Idle /\ resp = Idle
      /\ \A a \in Attempts : A[a] = NoAttempt
  BY DEF Init
<1>2. p.att = 0 /\ p.number = 0 /\ p.turn = NoTurn /\ p.candTurn = NoTurn /\ p.state = "idle"
  BY DEF Init, New
<1>3. NoAttempt.pc = "done" /\ Idle.pc = "ready" /\ Idle.turn = NoTurn
  BY DEF NoAttempt, Attempt, Idle
<1>4. Queue(cq) /\ \A k \in 1 .. Len(cq) : FALSE
  <2>1. <<>> \in Seq(Entries) /\ Len(<<>>) = 0
    BY EmptySeq
  <2> QED BY <1>1, <2>1 DEF Queue
<1>5. Waiters(cq, inp, rcv, stab, timer, resp) /\ Pending(cq, p, A, inp, rcv, resp)
  BY <1>1, <1>3, <1>4 DEF Waiters, Pending
<1>6. Stored(cq, p, A)
  BY <1>1, <1>3 DEF Stored
<1>7. Greeting(cq, p, A, inp, rcv, stab, timer, resp)
  BY TurnsApart, <1>1, <1>2, <1>3 DEF Greeting
<1> QED BY <1>4, <1>5, <1>6, <1>7 DEF Parts

\* With engagement, the coroutines inside _cancel_attempt wait for one task, the
\* answering task last; what they overrule is overruled by the caller's input,
\* and no generation that can be heard exists while they wait.
THEOREM OrphanInvariance == Spec => []OrphanInv
<1>1. HeardInv /\ OrphanInv /\ [Next]_vars => OrphanInv'
  <2> SUFFICES ASSUME HeardInv, OrphanInv, [Next]_vars PROVE OrphanInv'
    OBVIOUS
  <2>1. CASE UNCHANGED vars
    BY <2>1, OrphanIs, OrphanNext DEF vars
  <2>2. CASE Next
    <3>1. conf' = conf
      <4>1. Others' = Others => conf' = conf
        BY DEF Others
      <4>2. (\E a \in Attempts : Generates(a)) \/ OpeningStarts \/ Announce \/ HangUp => conf' = conf
        BY <4>1 DEF Generates, GenChunk, GenComplete, GenError, GenDrained, CallEnds, TransferConnects, TransferFails,
             Apologized, OpeningEnds, GenTool, OpeningStarts, Announce, HangUp, Close
      <4>3. \/ CandidateStarts \/ CandidateCancelled \/ SpeechIgnored \/ SpeechStarts \/ BargeIn \/ SpeechEnds \/ Committed
            \/ (\E text \in conf.typed : Types(text)) \/ TypedSubmitted
            => conf' = conf
        BY DEF CandidateStarts, CandidateCancelled, SpeechIgnored, SpeechStarts, BargeIn, SpeechEnds, Committed, Types, TypedSubmitted
      <4>4. \/ (\E t \in asked : FinalLost(t)) \/ (\E t \in asked : \E text \in Finals : FinalArrives(t, text))
            \/ FinalPublished \/ FreshAnswer \/ Answers
            => conf' = conf
        BY DEF FinalLost, FinalArrives, FinalPublished, FreshAnswer, Answers, GraceElapses, Authorize, Discard, Answer,
             ReleaseChunk, Released, ReleaseDrained
      <4>5. \/ (\E text \in conf.heard : Partial(text)) \/ Revised \/ StableStale \/ Speculate \/ Respeculate
            \/ TimeoutStale \/ Timeout \/ TimeoutCancelled \/ Recovered
            => conf' = conf
        BY DEF Partial, Revised, StableStale, Speculate, Respeculate, TimeoutStale, Timeout, TimeoutCancelled, Recovered
      <4> QED BY <2>2, <4>2, <4>3, <4>4, <4>5 DEF Next
    <3>2. conf.engaged => Parts(cq', p', A', inp', rcv', stab', timer', resp')
      BY <2>2, OrphanIs, InputOwned, FinalOwned, SpeculationOwned, GenerationOwned DEF Next
    <3> QED BY <3>1, <3>2, OrphanNext
  <2> QED BY <2>1, <2>2
<1> QED BY <1>1, OrphanInit, HeardInvariance, PTL DEF Spec

\* With engagement, no interleaving of the waits in _cancel_attempt with
\* _start_attempt leaves a reply that can be heard and that barge-in, which
\* cancels the stored attempt, does not reach.
THEOREM NoOrphanHolds == Spec => []NoOrphan
<1>1. OrphanInv => NoOrphan
  BY OrphanIs DEF Parts, Stored, NoOrphan, Live
<1> QED BY <1>1, OrphanInvariance, PTL

-----------------------------------------------------------------------------
(* The ids of turns                                                          *)

\* q winds down to r: no new turn, and at most q's own is closed.
Kept(q, r) ==
  /\ r.number = q.number /\ (r.cand => q.cand /\ r.candTurn = q.candTurn)
  /\ r.turn \in {q.turn, NoTurn} /\ r.closed \subseteq q.closed \union ({q.turn} \ {NoTurn})

LEMMA WindsDown ==
  ASSUME NEW q \in PipelineSet
  PROVE  /\ Kept(q, q) /\ Kept(q, TtsStart(q)) /\ Kept(q, ClearCandidate(q))
         /\ \A B : Kept(q, TtsStop(q, B)) /\ Kept(q, StopTts(q, B))
         /\ \A B, cap : Kept(q, FinishPlayout(q, B, cap))
<1>1. Kept(q, q)
  BY DEF Kept
<1>2. Kept(q, TtsStart(q))
  BY DEF Kept, TtsStart, PipelineSet
<1>3. Kept(q, ClearCandidate(q))
  BY DEF Kept, ClearCandidate, PipelineSet
<1>4. ASSUME NEW B PROVE Kept(q, TtsStop(q, B))
  <2>1. Kept(q, [q EXCEPT !.state = "releasing"])
    BY DEF Kept, PipelineSet
  <2> DEFINE c == IF q.turn = NoTurn THEN q.closed ELSE q.closed \union {q.turn}
  <2>2. c \subseteq q.closed \union ({q.turn} \ {NoTurn})
    OBVIOUS
  <2> HIDE DEF c
  <2>3. Kept(q, [q EXCEPT !.closed = c, !.state = "idle", !.turn = NoTurn, !.att = 0])
    BY <2>2 DEF Kept, PipelineSet
  <2> QED BY <2>1, <2>3 DEF TtsStop, c
<1>5. ASSUME NEW r \in PipelineSet, Kept(q, r), NEW b PROVE Kept(q, [r EXCEPT !.playing = b])
  BY <1>5 DEF Kept, PipelineSet
<1>6. ASSUME NEW B PROVE Kept(q, StopTts(q, B))
  <2> DEFINE r == IF q.playing THEN TtsStop(q, B) ELSE q
  <2>1. r \in PipelineSet /\ Kept(q, r)
    BY <1>1, <1>4, TtsIs
  <2> HIDE DEF r
  <2> QED BY <1>5, <2>1 DEF StopTts, r
<1>7. ASSUME NEW B, NEW cap PROVE Kept(q, FinishPlayout(q, B, cap))
  <2> DEFINE r == IF q.att = cap THEN TtsStop(q, B) ELSE q
  <2>1. r \in PipelineSet /\ Kept(q, r)
    BY <1>1, <1>4, TtsIs
  <2> HIDE DEF r
  <2> QED BY <1>5, <2>1 DEF FinishPlayout, r
<1> QED BY <1>1, <1>2, <1>3, <1>4, <1>6, <1>7

LEMMA CancelledKept ==
  ASSUME p \in PipelineSet
  PROVE  Kept(p, Cancelled)
<1>1. ASSUME NEW r \in PipelineSet, Kept(p, r) PROVE Kept(p, [r EXCEPT !.att = 0])
  BY <1>1 DEF Kept, PipelineSet
<1> DEFINE r == IF A[Head(cq).att].auth THEN StopTts(p, A) ELSE p
<1>2. r \in PipelineSet /\ Kept(p, r)
  BY TtsIs, WindsDown
<1> HIDE DEF r
<1> QED BY <1>1, <1>2 DEF Cancelled, r

\* A step that opens no turn.
LEMMA KeptIds ==
  ASSUME p \in PipelineSet, IdInv, Kept(p, p'), inp' = inp \/ inp'.pc # "barge", timer'.turn \in {timer.turn, p.turn, NoTurn}
  PROVE  IdInv' /\ NewId
<1>1. p.number \in Nat
  BY DEF PipelineSet
<1>2. NewId
  BY DEF Kept, NewId
<1>3. Ids(p', inp', timer')
  BY <1>1 DEF IdInv, Ids, Kept
<1> QED BY <1>2, <1>3 DEF IdInv

\* A step that opens the next turn.
LEMMA OpenIds ==
  ASSUME p \in PipelineSet, IdInv, p'.number = p.number + 1, p'.turn = p.number + 1, ~p'.cand,
         p'.closed \subseteq 0 .. p.number, inp'.pc # "barge", timer'.turn \in {timer.turn, NoTurn}
  PROVE  IdInv' /\ NewId
<1>1. p.number \in Nat
  BY DEF PipelineSet
<1>2. p.closed \subseteq 0 .. p.number
  BY DEF IdInv, Ids
<1>3. NewId
  BY <1>1, <1>2 DEF NewId
<1>4. Ids(p', inp', timer')
  BY <1>1 DEF IdInv, Ids
<1> QED BY <1>3, <1>4 DEF IdInv

LEMMA NewTurnIds ==
  ASSUME p \in PipelineSet, IdInv, NEW q \in PipelineSet, Kept(p, q), NEW t, t = p.number + 1,
         NEW old \in 0 .. p.number \union {NoTurn}, NEW text, p' = NewTurn(q, t, old, text),
         inp'.pc # "barge", timer' = timer
  PROVE  IdInv' /\ NewId
<1> DEFINE r == ClearCandidate(q)
           c == (IF old = NoTurn THEN r.closed ELSE r.closed \union {old}) \ {t}
           n == r.number + 1
<1>1. r \in PipelineSet /\ r.number = q.number /\ r.closed = q.closed /\ r.cand = FALSE
  BY TtsIs DEF ClearCandidate, PipelineSet
<1>2. q.closed \subseteq 0 .. p.number
  BY DEF IdInv, Ids, Kept
<1>3. c \subseteq 0 .. p.number /\ n = p.number + 1
  BY <1>1, <1>2 DEF Kept
<1>4. p' = [r EXCEPT !.number = n, !.turn = t, !.last = text, !.final = None, !.state = "speaking", !.closed = c]
  BY DEF NewTurn
<1> HIDE DEF r, c, n
<1>5. p'.number = n /\ p'.turn = t /\ p'.closed = c /\ p'.cand = FALSE
  BY <1>1, <1>4 DEF PipelineSet
<1> QED BY <1>3, <1>5, OpenIds

LEMMA TypedIds ==
  ASSUME p \in PipelineSet, IdInv, NEW q \in PipelineSet, Kept(p, q), NEW B, NEW text, NEW queue, NEW answering,
         TypedFinal(q, B, text, queue, answering), inp'.pc # "barge"
  PROVE  IdInv' /\ NewId
<1> DEFINE r == ClearCandidate(q)
           t == TypedAccepted(q)
           n == r.number + 1
           k == q.number + 1
<1>1. r \in PipelineSet /\ r.number = q.number /\ r.closed = q.closed /\ r.cand = FALSE
  BY TtsIs DEF ClearCandidate, PipelineSet
<1>2. q.closed \subseteq 0 .. p.number /\ q.number = p.number
  BY DEF IdInv, Ids, Kept
<1>3. t = [r EXCEPT !.number = n, !.turn = k, !.final = None, !.last = None, !.state = "awaiting_final"]
  BY DEF TypedAccepted
<1>4. n = p.number + 1 /\ k = p.number + 1
  BY <1>1, <1>2
<1>5. t \in PipelineSet
  BY TypedIs
<1>6. timer' = Idle
  BY DEF TypedFinal
<1>7. \/ p' = t
      \/ p' = [t EXCEPT !.final = text, !.state = "releasing"]
      \/ p' = [t EXCEPT !.final = text, !.state = "releasing", !.att = NextAttempt]
  BY DEF TypedFinal
<1> HIDE DEF r, n, k, t
<1>8. t.number = n /\ t.turn = k /\ t.closed = r.closed /\ t.cand = FALSE
  BY <1>1, <1>3 DEF PipelineSet
<1>9. p'.number = t.number /\ p'.turn = t.turn /\ p'.closed = t.closed /\ p'.cand = t.cand
  BY <1>5, <1>7 DEF PipelineSet
<1> QED BY <1>1, <1>2, <1>4, <1>6, <1>8, <1>9, OpenIds DEF Idle

LEMMA InputIds ==
  ASSUME HeardInv, IdInv,
         \/ CandidateStarts \/ CandidateCancelled \/ SpeechIgnored \/ SpeechStarts \/ BargeIn \/ SpeechEnds \/ Committed
         \/ (\E text \in conf.typed : Types(text)) \/ TypedSubmitted
  PROVE  IdInv' /\ NewId
<1>0. p \in PipelineSet /\ p.number \in Nat /\ p.turn \in 0 .. p.number \union {NoTurn}
  BY HeardIs DEF IdInv, Ids, PipelineSet
<1>a. Cancelled \in PipelineSet /\ Kept(p, Cancelled) /\ Kept(p, p) /\ Idle.pc # "barge" /\ Idle.turn = NoTurn
  BY <1>0, CancelledIs, CancelledKept, WindsDown DEF Idle
<1>1. CASE CandidateStarts
  <2> DEFINE n == p.number + 1
  <2>1. p' = [p EXCEPT !.cand = TRUE, !.candTurn = n] /\ inp' = inp /\ timer' = timer
    BY <1>1 DEF CandidateStarts
  <2> HIDE DEF n
  <2>2. p'.number = p.number /\ p'.turn = p.turn /\ p'.closed = p.closed /\ p'.candTurn = n
    BY <1>0, <2>1 DEF PipelineSet
  <2>3. Ids(p', inp', timer') /\ NewId
    BY <2>1, <2>2 DEF IdInv, Ids, NewId, n
  <2> QED BY <2>3 DEF IdInv
<1>2. CASE CandidateCancelled \/ SpeechIgnored
  <2>1. p' = ClearCandidate(p) /\ inp' = inp /\ timer' = timer
    BY <1>2 DEF CandidateCancelled, SpeechIgnored
  <2>2. Kept(p, p')
    BY <1>0, <2>1, WindsDown
  <2> QED BY <1>0, <2>1, <2>2, KeptIds
<1>3. CASE SpeechStarts
  <2>1. p.cand /\ timer' = timer /\ p.candTurn = p.number + 1 /\ inp.pc = "ready"
    BY <1>3 DEF SpeechStarts, Hears, IdInv, Ids
  <2>2. CASE p.state = "idle" \/ p.att = 0
    <3>1. /\ p' = NewTurn(p, p.candTurn, IF p.state = "idle" THEN NoTurn ELSE p.turn, p.buf) /\ inp' = inp
          /\ (IF p.state = "idle" THEN NoTurn ELSE p.turn) \in 0 .. p.number \union {NoTurn}
      BY <1>0, <1>3, <2>2 DEF SpeechStarts
    <3> QED BY <1>0, <1>a, <2>1, <3>1, NewTurnIds
  <2>3. CASE ~(p.state = "idle" \/ p.att = 0)
    <3>1. p' = p /\ inp' = [pc |-> "barge", text |-> p.buf, turn |-> p.candTurn, old |-> p.turn]
      BY <1>3, <2>3 DEF SpeechStarts
    <3>2. Ids(p', inp', timer') /\ NewId
      BY <1>0, <2>1, <3>1 DEF IdInv, Ids, NewId
    <3> QED BY <3>2 DEF IdInv
  <2> QED BY <2>2, <2>3
<1>4. CASE BargeIn
  <2>1. inp.turn = p.number + 1 /\ inp.old \in 0 .. p.number \union {NoTurn}
    BY <1>4 DEF BargeIn, IdInv, Ids
  <2>2. p' = NewTurn(Cancelled, inp.turn, inp.old, inp.text) /\ inp' = Idle /\ timer' = timer
    BY <1>4 DEF BargeIn
  <2> QED BY <1>0, <1>a, <2>1, <2>2, NewTurnIds
<1>5. CASE SpeechEnds
  <2>1. p' = [p EXCEPT !.state = "awaiting_final"] /\ inp'.pc = "commit" /\ timer' = timer
    BY <1>5 DEF SpeechEnds, Idle
  <2>2. Kept(p, p')
    BY <1>0, <2>1 DEF Kept, PipelineSet
  <2> QED BY <1>0, <2>1, <2>2, KeptIds
<1>6. CASE Committed
  <2>1. p' = p /\ inp' = Idle /\ timer'.turn = p.turn
    BY <1>6 DEF Committed, Idle
  <2> QED BY <1>0, <1>a, <2>1, KeptIds
<1>7. CASE \E text \in conf.typed : Types(text)
  <2>1. PICK text \in conf.typed : Types(text)
    BY <1>7
  <2>2. inp.pc = "ready"
    BY <2>1 DEF Types, Hears
  <2>3. CASE p.att = 0
    <3>1. TypedFinal(p, A, text, Unanswered, IF conf.engaged THEN Idle ELSE resp) /\ inp' = inp
      BY <2>1, <2>3 DEF Types
    <3> QED BY <1>0, <1>a, <2>2, <3>1, TypedIds
  <2>4. CASE p.att # 0
    <3>1. p' = p /\ inp'.pc = "text" /\ timer' = timer
      BY <2>1, <2>4 DEF Types, Idle
    <3> QED BY <1>0, <1>a, <3>1, KeptIds
  <2> QED BY <2>3, <2>4
<1>8. CASE TypedSubmitted
  <2>1. TypedFinal(Cancelled, Dropped, inp.text, Rest, resp) /\ inp' = Idle
    BY <1>8 DEF TypedSubmitted
  <2> QED BY <1>0, <1>a, <2>1, TypedIds
<1> QED BY <1>1, <1>2, <1>3, <1>4, <1>5, <1>6, <1>7, <1>8

\* What the fields outside the ids are set to does not matter.
LEMMA SetKept ==
  ASSUME NEW q \in PipelineSet, NEW o, Kept(o, q), NEW s, NEW a, NEW f
  PROVE  /\ Kept(o, [q EXCEPT !.state = s]) /\ Kept(o, [q EXCEPT !.att = a, !.state = s])
         /\ Kept(o, [q EXCEPT !.final = f]) /\ Kept(o, [q EXCEPT !.last = f]) /\ Kept(o, [q EXCEPT !.buf = f])
         /\ Kept(o, [q EXCEPT !.handoff = f]) /\ Kept(o, [q EXCEPT !.ending = f])
BY DEF Kept, PipelineSet

LEMMA FinalIds ==
  ASSUME HeardInv, IdInv,
         \/ (\E t \in asked : FinalLost(t)) \/ (\E t \in asked : \E text \in Finals : FinalArrives(t, text))
         \/ FinalPublished \/ FreshAnswer \/ Answers
  PROVE  IdInv' /\ NewId
<1>0. p \in PipelineSet
  BY HeardIs
<1>a. Cancelled \in PipelineSet /\ Kept(p, Cancelled) /\ Kept(p, p) /\ Kept(p, TtsStart(p)) /\ Idle.turn = NoTurn
  BY <1>0, CancelledIs, CancelledKept, WindsDown DEF Idle
<1>1. inp' = inp /\ (timer' = timer \/ timer' = Idle)
  BY DEF FinalLost, FinalArrives, FinalPublished, FreshAnswer, Answers, GraceElapses, Authorize, Discard, Answer,
         ReleaseChunk, Released, ReleaseDrained
<1>2. Kept(p, p')
  <2>1. CASE \/ (\E t \in asked : FinalLost(t)) \/ (\E t \in asked : \E text \in Finals : FinalArrives(t, text))
    <3>1. p' = p \/ \E text \in Finals : p' = [p EXCEPT !.final = text]
      BY <2>1 DEF FinalLost, FinalArrives
    <3>2. ASSUME NEW text PROVE Kept(p, [p EXCEPT !.final = text])
      BY <1>0, <1>a, SetKept
    <3> QED BY <1>a, <3>1, <3>2
  <2>2. CASE FinalPublished \/ Authorize
    <3>1. p' = p \/ p' = [p EXCEPT !.state = "releasing"]
      BY <2>2 DEF FinalPublished, Authorize
    <3>2. Kept(p, [p EXCEPT !.state = "releasing"])
      BY <1>0, <1>a, SetKept
    <3> QED BY <1>a, <3>1, <3>2
  <2>3. CASE FreshAnswer
    <3>1. p' = [Cancelled EXCEPT !.att = NextAttempt, !.state = "releasing"]
      BY <2>3 DEF FreshAnswer
    <3> QED BY <1>a, <3>1, SetKept
  <2>4. CASE GraceElapses \/ Discard \/ Released
    BY <1>a, <2>4 DEF GraceElapses, Discard, Released
  <2>5. CASE Answer
    <3>1. p' = [p EXCEPT !.att = NextAttempt, !.state = "releasing"]
      BY <2>5 DEF Answer
    <3> QED BY <1>0, <1>a, <3>1, SetKept
  <2>6. CASE ReleaseChunk
    BY <1>a, <2>6 DEF ReleaseChunk
  <2>7. CASE ReleaseDrained
    BY <1>0, <2>7, WindsDown DEF ReleaseDrained
  <2> QED BY <2>1, <2>2, <2>3, <2>4, <2>5, <2>6, <2>7 DEF Answers
<1> QED BY <1>0, <1>a, <1>1, <1>2, KeptIds

LEMMA SpeculationIds ==
  ASSUME HeardInv, IdInv,
         \/ (\E text \in conf.heard : Partial(text)) \/ Revised \/ StableStale \/ Speculate \/ Respeculate
         \/ TimeoutStale \/ Timeout \/ TimeoutCancelled \/ Recovered
  PROVE  IdInv' /\ NewId
<1>0. p \in PipelineSet /\ timer.turn \in Nat /\ timer \in CoroutineSet({"armed", "cancel", "recover"})
  BY HeardIs DEF Times, CoroutineSet
<1>a. Cancelled \in PipelineSet /\ Kept(p, Cancelled) /\ Kept(p, p) /\ Idle.turn = NoTurn
  BY <1>0, CancelledIs, CancelledKept, WindsDown DEF Idle
<1>b. inp' = inp
  BY DEF Partial, Revised, StableStale, Speculate, Respeculate, TimeoutStale, Timeout, TimeoutCancelled, Recovered
<1>1. CASE \/ (\E text \in conf.heard : Partial(text)) \/ Revised \/ StableStale \/ Speculate \/ Respeculate \/ TimeoutStale
  <2>1. timer' = timer \/ timer' = Idle
    BY <1>1 DEF Partial, Revised, StableStale, Speculate, Respeculate, TimeoutStale
  <2>2. \/ p' = p \/ p' = Cancelled
        \/ (\E text \in conf.heard : p' = [p EXCEPT !.buf = text] \/ p' = [p EXCEPT !.last = text])
        \/ p' = [p EXCEPT !.att = NextAttempt, !.state = "speculating"]
        \/ p' = [Cancelled EXCEPT !.att = NextAttempt, !.state = "speculating"]
    BY <1>1 DEF Partial, Revised, StableStale, Speculate, Respeculate, TimeoutStale
  <2>3. /\ Kept(p, [p EXCEPT !.att = NextAttempt, !.state = "speculating"])
        /\ Kept(p, [Cancelled EXCEPT !.att = NextAttempt, !.state = "speculating"])
    BY <1>0, <1>a, SetKept
  <2>4. ASSUME NEW text PROVE Kept(p, [p EXCEPT !.buf = text]) /\ Kept(p, [p EXCEPT !.last = text])
    BY <1>0, <1>a, SetKept
  <2>5. Kept(p, p')
    BY <1>a, <2>2, <2>3, <2>4
  <2> QED BY <1>0, <1>a, <1>b, <2>1, <2>5, KeptIds
<1>2. CASE Timeout
  <2>1. p' = p \/ p' = [p EXCEPT !.state = "recovering_stt"]
    BY <1>2 DEF Timeout
  <2>2. timer'.turn = timer.turn
    BY <1>0, <1>2 DEF Timeout, CoroutineSet
  <2>a. Kept(p, [p EXCEPT !.state = "recovering_stt"])
    BY <1>0, <1>a, SetKept
  <2>3. Kept(p, p')
    BY <1>a, <2>1, <2>a
  <2> QED BY <1>0, <1>b, <2>2, <2>3, KeptIds
<1>3. CASE TimeoutCancelled
  <2>1. p' = [Cancelled EXCEPT !.state = "recovering_stt"]
    BY <1>3 DEF TimeoutCancelled
  <2> DEFINE t == Cancelled.turn
  <2>2. timer' = [timer EXCEPT !.pc = "recover", !.turn = t]
    BY <1>3 DEF TimeoutCancelled
  <2>3. t \in {p.turn, NoTurn}
    BY <1>a DEF Kept
  <2> HIDE DEF t
  <2>4. timer'.turn = t
    BY <1>0, <2>2 DEF CoroutineSet
  <2>5. Kept(p, p')
    BY <1>a, <2>1, SetKept
  <2> QED BY <1>0, <1>b, <2>3, <2>4, <2>5, KeptIds
<1>4. CASE Recovered
  <2> DEFINE c == IF timer.turn = NoTurn THEN p.closed ELSE p.closed \union {timer.turn}
  <2>1. p' = [p EXCEPT !.state = "idle", !.turn = NoTurn, !.closed = c] /\ timer' = Idle
    BY <1>4 DEF Recovered
  <2>2. c \subseteq 0 .. p.number
    BY DEF IdInv, Ids
  <2> HIDE DEF c
  <2>3. p'.number = p.number /\ p'.turn = NoTurn /\ p'.closed = c /\ p'.cand = p.cand /\ p'.candTurn = p.candTurn
    BY <1>0, <2>1 DEF PipelineSet
  <2>4. Ids(p', inp', timer') /\ NewId
    BY <1>a, <1>b, <2>1, <2>2, <2>3 DEF IdInv, Ids, NewId
  <2> QED BY <2>4 DEF IdInv
<1> QED BY <1>1, <1>2, <1>3, <1>4

\* A call that is over has no turn.
LEMMA EndedIds ==
  ASSUME Close
  PROVE  IdInv' /\ NewId
<1>1. p' = [New EXCEPT !.over = TRUE] /\ inp' = Idle /\ timer' = Idle
  BY DEF Close
<1>2. p'.number = 0 /\ p'.turn = NoTurn /\ p'.closed = {} /\ p'.cand = FALSE /\ inp'.pc = "ready" /\ timer'.turn = NoTurn
  BY <1>1 DEF New, Idle
<1>3. Ids(p', inp', timer') /\ NewId
  BY <1>2 DEF Ids, NewId
<1> QED BY <1>3 DEF IdInv

LEMMA GenerationIds ==
  ASSUME HeardInv, IdInv, (\E a \in Attempts : Generates(a)) \/ OpeningStarts \/ Announce \/ HangUp
  PROVE  IdInv' /\ NewId
<1>0. p \in PipelineSet /\ p.number \in Nat
  BY HeardIs DEF PipelineSet
<1>a. Kept(p, p) /\ Kept(p, TtsStart(p)) /\ \A cap : FinishPlayout(p, A, cap) \in PipelineSet /\ Kept(p, FinishPlayout(p, A, cap))
  BY <1>0, WindsDown, TtsIs
<1>1. ASSUME NEW a \in Attempts, Generates(a) PROVE IdInv' /\ NewId
  <2>1. CASE CallEnds(a)
    BY <2>1, EndedIds DEF CallEnds
  <2>2. CASE ~CallEnds(a)
    <3>1. \/ GenChunk(a) \/ GenComplete(a) \/ GenError(a) \/ GenDrained(a) \/ TransferConnects(a) \/ TransferFails(a)
          \/ Apologized(a) \/ OpeningEnds(a) \/ \E tool \in conf.tools : GenTool(a, tool)
      BY <1>1, <2>2 DEF Generates
    <3>2. inp' = inp /\ timer' = timer
      <4>1. UNCHANGED Others
        BY <3>1 DEF GenChunk, GenComplete, GenError, GenDrained, TransferConnects, TransferFails, Apologized, OpeningEnds, GenTool
      <4> QED BY <4>1 DEF Others
    <3>3. CASE GenChunk(a) \/ GenComplete(a) \/ GenError(a) \/ TransferFails(a)
      <4>1. p' = p \/ p' = TtsStart(p)
        BY <3>3 DEF GenChunk, SentOrHeld, GenComplete, GenError, TransferFails
      <4> QED BY <1>0, <1>a, <3>2, <4>1, KeptIds
    <3>4. CASE GenDrained(a)
      <4> DEFINE q == FinishPlayout(p, A, A[a].cap)
      <4>1. q \in PipelineSet /\ Kept(p, q)
        BY <1>a
      <4>2. p' = q \/ p' = [q EXCEPT !.handoff = "progress"]
        BY <3>4 DEF GenDrained
      <4> HIDE DEF q
      <4>a. Kept(p, [q EXCEPT !.handoff = "progress"])
        BY <4>1, SetKept
      <4>3. Kept(p, p')
        BY <4>1, <4>2, <4>a
      <4> QED BY <1>0, <3>2, <4>3, KeptIds
    <3>5. CASE TransferConnects(a) \/ \E tool \in conf.tools : GenTool(a, tool)
      <4>1. p' = p \/ p' = [p EXCEPT !.handoff = "active"] \/ p' = [p EXCEPT !.ending = TRUE]
        BY <3>5 DEF TransferConnects, GenTool
      <4>a. Kept(p, [p EXCEPT !.handoff = "active"]) /\ Kept(p, [p EXCEPT !.ending = TRUE])
        BY <1>0, <1>a, SetKept
      <4>2. Kept(p, p')
        BY <1>a, <4>1, <4>a
      <4> QED BY <1>0, <3>2, <4>2, KeptIds
    <3>6. CASE Apologized(a)
      <4> DEFINE q == FinishPlayout(p, A, A[a].cap)
      <4>1. q \in PipelineSet /\ Kept(p, q)
        BY <1>a
      <4>2. p' = [q EXCEPT !.handoff = "no"]
        BY <3>6 DEF Apologized
      <4> HIDE DEF q
      <4>3. Kept(p, p')
        BY <4>1, <4>2, SetKept
      <4> QED BY <1>0, <3>2, <4>3, KeptIds
    <3>7. CASE OpeningEnds(a)
      <4> DEFINE c == p.closed \union {Opening}
                 b == p.playing /\ A[a].pc = "done"
      <4>1. p' = [p EXCEPT !.state = "idle", !.turn = NoTurn, !.att = 0, !.closed = c, !.playing = b] /\ p.turn = Opening
        BY <3>7 DEF OpeningEnds
      <4>2. Opening # NoTurn
        BY TurnsAssumption DEF Opening, NoTurn
      <4>3. c \subseteq p.closed \union ({p.turn} \ {NoTurn})
        BY <4>1, <4>2
      <4> HIDE DEF c, b
      <4>4. Kept(p, p')
        BY <1>0, <4>1, <4>3 DEF Kept, PipelineSet
      <4> QED BY <1>0, <3>2, <4>4, KeptIds
    <3> QED BY <3>1, <3>3, <3>4, <3>5, <3>6, <3>7
  <2> QED BY <2>1, <2>2
<1>2. CASE OpeningStarts
  <2>1. p' = [p EXCEPT !.turn = Opening, !.att = NextAttempt, !.state = "generating"] /\ inp' = inp /\ timer' = timer
    BY <1>2 DEF OpeningStarts, Others
  <2>2. p'.number = p.number /\ p'.turn = Opening /\ p'.closed = p.closed /\ p'.cand = p.cand /\ p'.candTurn = p.candTurn
    BY <1>0, <2>1 DEF PipelineSet
  <2>3. Ids(p', inp', timer') /\ NewId
    BY <1>0, <2>1, <2>2 DEF IdInv, Ids, NewId, Opening
  <2> QED BY <2>3 DEF IdInv
<1>3. CASE Announce
  <2>1. p' = TtsStart(p) /\ inp' = inp /\ timer' = timer
    BY <1>3 DEF Announce
  <2> QED BY <1>0, <1>a, <2>1, KeptIds
<1>4. CASE HangUp
  BY <1>4, EndedIds DEF HangUp
<1> QED BY <1>1, <1>2, <1>3, <1>4

\* A turn that begins has an id no earlier turn had: nothing that happens
\* between the computation of the candidate's id and the confirmation of the
\* speech, or during the cancellation a barge-in waits for, opens a turn with
\* the same id, and _final_timeout, the end of a playback and the opening only
\* close ids already given (the first part of FloorKept).
THEOREM NewIdHolds == Spec => [][NewId]_vars
<1>1. Init => IdInv
  BY DEF Init, New, Idle, IdInv, Ids
<1>2. HeardInv /\ IdInv /\ [Next]_vars => IdInv' /\ [NewId]_vars
  <2> SUFFICES ASSUME HeardInv, IdInv, [Next]_vars PROVE IdInv' /\ [NewId]_vars
    OBVIOUS
  <2>1. CASE UNCHANGED vars
    BY <2>1 DEF vars, IdInv, Ids
  <2>2. CASE Next
    BY <2>2, InputIds, FinalIds, SpeculationIds, GenerationIds DEF Next
  <2> QED BY <2>1, <2>2
<1> QED BY <1>1, <1>2, HeardInvariance, PTL DEF Spec
=============================================================================
