---------------------------- MODULE SpeechProofs ----------------------------
(***************************************************************************)
(* Proofs about Speech for every set of calls and every bound: what the      *)
(* agent says is said once, and the noise filter keeps the caller's audio.   *)
(***************************************************************************)
EXTENDS Speech, SequenceTheorems, TLAPS

-----------------------------------------------------------------------------
(* The synthesizer                                                          *)

LEMMA NewSentence ==
  ASSUME NEW n \in Nat, NEW v \in Voices
  PROVE  /\ Sentence(n, v) \in StreamSet /\ Sentence(n, v).n = n /\ Sentence(n, v).voice = v
         /\ Sentence(n, v).at = "request" /\ Sentence(n, v).pushed = 0 /\ Sentence(n, v).got = 0
  BY DEF Sentence, StreamSet

\* Nothing is pushed: the sentence goes on, or a later one begins.
LEMMA Unheard ==
  ASSUME SpokenInv, UNCHANGED heard, stream' \in StreamSet, voice' \in Voices, stream'.voice = voice',
         stream'.pushed <= stream'.got, voice = "default" => voice' = "default",
         \/ stream'.n > stream.n
         \/ stream'.n = stream.n /\ stream'.at = "request" /\ stream.at = "request"
         \/ stream'.n = stream.n /\ stream'.at # "request"
              /\ (stream.at = "request" \/ stream'.pushed >= stream.pushed)
  PROVE  SpokenInv'
<1>1. stream.n \in Nat /\ stream'.n \in Nat /\ stream.pushed \in Nat /\ stream'.pushed \in Nat
  BY DEF SpokenInv, StreamSet
<1>2. heard \in Seq(FrameSet) /\ SpokenOnce
  BY DEF SpokenInv
<1>3. ASSUME NEW i \in DOMAIN heard
      PROVE  /\ heard[i].n <= stream'.n
             /\ heard[i].n = stream'.n => stream'.at # "request" /\ heard[i].frame <= stream'.pushed
             /\ heard[i].voice = "default" => voice' = "default"
  <2>1. /\ heard[i].n <= stream.n
        /\ heard[i].n = stream.n => stream.at # "request" /\ heard[i].frame <= stream.pushed
        /\ heard[i].voice = "default" => voice = "default"
    BY DEF SpokenInv
  <2>2. heard[i] \in FrameSet
    BY <1>2
  <2>3. heard[i].n \in Nat /\ heard[i].frame \in Nat
    BY <2>2 DEF FrameSet
  <2> QED BY <1>1, <2>3, <2>1, <2>2
<1>4. SpokenOnce'
  BY <1>2 DEF SpokenOnce
<1> QED BY <1>2, <1>3, <1>4 DEF SpokenInv

\* The next frames of the sentence are pushed.
LEMMA PushKeeps ==
  ASSUME SpokenInv, stream.at = "body", NEW to \in Nat, stream.pushed <= to, Push(to), UNCHANGED voice,
         stream' \in StreamSet, stream'.n = stream.n, stream'.voice = stream.voice, stream'.at # "request",
         stream'.pushed = to, to <= stream'.got
  PROVE  SpokenInv'
<1>1. /\ voice \in Voices /\ stream \in StreamSet /\ heard \in Seq(FrameSet) /\ stream.voice = voice /\ SpokenOnce
      /\ \A i \in DOMAIN heard :
           /\ heard[i].n <= stream.n
           /\ heard[i].n = stream.n => heard[i].frame <= stream.pushed
           /\ heard[i].voice = "default" => voice = "default"
  BY DEF SpokenInv
<1> DEFINE k == to - stream.pushed
           new == [i \in 1..k |-> [n |-> stream.n, frame |-> stream.pushed + i, voice |-> stream.voice]]
           len == Len(heard)
<1>2. stream.n \in Nat /\ stream.pushed \in Nat /\ stream.voice \in Voices /\ len \in Nat
  BY <1>1 DEF StreamSet
<1>3. k \in Nat /\ heard' = heard \o new
  BY <1>2 DEF Push
<1>4. /\ new \in Seq(FrameSet) /\ Len(new) = k
      /\ \A i \in 1..k : new[i].n = stream.n /\ new[i].frame = stream.pushed + i /\ new[i].voice = stream.voice
  <2>1. \A i \in 1..k : [n |-> stream.n, frame |-> stream.pushed + i, voice |-> stream.voice] \in FrameSet
    BY <1>2, <1>3 DEF FrameSet
  <2> QED BY <1>3, <2>1
<1> HIDE DEF k, new
<1>5. /\ heard' \in Seq(FrameSet) /\ Len(heard') = len + k
      /\ \A i \in 1..len : heard'[i] = heard[i]
      /\ \A i \in 1..(len + k) : i > len => i - len \in 1..k /\ heard'[i] = new[i - len]
  <2>1. heard' \in Seq(FrameSet) /\ Len(heard') = len + k
    BY <1>1, <1>3, <1>4
  <2>2. ASSUME NEW i \in 1..len PROVE heard'[i] = heard[i]
    BY <1>1, <1>3, <1>4
  <2>3. ASSUME NEW i \in 1..(len + k), i > len PROVE i - len \in 1..k /\ heard'[i] = new[i - len]
    <3>1. i - len \in 1..k
      BY <1>2, <1>3, <2>3
    <3>2. i \in 1..(Len(heard) + Len(new)) /\ i > Len(heard)
      BY <1>4, <2>3
    <3> QED BY <1>1, <1>3, <1>4, <3>1, <3>2
  <2> QED BY <2>1, <2>2, <2>3
<1>6. DOMAIN heard' = 1..(len + k) /\ DOMAIN heard = 1..len
  BY <1>1, <1>5
<1> HIDE DEF len
<1>7. ASSUME NEW i \in DOMAIN heard'
      PROVE  \/ i \in DOMAIN heard /\ i <= len /\ heard'[i] = heard[i] /\ heard[i] \in FrameSet
             \/ /\ i > len /\ heard'[i].n = stream.n /\ heard'[i].frame = stream.pushed + (i - len)
                /\ i - len \in 1..k /\ heard'[i].voice = voice
  <2>1. i \in 1..(len + k)
    BY <1>6
  <2>2. CASE i \in 1..len
    BY <1>1, <1>2, <1>5, <1>6, <2>2
  <2>3. CASE i > len
    BY <1>1, <1>4, <1>5, <2>1, <2>3
  <2> QED BY <1>2, <1>3, <2>1, <2>2, <2>3
<1>8. ASSUME NEW i \in DOMAIN heard'
      PROVE  /\ heard'[i].n <= stream'.n
             /\ heard'[i].n = stream'.n => stream'.at # "request" /\ heard'[i].frame <= stream'.pushed
             /\ heard'[i].voice = "default" => voice' = "default"
  <2>1. CASE i \in DOMAIN heard /\ heard'[i] = heard[i] /\ heard[i] \in FrameSet
    <3>1. heard[i].n \in Nat /\ heard[i].frame \in Nat
      BY <2>1 DEF FrameSet
    <3> QED BY <1>1, <1>2, <2>1, <3>1
  <2>2. CASE /\ heard'[i].n = stream.n /\ heard'[i].frame = stream.pushed + (i - len)
             /\ i - len \in 1..k /\ heard'[i].voice = voice
    BY <1>2, <2>2 DEF k
  <2> QED BY <1>7, <2>1, <2>2
<1>9. SpokenOnce'
  <2> SUFFICES ASSUME NEW i \in DOMAIN heard', NEW j \in DOMAIN heard', i < j
               PROVE  /\ \/ heard'[i].n < heard'[j].n
                         \/ heard'[i].n = heard'[j].n /\ heard'[i].frame < heard'[j].frame
                      /\ heard'[i].voice = "default" => heard'[j].voice = "default"
    BY DEF SpokenOnce
  <2>0. i \in Nat /\ j \in Nat
    BY <1>2, <1>3, <1>6
  <2>1. CASE j \in DOMAIN heard /\ j <= len /\ heard'[j] = heard[j]
    <3>1. i \in DOMAIN heard /\ heard'[i] = heard[i]
      BY <1>2, <1>7, <2>0, <2>1
    <3> QED BY <1>1, <2>1, <3>1 DEF SpokenOnce
  <2>2. CASE /\ j > len /\ heard'[j].n = stream.n /\ heard'[j].frame = stream.pushed + (j - len)
             /\ j - len \in 1..k /\ heard'[j].voice = voice
    <3>1. CASE i \in DOMAIN heard /\ heard'[i] = heard[i] /\ heard[i] \in FrameSet
      <4>1. heard[i].n \in Nat /\ heard[i].frame \in Nat
        BY <3>1 DEF FrameSet
      <4> QED BY <1>1, <1>2, <2>2, <3>1, <4>1
    <3>2. CASE /\ i > len /\ heard'[i].n = stream.n /\ heard'[i].frame = stream.pushed + (i - len)
               /\ heard'[i].voice = voice
      BY <1>2, <2>0, <2>2, <3>2
    <3> QED BY <1>7, <3>1, <3>2
  <2> QED BY <1>7, <2>1, <2>2
<1>10. stream'.voice = voice' /\ voice' \in Voices /\ stream'.pushed <= stream'.got
  BY <1>1
<1> QED BY <1>5, <1>8, <1>9, <1>10 DEF SpokenInv

LEMMA SynthesizerKeeps ==
  ASSUME SpokenInv, SynthesizerNext
  PROVE  SpokenInv'
<1>1. /\ voice \in Voices /\ stream \in StreamSet /\ stream.voice = voice /\ stream.pushed <= stream.got
      /\ stream.n \in Nat /\ stream.pushed \in Nat /\ stream.got \in Nat /\ stream.attempt \in Nat
  BY DEF SpokenInv, StreamSet
<1>2. "default" \in Voices
  BY DEF Voices
<1>3. CASE Synthesize
  <2>1. stream' = Sentence(stream.n + 1, voice) /\ UNCHANGED <<voice, heard>>
    BY <1>3 DEF Synthesize
  <2>2. /\ stream' \in StreamSet /\ stream'.n = stream.n + 1 /\ stream'.voice = voice
        /\ stream'.pushed = 0 /\ stream'.got = 0
    BY <1>1, <2>1, NewSentence
  <2>3. stream'.n > stream.n /\ stream'.pushed <= stream'.got
    BY <1>1, <2>2
  <2> QED BY <1>1, <2>1, <2>2, <2>3, Unheard
<1>4. ASSUME stream' = [stream EXCEPT !.at = "over"], UNCHANGED <<voice, heard>> PROVE SpokenInv'
  <2>1. /\ stream' \in StreamSet /\ stream'.n = stream.n /\ stream'.voice = stream.voice /\ stream'.at # "request"
        /\ stream'.pushed = stream.pushed /\ stream'.got = stream.got
    BY <1>1, <1>4 DEF StreamSet
  <2>2. stream'.pushed >= stream.pushed
    BY <1>1, <2>1
  <2> QED BY <1>1, <1>4, <2>1, <2>2, Unheard
<1>5. CASE StatusError
  <2>1. stream.at = "request" /\ UNCHANGED heard
    BY <1>5 DEF StatusError
  <2>2. CASE stream' = [stream EXCEPT !.attempt = @ + 1] /\ UNCHANGED voice
    <3>1. /\ stream' \in StreamSet /\ stream'.n = stream.n /\ stream'.voice = stream.voice /\ stream'.at = stream.at
          /\ stream'.pushed = stream.pushed /\ stream'.got = stream.got
      BY <1>1, <2>2 DEF StreamSet
    <3> QED BY <1>1, <2>1, <2>2, <3>1, Unheard
  <2>3. CASE stream' = [stream EXCEPT !.voice = "default", !.attempt = 1] /\ voice' = "default"
    <3>1. /\ stream' \in StreamSet /\ stream'.n = stream.n /\ stream'.voice = "default" /\ stream'.at = stream.at
          /\ stream'.pushed = stream.pushed /\ stream'.got = stream.got
      BY <1>1, <1>2, <2>3 DEF StreamSet
    <3> QED BY <1>1, <1>2, <2>1, <2>3, <3>1, Unheard
  <2>4. CASE stream' = [stream EXCEPT !.at = "over"] /\ UNCHANGED voice
    BY <1>4, <2>1, <2>4
  <2> QED BY <1>5, <2>2, <2>3, <2>4 DEF StatusError, Fails, FallBack
<1>6. CASE Responds
  <2>1. stream.at = "request" /\ stream' = [stream EXCEPT !.at = "body", !.got = 0, !.pushed = 0] /\ UNCHANGED <<voice, heard>>
    BY <1>6 DEF Responds
  <2>2. /\ stream' \in StreamSet /\ stream'.n = stream.n /\ stream'.voice = stream.voice /\ stream'.at # "request"
        /\ stream'.pushed = 0 /\ stream'.got = 0
    BY <1>1, <2>1 DEF StreamSet
  <2>3. stream'.pushed <= stream'.got
    BY <2>2
  <2> QED BY <1>1, <2>1, <2>2, <2>3, Unheard
<1>7. CASE ReceivesAudio
  <2> DEFINE got == stream.got + 1
             to == IF stream.pushed > 0 \/ got >= InitialBuffer THEN got ELSE 0
  <2>1. /\ stream.at = "body" /\ stream' = [stream EXCEPT !.got = got, !.pushed = to]
        /\ Push(to) /\ UNCHANGED voice
    BY <1>7 DEF ReceivesAudio
  <2>2. got \in Nat /\ to \in Nat /\ stream.pushed <= to /\ to <= got
    BY <1>1
  <2> HIDE DEF got, to
  <2>3. /\ stream' \in StreamSet /\ stream'.n = stream.n /\ stream'.voice = stream.voice /\ stream'.at = stream.at
        /\ stream'.pushed = to /\ stream'.got = got
    BY <1>1, <2>1, <2>2 DEF StreamSet
  <2> QED BY <2>1, <2>2, <2>3, PushKeeps
<1>8. CASE BodyEnds
  <2>1. /\ stream.at = "body" /\ stream' = [stream EXCEPT !.at = "over", !.pushed = stream.got]
        /\ Push(stream.got) /\ UNCHANGED voice
    BY <1>8 DEF BodyEnds
  <2>2. /\ stream' \in StreamSet /\ stream'.n = stream.n /\ stream'.voice = stream.voice /\ stream'.at # "request"
        /\ stream'.pushed = stream.got /\ stream'.got = stream.got
    BY <1>1, <2>1 DEF StreamSet
  <2>3. stream.got <= stream'.got
    BY <1>1, <2>2
  <2> QED BY <1>1, <2>1, <2>2, <2>3, PushKeeps
<1>9. CASE BreaksOff \/ Interrupts
  BY <1>4, <1>9 DEF BreaksOff, Unreached, Interrupts, Fails
<1> QED BY <1>3, <1>5, <1>6, <1>7, <1>8, <1>9 DEF SynthesizerNext

LEMMA SpokenInit ==
  ASSUME Init
  PROVE  SpokenInv
<1>1. voice \in Voices /\ heard = <<>> /\ stream = [Sentence(0, voice) EXCEPT !.at = "over"]
  BY DEF Init, SynthesizerInit, Voices
<1>2. /\ stream \in StreamSet /\ stream.voice = voice /\ stream.pushed = 0 /\ stream.got = 0
  BY <1>1 DEF Sentence, StreamSet
<1>3. stream.pushed <= stream.got
  BY <1>2
<1>4. heard \in Seq(FrameSet) /\ DOMAIN heard = {}
  BY <1>1
<1> QED BY <1>1, <1>2, <1>3, <1>4 DEF SpokenInv, SpokenOnce

LEMMA SpokenStays ==
  ASSUME SpokenInv, UNCHANGED svars
  PROVE  SpokenInv'
BY DEF SpokenInv, SpokenOnce, svars

\* The agent's frames are heard once, in order, and never again in a voice the
\* session has left: for every number of sentences, retries and frames and every
\* initial buffer of OdionTTS.
THEOREM SpokenOnceHolds == Spec => []SpokenOnce
<1>1. Init => SpokenInv
  BY SpokenInit
<1>2. SpokenInv /\ [Next]_vars => SpokenInv'
  <2> SUFFICES ASSUME SpokenInv, [Next]_vars PROVE SpokenInv'
    OBVIOUS
  <2>1. CASE SynthesizerNext
    BY <2>1, SynthesizerKeeps
  <2>2. CASE UNCHANGED svars
    BY <2>2, SpokenStays
  <2> QED BY <2>1, <2>2 DEF Next, Transcribing, Synthesizing, Filtering, vars
<1>3. SpokenInv => SpokenOnce
  BY DEF SpokenInv
<1> QED BY <1>1, <1>2, <1>3, PTL DEF Spec

-----------------------------------------------------------------------------
(* The noise filter                                                         *)

\* The whole blocks of a length: no more than it, and less than a block short.
LEMMA WholeBlocks ==
  ASSUME NEW n \in Nat
  PROVE  LET size == (n \div Block) * Block IN
         /\ size \in Nat /\ size <= n /\ n - size < Block
         /\ size = 0 => n < Block
<1>1. Block \in Nat /\ Block > 0
  BY NoiseAssumption
<1>2. n \div Block \in Nat
  BY <1>1
<1>3. (n \div Block) * Block <= n /\ n - (n \div Block) * Block < Block
  BY <1>1
<1>4. (n \div Block) * Block \in Nat
  BY <1>1, <1>2
<1> QED BY <1>1, <1>3, <1>4

LEMMA OneBlock == (Block \div Block) * Block = Block
<1>1. Block \in Nat /\ Block > 0
  BY NoiseAssumption
<1>2. Block \div Block = 1
  BY <1>1
<1> QED BY <1>1, <1>2

\* A sequence cut in two and joined again is itself.
LEMMA CutAndJoined ==
  ASSUME NEW s \in Seq(Nat), NEW k \in 0..Len(s)
  PROVE  /\ SubSeq(s, 1, k) \in Seq(Nat) /\ SubSeq(s, k + 1, Len(s)) \in Seq(Nat)
         /\ Len(SubSeq(s, k + 1, Len(s))) = Len(s) - k
         /\ SubSeq(s, 1, k) \o SubSeq(s, k + 1, Len(s)) = s
<1>1. Len(s) \in Nat /\ \A i \in 1..Len(s) : s[i] \in Nat
  OBVIOUS
<1>2. SubSeq(s, 1, k) \in Seq(Nat)
  <2>1. \A i \in 1..k : s[i] \in Nat
    BY <1>1
  <2> QED BY <1>1, <2>1, SubSeqProperties
<1>3. SubSeq(s, k + 1, Len(s)) \in Seq(Nat) /\ Len(SubSeq(s, k + 1, Len(s))) = Len(s) - k
  <2>1. k + 1 \in Int /\ Len(s) \in Int /\ \A i \in (k + 1)..Len(s) : s[i] \in Nat
    BY <1>1
  <2>2. /\ SubSeq(s, k + 1, Len(s)) \in Seq(Nat)
        /\ Len(SubSeq(s, k + 1, Len(s))) = IF k + 1 <= Len(s) THEN Len(s) - (k + 1) + 1 ELSE 0
    BY ONLY <2>1, SubSeqProperties
  <2>3. (IF k + 1 <= Len(s) THEN Len(s) - (k + 1) + 1 ELSE 0) = Len(s) - k
    BY <1>1
  <2> QED BY <2>2, <2>3
<1>4. SubSeq(s, 1, k) \o SubSeq(s, k + 1, Len(s)) = SubSeq(s, 1, Len(s))
  <2>1. 1 \in 1..(Len(s) + 1) /\ k \in (1 - 1)..Len(s) /\ Len(s) \in k..Len(s)
    BY <1>1
  <2> QED BY <2>1, ConcatAdjacentSubSeq
<1> QED BY <1>2, <1>3, <1>4, SubSeqFull

\* What the filter puts out and what it holds back are what it held and what
\* came in; it holds less than a block, and nothing once it is off.
LEMMA ProcessKeeps ==
  ASSUME NEW f \in FilterSet, NEW pcm \in Seq(Nat), NEW fails \in BOOLEAN,
         Len(f.pending) < Block, ~f.enabled => f.pending = <<>>
  PROVE  LET r == Process(f, pcm, fails) IN
         /\ r.f \in FilterSet /\ r.f.in = f.in /\ r.f.out = f.out /\ r.f.finished = f.finished
         /\ r.out \in Seq(Nat) /\ r.out \o r.f.pending = f.pending \o pcm
         /\ Len(r.f.pending) < Block /\ (~r.f.enabled => r.f.pending = <<>>)
         /\ Len(f.pending \o pcm) = Block => r.f.pending = <<>>
<1> DEFINE r == Process(f, pcm, fails)
           all == f.pending \o pcm
           size == (Len(all) \div Block) * Block
           rest == SubSeq(all, size + 1, Len(all))
           first == SubSeq(all, 1, size)
<1>0. Block \in Nat /\ Block > 0 /\ <<>> \in Seq(Nat) /\ Len(<<>>) = 0 /\ f.pending \in Seq(Nat)
  BY NoiseAssumption DEF FilterSet
<1>1. all \in Seq(Nat) /\ Len(all) \in Nat
  BY <1>0
<1> HIDE DEF all
<1>2. /\ size \in Nat /\ size <= Len(all) /\ Len(all) - size < Block /\ (size = 0 => Len(all) < Block)
  BY <1>1, WholeBlocks
<1>2a. Len(all) = Block => size = Block
  BY OneBlock
<1>2b. size \in 0..Len(all)
  BY <1>1, <1>2
<1> HIDE DEF size
<1>3. first \in Seq(Nat) /\ rest \in Seq(Nat) /\ Len(rest) = Len(all) - size /\ first \o rest = all
  BY <1>1, <1>2b, CutAndJoined
<1> HIDE DEF first, rest
<1>4. CASE ~f.enabled
  <2>1. r = [f |-> f, out |-> pcm] /\ f.pending = <<>>
    BY <1>4 DEF Process
  <2>2. r.f = f /\ r.out = pcm
    BY <2>1
  <2>3. r.out \o r.f.pending = all
    BY <2>1, <2>2, ConcatEmptySeq DEF all
  <2> QED BY <1>0, <2>1, <2>2, <2>3 DEF all
<1>5. CASE f.enabled /\ size = 0
  <2>1. r = [f |-> [f EXCEPT !.pending = all], out |-> <<>>]
    BY <1>5 DEF Process, ProcessApm, all, size
  <2> DEFINE g == [f EXCEPT !.pending = all]
  <2>2. /\ g \in FilterSet /\ g.in = f.in /\ g.out = f.out /\ g.finished = f.finished /\ g.pending = all /\ g.enabled = f.enabled
    BY <1>1 DEF FilterSet
  <2>2a. r.f = g /\ r.out = <<>>
    BY <2>1
  <2> HIDE DEF g
  <2>3. r.out \o r.f.pending = all
    BY <1>1, <2>2, <2>2a, ConcatEmptySeq
  <2>4. Len(all) < Block /\ Len(all) # Block
    BY <1>0, <1>1, <1>2, <1>5
  <2> QED BY <1>0, <1>5, <2>2, <2>2a, <2>3, <2>4 DEF all
<1>6. CASE f.enabled /\ size # 0 /\ fails
  <2>1. r = [f |-> [f EXCEPT !.enabled = FALSE, !.pending = <<>>], out |-> all]
    BY <1>6 DEF Process, ProcessApm, all, size
  <2> DEFINE g == [f EXCEPT !.enabled = FALSE, !.pending = <<>>]
  <2>2. /\ g \in FilterSet /\ g.in = f.in /\ g.out = f.out /\ g.finished = f.finished /\ g.pending = <<>>
    BY <1>0 DEF FilterSet
  <2>2a. r.f = g /\ r.out = all
    BY <2>1
  <2> HIDE DEF g
  <2>3. r.out \o r.f.pending = all
    BY <1>1, <2>2, <2>2a, ConcatEmptySeq
  <2> QED BY <1>0, <1>1, <2>2, <2>2a, <2>3 DEF all
<1>7. CASE f.enabled /\ size # 0 /\ ~fails
  <2>1. r = [f |-> [f EXCEPT !.pending = rest], out |-> first]
    BY <1>7 DEF Process, ProcessApm, all, size, rest, first
  <2> DEFINE g == [f EXCEPT !.pending = rest]
  <2>2. /\ g \in FilterSet /\ g.in = f.in /\ g.out = f.out /\ g.finished = f.finished /\ g.pending = rest /\ g.enabled = f.enabled
    BY <1>3 DEF FilterSet
  <2>2a. r.f = g /\ r.out = first
    BY <2>1
  <2> HIDE DEF g
  <2>3. Len(rest) < Block
    BY <1>2, <1>3
  <2>4. Len(all) = Block => rest = <<>>
    <3> SUFFICES ASSUME Len(all) = Block PROVE rest = <<>>
      OBVIOUS
    <3>1. Len(rest) = 0
      BY <1>0, <1>2a, <1>3
    <3> QED BY <1>3, <3>1
  <2> QED BY <1>3, <1>7, <2>2, <2>2a, <2>3, <2>4 DEF all
<1> QED BY <1>4, <1>5, <1>6, <1>7 DEF r

\* The units 1..n, and then m more.
LEMMA UnitsJoined ==
  ASSUME NEW n \in Nat, NEW m \in Nat
  PROVE  /\ [i \in 1..m |-> n + i] \in Seq(Nat) /\ [i \in 1..n |-> i] \in Seq(Nat)
         /\ [i \in 1..n |-> i] \o [i \in 1..m |-> n + i] = [i \in 1..(n + m) |-> i]
<1> DEFINE a == [i \in 1..n |-> i]
           b == [i \in 1..m |-> n + i]
           c == [i \in 1..(n + m) |-> i]
<1>1. a \in Seq(Nat) /\ Len(a) = n /\ \A i \in 1..n : a[i] = i
  OBVIOUS
<1>2. b \in Seq(Nat) /\ Len(b) = m /\ \A i \in 1..m : b[i] = n + i
  OBVIOUS
<1>3. n + m \in Nat /\ c \in Seq(Nat) /\ Len(c) = n + m /\ \A i \in 1..(n + m) : c[i] = i
  OBVIOUS
<1> HIDE DEF a, b, c
<1>4. /\ a \o b \in Seq(Nat) /\ Len(a \o b) = n + m
      /\ \A i \in 1..(n + m) : (a \o b)[i] = IF i <= n THEN a[i] ELSE b[i - n]
  BY <1>1, <1>2, ConcatProperties
<1>5. ASSUME NEW i \in 1..(n + m) PROVE (a \o b)[i] = c[i]
  <2>1. CASE i <= n
    BY <1>1, <1>3, <1>4, <2>1
  <2>2. CASE i > n
    <3>1. i - n \in 1..m
      BY <2>2
    <3>2. (a \o b)[i] = b[i - n] /\ b[i - n] = n + (i - n)
      BY <1>2, <1>4, <2>2, <3>1
    <3> QED BY <1>3, <3>2
  <2>3. i <= n \/ i > n
    OBVIOUS
  <2> QED BY <2>1, <2>2, <2>3
<1>6. a \o b = c
  BY <1>3, <1>4, <1>5, SeqEqual
<1> QED BY <1>1, <1>2, <1>6 DEF a, b, c

LEMMA Joined ==
  ASSUME NEW r \in Seq(Nat), NEW s \in Seq(Nat), NEW t \in Seq(Nat)
  PROVE  (r \o s) \o t = r \o (s \o t)
<1> DEFINE u == r \o s
           v == s \o t
           a == u \o t
           b == r \o v
           k == Len(r)
           l == Len(s)
           m == Len(t)
<1>1. k \in Nat /\ l \in Nat /\ m \in Nat
  OBVIOUS
<1>2. /\ u \in Seq(Nat) /\ Len(u) = k + l
      /\ \A i \in 1..(k + l) : u[i] = IF i <= k THEN r[i] ELSE s[i - k]
  BY ConcatProperties
<1>3. /\ v \in Seq(Nat) /\ Len(v) = l + m
      /\ \A i \in 1..(l + m) : v[i] = IF i <= l THEN s[i] ELSE t[i - l]
  BY ConcatProperties
<1>4. /\ a \in Seq(Nat) /\ Len(a) = (k + l) + m
      /\ \A i \in 1..((k + l) + m) : a[i] = IF i <= k + l THEN u[i] ELSE t[i - (k + l)]
  BY <1>2, ConcatProperties
<1>5. /\ b \in Seq(Nat) /\ Len(b) = k + (l + m)
      /\ \A i \in 1..(k + (l + m)) : b[i] = IF i <= k THEN r[i] ELSE v[i - k]
  BY <1>3, ConcatProperties
<1> HIDE DEF u, v, a, b, k, l, m
<1>6. ASSUME NEW i \in 1..((k + l) + m) PROVE a[i] = b[i]
  <2>0. i \in 1..(k + (l + m))
    BY <1>1
  <2>1. CASE i <= k
    <3>1. i \in 1..(k + l) /\ i <= k + l
      BY <1>1, <2>1
    <3> QED BY <1>2, <1>4, <1>5, <2>0, <2>1, <3>1
  <2>2. CASE i > k /\ i <= k + l
    <3>1. ~(i <= k) /\ i \in 1..(k + l) /\ i - k \in 1..(l + m) /\ i - k <= l
      BY <1>1, <2>2
    <3> QED BY <1>2, <1>3, <1>4, <1>5, <2>0, <2>2, <3>1
  <2>3. CASE i > k + l
    <3>1. i - k \in 1..(l + m) /\ ~(i - k <= l) /\ ~(i <= k) /\ ~(i <= k + l) /\ (i - k) - l = i - (k + l)
      BY <1>1, <2>3
    <3> QED BY <1>3, <1>4, <1>5, <2>0, <3>1
  <2> QED BY <1>1, <2>1, <2>2, <2>3
<1>7. Len(a) = Len(b)
  BY <1>1, <1>4, <1>5
<1>8. a = b
  BY <1>4, <1>5, <1>6, <1>7, SeqEqual
<1> QED BY <1>8 DEF u, v, a, b

LEMMA FilterInit ==
  ASSUME Init
  PROVE  FilterInv
<1>1. PICK e \in BOOLEAN : nf = [enabled |-> e, pending |-> <<>>, in |-> 0, out |-> <<>>, finished |-> FALSE]
  BY DEF Init, NoiseInit
<1>2. nf \in FilterSet /\ nf.pending = <<>> /\ nf.out = <<>> /\ nf.in = 0
  BY <1>1 DEF FilterSet
<1>3. Len(<<>>) < Block
  BY NoiseAssumption
<1>4. <<>> \o <<>> = [i \in 1..0 |-> i]
  OBVIOUS
<1> QED BY <1>2, <1>3, <1>4 DEF FilterInv, AudioKept

LEMMA FilterKeeps ==
  ASSUME FilterInv, NoiseNext
  PROVE  FilterInv'
<1>1. /\ nf \in FilterSet /\ Len(nf.pending) < Block /\ (~nf.enabled => nf.pending = <<>>)
      /\ nf.out \o nf.pending = [i \in 1..nf.in |-> i]
  BY DEF FilterInv, AudioKept
<1>2. nf.pending \in Seq(Nat) /\ nf.out \in Seq(Nat) /\ nf.in \in Nat /\ <<>> \in Seq(Nat)
  BY <1>1 DEF FilterSet
<1>2a. Block \in Nat /\ Block > 0
  BY NoiseAssumption
<1>3. CASE Filters
  <2>1. PICK n \in 1..(MaxIn - nf.in), fails \in BOOLEAN :
          LET r == Process(nf, [i \in 1..n |-> nf.in + i], fails) IN
          nf' = [r.f EXCEPT !.in = nf.in + n, !.out = nf.out \o r.out]
    BY <1>3 DEF Filters
  <2> DEFINE pcm == [i \in 1..n |-> nf.in + i]
             r == Process(nf, pcm, fails)
             g == r.f
             o == r.out
  <2>2. n \in Nat /\ nf.in + n \in Nat /\ ~nf.finished
    BY <1>2, <1>3, NoiseAssumption DEF Filters
  <2>3. pcm \in Seq(Nat) /\ [i \in 1..nf.in |-> i] \o pcm = [i \in 1..(nf.in + n) |-> i]
    BY <1>2, <2>2, UnitsJoined
  <2> HIDE DEF pcm
  <2>4. /\ g \in FilterSet /\ g.in = nf.in /\ g.out = nf.out /\ g.finished = nf.finished
        /\ o \in Seq(Nat) /\ o \o g.pending = nf.pending \o pcm
        /\ Len(g.pending) < Block /\ (~g.enabled => g.pending = <<>>)
    <3> HIDE DEF pcm
    <3>1. nf \in FilterSet /\ Len(nf.pending) < Block /\ (~nf.enabled => nf.pending = <<>>) /\ pcm \in Seq(Nat)
      BY <1>1, <2>3
    <3> QED BY <3>1, ProcessKeeps, ZenonT(60)
  <2>5. nf' = [g EXCEPT !.in = nf.in + n, !.out = nf.out \o o]
    BY <2>1 DEF pcm
  <2> HIDE DEF r, g, o
  <2>6. nf.out \o o \in Seq(Nat) /\ g.pending \in Seq(Nat)
    BY <1>2, <2>4, ConcatProperties DEF FilterSet
  <2>7. /\ nf' \in FilterSet /\ nf'.in = nf.in + n /\ nf'.out = nf.out \o o /\ nf'.pending = g.pending
        /\ nf'.finished = g.finished /\ nf'.enabled = g.enabled
    BY <2>2, <2>4, <2>5, <2>6 DEF FilterSet
  <2>8. nf'.out \o nf'.pending = [i \in 1..nf'.in |-> i]
    <3>1. (nf.out \o o) \o g.pending = nf.out \o (o \o g.pending)
      BY <1>2, <2>4, <2>6, Joined
    <3>2. nf.out \o (nf.pending \o pcm) = (nf.out \o nf.pending) \o pcm
      BY <1>2, <2>3, Joined, ZenonT(60)
    <3> QED BY <1>1, <2>3, <2>4, <2>7, <3>1, <3>2
  <2> QED BY <2>2, <2>4, <2>7, <2>8 DEF FilterInv, AudioKept
<1>4. CASE Finish
  <2> DEFINE count == Len(nf.pending)
             pcm == [i \in 1..(Block - count) |-> 0]
  <2>1. PICK fails \in BOOLEAN :
          LET r == Process(nf, pcm, fails) IN
          nf' = IF count = 0 THEN [nf EXCEPT !.finished = TRUE]
                ELSE [r.f EXCEPT !.finished = TRUE, !.out = nf.out \o SubSeq(r.out, 1, count)]
    BY <1>4 DEF Finish
  <2>2. count \in Nat /\ Block - count \in Nat
    BY <1>1, <1>2, <1>2a
  <2>3. pcm \in Seq(Nat) /\ Len(pcm) = Block - count
    BY <2>2
  <2> DEFINE r == Process(nf, pcm, fails)
             g == r.f
             o == r.out
  <2>4. /\ g \in FilterSet /\ g.in = nf.in
        /\ o \in Seq(Nat) /\ o \o g.pending = nf.pending \o pcm
        /\ Len(g.pending) < Block
        /\ (Len(nf.pending \o pcm) = Block => g.pending = <<>>)
    <3> HIDE DEF pcm
    <3> QED BY <1>1, <2>3, ProcessKeeps
  <2>5. nf' = IF count = 0 THEN [nf EXCEPT !.finished = TRUE]
              ELSE [g EXCEPT !.finished = TRUE, !.out = nf.out \o SubSeq(o, 1, count)]
    BY <2>1
  <2> HIDE DEF pcm, r, g, o
  <2>6. CASE count = 0
    <3>1. nf.pending = <<>>
      BY <1>2, <2>6
    <3>2. /\ nf' \in FilterSet /\ nf'.in = nf.in /\ nf'.out = nf.out /\ nf'.pending = nf.pending /\ nf'.enabled = nf.enabled
      BY <1>1, <2>5, <2>6 DEF FilterSet
    <3> QED BY <1>1, <3>1, <3>2 DEF FilterInv, AudioKept
  <2>7. CASE count # 0
    <3>1. nf.pending \o pcm \in Seq(Nat) /\ Len(nf.pending \o pcm) = Block
      <4>1. nf.pending \o pcm \in Seq(Nat) /\ Len(nf.pending \o pcm) = count + Len(pcm)
        BY <1>2, <2>3, ConcatProperties
      <4> QED BY <1>2a, <2>2, <2>3, <4>1
    <3>2. g.pending = <<>> /\ o = nf.pending \o pcm
      BY <2>4, <3>1, ConcatEmptySeq
    <3>3. SubSeq(o, 1, count) = nf.pending
      <4>1. 1 \in 1..Len(nf.pending) /\ count \in 1..Len(nf.pending)
        BY <2>2, <2>7
      <4>2. SubSeq(nf.pending \o pcm, 1, count) = SubSeq(nf.pending, 1, count)
        BY <1>2, <2>3, <4>1, SubSeqOfConcat1
      <4> QED BY <1>2, <3>2, <4>2, SubSeqFull
    <3>4. nf.out \o nf.pending \in Seq(Nat)
      BY <1>2, ConcatProperties
    <3>5. nf' = [g EXCEPT !.finished = TRUE, !.out = nf.out \o nf.pending]
      BY <2>5, <2>7, <3>3
    <3>6. /\ nf' \in FilterSet /\ nf'.in = g.in /\ nf'.out = nf.out \o nf.pending /\ nf'.pending = g.pending
      BY <2>4, <3>4, <3>5 DEF FilterSet
    <3>7. nf'.out \o nf'.pending = [i \in 1..nf'.in |-> i]
      BY <1>1, <2>4, <3>2, <3>4, <3>6, ConcatEmptySeq
    <3> QED BY <2>4, <3>2, <3>6, <3>7 DEF FilterInv, AudioKept
  <2> QED BY <2>6, <2>7
<1> QED BY <1>3, <1>4 DEF NoiseNext

LEMMA FilterStays ==
  ASSUME FilterInv, UNCHANGED nf
  PROVE  FilterInv'
BY DEF FilterInv, AudioKept

\* InputNoiseFilter neither loses nor repeats nor reorders a unit of the caller's
\* audio: for every block size, however the audio is cut into calls of process
\* and wherever the module fails.
THEOREM AudioKeptHolds == Spec => []AudioKept
<1>1. Init => FilterInv
  BY FilterInit
<1>2. FilterInv /\ [Next]_vars => FilterInv'
  <2> SUFFICES ASSUME FilterInv, [Next]_vars PROVE FilterInv'
    OBVIOUS
  <2>1. CASE NoiseNext
    BY <2>1, FilterKeeps
  <2>2. CASE UNCHANGED nf
    BY <2>2, FilterStays
  <2> QED BY <2>1, <2>2 DEF Next, Transcribing, Synthesizing, Filtering, vars
<1>3. FilterInv => AudioKept
  BY DEF FilterInv
<1> QED BY <1>1, <1>2, <1>3, PTL DEF Spec

-----------------------------------------------------------------------------
(* The reports to the agent: Bracketed of a sequence of events, and a        *)
(* START with no END since at its end.                                      *)

Events == LineEvents \X Nat

OpenSpeech(e) == \E j \in DOMAIN e : e[j][1] = "START" /\ \A k \in j..Len(e) : e[k][1] # "END"

Brackets(e) ==
  \A i \in DOMAIN e :
    /\ e[i][1] \in {"INTERIM", "FINAL"} => \E j \in 1..(i - 1) : e[j][1] = "START" /\ \A k \in j..i : e[k][1] # "END"
    /\ e[i][1] = "FINAL" => i < Len(e) /\ e[i + 1][1] = "END"

LEMMA OneMore ==
  ASSUME NEW e \in Seq(Events), NEW x \in Events
  PROVE  /\ Append(e, x) \in Seq(Events) /\ Len(e) \in Nat /\ Len(Append(e, x)) = Len(e) + 1
         /\ DOMAIN e = 1..Len(e) /\ DOMAIN Append(e, x) = 1..(Len(e) + 1)
         /\ \A i \in 1..Len(e) : Append(e, x)[i] = e[i]
         /\ Append(e, x)[Len(e) + 1] = x
<1>1. Append(e, x) \in Seq(Events) /\ Len(Append(e, x)) = Len(e) + 1
      /\ (\A i \in 1..Len(e) : Append(e, x)[i] = e[i]) /\ Append(e, x)[Len(e) + 1] = x
  BY AppendProperties
<1> QED BY <1>1, LenProperties

\* An event that is no final leaves the brackets, a START opens, and speech
\* stays open until an END.
LEMMA BracketsGrow ==
  ASSUME NEW e \in Seq(Events), Brackets(e), NEW x \in Events, x[1] # "FINAL", x[1] = "INTERIM" => OpenSpeech(e)
  PROVE  /\ Brackets(Append(e, x))
         /\ x[1] = "START" \/ (x[1] = "INTERIM" /\ OpenSpeech(e)) => OpenSpeech(Append(e, x))
<1> DEFINE f == Append(e, x)
           n == Len(e)
<1>1. /\ n \in Nat /\ DOMAIN e = 1..n /\ DOMAIN f = 1..(n + 1) /\ Len(f) = n + 1
      /\ (\A i \in 1..n : f[i] = e[i]) /\ f[n + 1] = x
  BY OneMore
<1> HIDE DEF f, n
<1>2. ASSUME NEW i \in 1..n
      PROVE  /\ f[i][1] \in {"INTERIM", "FINAL"} => \E j \in 1..(i - 1) : f[j][1] = "START" /\ \A k \in j..i : f[k][1] # "END"
             /\ f[i][1] = "FINAL" => i < Len(f) /\ f[i + 1][1] = "END"
  <2>1. f[i] = e[i]
    BY <1>1
  <2>2. ASSUME f[i][1] \in {"INTERIM", "FINAL"}
        PROVE  \E j \in 1..(i - 1) : f[j][1] = "START" /\ \A k \in j..i : f[k][1] # "END"
    <3>1. PICK j \in 1..(i - 1) : e[j][1] = "START" /\ \A k \in j..i : e[k][1] # "END"
      BY <1>1, <2>1, <2>2 DEF Brackets
    <3>2. j \in 1..n /\ \A k \in j..i : k \in 1..n
      BY <1>1
    <3> QED BY <1>1, <3>1, <3>2
  <2>3. ASSUME f[i][1] = "FINAL" PROVE i < Len(f) /\ f[i + 1][1] = "END"
    <3>1. i < n /\ e[i + 1][1] = "END"
      BY <1>1, <2>1, <2>3 DEF Brackets, n
    <3>2. i + 1 \in 1..n /\ i < n + 1
      BY <1>1, <3>1
    <3> QED BY <1>1, <3>1, <3>2
  <2> QED BY <2>2, <2>3
<1>3. ASSUME OpenSpeech(e), x[1] # "END" PROVE \E j \in 1..n : f[j][1] = "START" /\ \A k \in j..(n + 1) : f[k][1] # "END"
  <2>1. PICK j \in 1..n : e[j][1] = "START" /\ \A k \in j..n : e[k][1] # "END"
    BY <1>1, <1>3 DEF OpenSpeech, n
  <2>2. ASSUME NEW k \in j..(n + 1) PROVE f[k][1] # "END"
    <3>1. k = n + 1 \/ (k \in j..n /\ k \in 1..n)
      BY <1>1
    <3> QED BY <1>1, <1>3, <2>1, <3>1
  <2> QED BY <1>1, <2>1, <2>2
<1>4. Brackets(f)
  <2> SUFFICES ASSUME NEW i \in 1..(n + 1)
      PROVE  /\ f[i][1] \in {"INTERIM", "FINAL"} => \E j \in 1..(i - 1) : f[j][1] = "START" /\ \A k \in j..i : f[k][1] # "END"
             /\ f[i][1] = "FINAL" => i < Len(f) /\ f[i + 1][1] = "END"
    BY <1>1 DEF Brackets
  <2>1. CASE i \in 1..n
    BY <1>2, <2>1
  <2>2. CASE i = n + 1
    <3>1. f[i] = x /\ f[i][1] # "FINAL"
      BY <1>1, <2>2
    <3>2. f[i][1] = "INTERIM" => \E j \in 1..n : f[j][1] = "START" /\ \A k \in j..(n + 1) : f[k][1] # "END"
      BY <1>3, <3>1
    <3>3. (n + 1) - 1 = n
      BY <1>1
    <3> QED BY <2>2, <3>1, <3>2, <3>3
  <2> QED BY <1>1, <2>1, <2>2
<1>5. x[1] = "START" => OpenSpeech(f)
  <2> SUFFICES ASSUME x[1] = "START" PROVE OpenSpeech(f)
    OBVIOUS
  <2>1. \A k \in (n + 1)..(n + 1) : f[k][1] # "END"
    BY <1>1
  <2>2. n + 1 \in DOMAIN f /\ f[n + 1][1] = "START"
    BY <1>1
  <2> QED BY <1>1, <2>1, <2>2 DEF OpenSpeech
<1>6. x[1] = "INTERIM" /\ OpenSpeech(e) => OpenSpeech(f)
  <2> SUFFICES ASSUME x[1] = "INTERIM", OpenSpeech(e) PROVE OpenSpeech(f)
    OBVIOUS
  <2>1. PICK j \in 1..n : f[j][1] = "START" /\ \A k \in j..(n + 1) : f[k][1] # "END"
    BY <1>3
  <2>2. j \in DOMAIN f
    BY <1>1
  <2> QED BY <1>1, <2>1, <2>2 DEF OpenSpeech
<1> QED BY <1>4, <1>5, <1>6 DEF f

\* A final in open speech and the END after it leave the brackets.
LEMMA FinalEnds ==
  ASSUME NEW e \in Seq(Events), Brackets(e), OpenSpeech(e), NEW g \in Nat
  PROVE  Brackets(Append(Append(e, <<"FINAL", g>>), <<"END", g>>))
<1> DEFINE d == Append(e, <<"FINAL", g>>)
           f == Append(d, <<"END", g>>)
           n == Len(e)
<1>0. <<"FINAL", g>> \in Events /\ <<"END", g>> \in Events
  BY DEF Events, LineEvents
<1>1. /\ n \in Nat /\ DOMAIN e = 1..n /\ d \in Seq(Events) /\ Len(d) = n + 1
      /\ (\A i \in 1..n : d[i] = e[i]) /\ d[n + 1] = <<"FINAL", g>>
  BY <1>0, OneMore
<1> HIDE DEF d, n
<1>2. /\ DOMAIN f = 1..((n + 1) + 1) /\ Len(f) = (n + 1) + 1
      /\ (\A i \in 1..(n + 1) : f[i] = d[i]) /\ f[(n + 1) + 1] = <<"END", g>>
  BY <1>0, <1>1, OneMore
<1> HIDE DEF f
<1>3. (\A i \in 1..n : f[i] = e[i]) /\ f[n + 1][1] = "FINAL" /\ f[n + 2][1] = "END" /\ DOMAIN f = 1..(n + 2) /\ Len(f) = n + 2
  <2>1. \A i \in 1..n : i \in 1..(n + 1)
    BY <1>1
  <2>2. n + 1 \in 1..(n + 1) /\ (n + 1) + 1 = n + 2
    BY <1>1
  <2> QED BY <1>1, <1>2, <2>1, <2>2
<1>4. SUFFICES ASSUME NEW i \in 1..(n + 2)
      PROVE  /\ f[i][1] \in {"INTERIM", "FINAL"} => \E j \in 1..(i - 1) : f[j][1] = "START" /\ \A k \in j..i : f[k][1] # "END"
             /\ f[i][1] = "FINAL" => i < Len(f) /\ f[i + 1][1] = "END"
  BY <1>3 DEF Brackets, f, d
<1>5. CASE i \in 1..n
  <2>1. f[i] = e[i]
    BY <1>3, <1>5
  <2>2. ASSUME f[i][1] \in {"INTERIM", "FINAL"}
        PROVE  \E j \in 1..(i - 1) : f[j][1] = "START" /\ \A k \in j..i : f[k][1] # "END"
    <3>1. PICK j \in 1..(i - 1) : e[j][1] = "START" /\ \A k \in j..i : e[k][1] # "END"
      BY <1>1, <1>5, <2>1, <2>2 DEF Brackets
    <3>2. j \in 1..n /\ \A k \in j..i : k \in 1..n
      BY <1>1, <1>5
    <3> QED BY <1>3, <3>1, <3>2
  <2>3. ASSUME f[i][1] = "FINAL" PROVE i < Len(f) /\ f[i + 1][1] = "END"
    <3>1. i < n /\ e[i + 1][1] = "END"
      BY <1>1, <1>5, <2>1, <2>3 DEF Brackets, n
    <3>2. i + 1 \in 1..n /\ i < n + 2
      BY <1>1, <1>5, <3>1
    <3> QED BY <1>3, <3>1, <3>2
  <2> QED BY <2>2, <2>3
<1>6. CASE i = n + 1
  <2>1. PICK j \in 1..n : e[j][1] = "START" /\ \A k \in j..n : e[k][1] # "END"
    BY <1>1 DEF OpenSpeech, n
  <2>2. ASSUME NEW k \in j..(n + 1) PROVE f[k][1] # "END"
    <3>1. k = n + 1 \/ (k \in j..n /\ k \in 1..n)
      BY <1>1
    <3> QED BY <1>3, <2>1, <3>1
  <2>3. i - 1 = n /\ i < Len(f) /\ i + 1 = n + 2
    BY <1>1, <1>3, <1>6
  <2> QED BY <1>3, <1>6, <2>1, <2>2, <2>3
<1>7. CASE i = n + 2
  BY <1>3, <1>7
<1> QED BY <1>1, <1>5, <1>6, <1>7

\* What is reported of a stream whose speech is said to be open: Reports(o).
Reports(o) == o \in OutSet /\ Brackets(o.events) /\ (o.speaking => OpenSpeech(o.events))

LEMMA ReportsAre == Reports(out) <=> (out \in OutSet /\ Speaking /\ Bracketed)
BY DEF Reports, Brackets, OpenSpeech, Speaking, Bracketed

\* The events before the transcript that Emitted reports: in open speech.
EmittedInSpeech(o, kind, g) ==
  \E e \in Seq(Events) :
    /\ Brackets(e) /\ OpenSpeech(e)
    /\ Emitted(o, kind, g) = [o EXCEPT !.events = Append(e, <<kind, g>>), !.speaking = TRUE]

LEMMA EmittedIs ==
  ASSUME NEW o, Reports(o), NEW kind \in LineEvents, NEW g \in Nat
  PROVE  EmittedInSpeech(o, kind, g)
<1> DEFINE e == IF o.speaking THEN o.events ELSE Append(o.events, <<"START", g>>)
<1>1. o.events \in Seq(Events) /\ Brackets(o.events) /\ o.speaking \in BOOLEAN /\ (o.speaking => OpenSpeech(o.events))
  BY DEF Reports, OutSet, Events
<1>2. <<"START", g>> \in Events /\ <<kind, g>> \in Events
  BY DEF Events, LineEvents
<1>3. e \in Seq(Events) /\ Brackets(e) /\ OpenSpeech(e)
  <2>1. CASE o.speaking
    BY <1>1, <2>1
  <2>2. CASE ~o.speaking
    <3>1. <<"START", g>>[1] = "START"
      OBVIOUS
    <3>2. Append(o.events, <<"START", g>>) \in Seq(Events)
      BY <1>1, <1>2, OneMore
    <3>3. Brackets(Append(o.events, <<"START", g>>)) /\ OpenSpeech(Append(o.events, <<"START", g>>))
      BY <1>1, <1>2, <3>1, BracketsGrow
    <3> QED BY <2>2, <3>2, <3>3
  <2> QED BY <2>1, <2>2
<1>4. Emitted(o, kind, g) = [o EXCEPT !.events = e \o <<<<kind, g>>>>, !.speaking = TRUE]
  BY DEF Emitted
<1> HIDE DEF e
<1>5. Append(e, <<kind, g>>) = e \o <<<<kind, g>>>>
  BY <1>2, <1>3, AppendIsConcat
<1> QED BY <1>3, <1>4, <1>5 DEF EmittedInSpeech

LEMMA InterimReported ==
  ASSUME NEW o, Reports(o), NEW g \in Nat, NEW b \in BOOLEAN
  PROVE  Reports(Emitted(o, "INTERIM", g)) /\ Reports([Emitted(o, "INTERIM", g) EXCEPT !.raw = b])
<1>0. "INTERIM" \in LineEvents
  BY DEF LineEvents
<1>1. PICK e \in Seq(Events) :
           /\ Brackets(e) /\ OpenSpeech(e)
           /\ Emitted(o, "INTERIM", g) = [o EXCEPT !.events = Append(e, <<"INTERIM", g>>), !.speaking = TRUE]
  <2>1. EmittedInSpeech(o, "INTERIM", g)
    BY <1>0, EmittedIs
  <2> QED BY <2>1 DEF EmittedInSpeech
<1> DEFINE f == Append(e, <<"INTERIM", g>>)
<1>2. <<"INTERIM", g>> \in Events /\ <<"INTERIM", g>>[1] = "INTERIM"
  BY DEF Events, LineEvents
<1>3. f \in Seq(Events)
  BY <1>2, OneMore
<1>4. Brackets(f) /\ OpenSpeech(f)
  BY <1>1, <1>2, BracketsGrow
<1> HIDE DEF f
<1> DEFINE p == [o EXCEPT !.events = f, !.speaking = TRUE]
           r == [p EXCEPT !.raw = b]
<1>5. p \in OutSet /\ p.events = f
  BY <1>3 DEF Reports, OutSet, Events
<1>6. r \in OutSet /\ r.events = p.events
  BY <1>5 DEF OutSet
<1> QED BY <1>1, <1>4, <1>5, <1>6 DEF Reports, f

LEMMA FinalReported ==
  ASSUME NEW o, Reports(o), NEW g \in Nat
  PROVE  /\ Emitted(o, "FINAL", g).speaking = TRUE /\ Emitted(o, "FINAL", g) \in OutSet
         /\ Append(Emitted(o, "FINAL", g).events, <<"END", g>>) \in Seq(Events)
         /\ Brackets(Append(Emitted(o, "FINAL", g).events, <<"END", g>>))
<1>0. "FINAL" \in LineEvents /\ <<"FINAL", g>> \in Events /\ <<"END", g>> \in Events
  BY DEF LineEvents, Events
<1>1. PICK e \in Seq(Events) :
           /\ Brackets(e) /\ OpenSpeech(e)
           /\ Emitted(o, "FINAL", g) = [o EXCEPT !.events = Append(e, <<"FINAL", g>>), !.speaking = TRUE]
  <2>1. EmittedInSpeech(o, "FINAL", g)
    BY <1>0, EmittedIs
  <2> QED BY <2>1 DEF EmittedInSpeech
<1> DEFINE f == Append(e, <<"FINAL", g>>)
<1>2. f \in Seq(Events)
  BY <1>0, OneMore
<1>3. Append(f, <<"END", g>>) \in Seq(Events)
  BY <1>0, <1>2, OneMore
<1>4. Brackets(Append(f, <<"END", g>>))
  BY <1>1, FinalEnds
<1> HIDE DEF f
<1> DEFINE p == [o EXCEPT !.events = f, !.speaking = TRUE]
<1>5. p \in OutSet /\ p.events = f /\ p.speaking = TRUE
  BY <1>2 DEF Reports, OutSet, Events
<1> QED BY <1>1, <1>3, <1>4, <1>5 DEF f

\* A line of speech's beginning or end.
LEMMA BoundReported ==
  ASSUME NEW o, Reports(o), NEW g \in Nat
  PROVE  /\ Reports([o EXCEPT !.speaking = TRUE, !.events = Append(@, <<"START", g>>)])
         /\ Reports([o EXCEPT !.speaking = FALSE, !.events = Append(@, <<"END", g>>)])
         /\ Append(o.events, <<"END", g>>) \in Seq(Events) /\ Brackets(Append(o.events, <<"END", g>>))
<1>1. o \in OutSet /\ o.events \in Seq(Events) /\ Brackets(o.events)
  BY DEF Reports, OutSet, Events
<1>2. /\ <<"START", g>> \in Events /\ <<"START", g>>[1] = "START"
      /\ <<"END", g>> \in Events /\ <<"END", g>>[1] = "END"
  BY DEF Events, LineEvents
<1> DEFINE f == Append(o.events, <<"START", g>>)
           h == Append(o.events, <<"END", g>>)
<1>3. f \in Seq(Events) /\ h \in Seq(Events)
  BY <1>1, <1>2, OneMore
<1>4. Brackets(f) /\ OpenSpeech(f)
  BY <1>1, <1>2, BracketsGrow
<1>5. Brackets(h)
  BY <1>1, <1>2, BracketsGrow
<1> HIDE DEF f, h
<1> DEFINE p == [o EXCEPT !.speaking = TRUE, !.events = f]
           r == [o EXCEPT !.speaking = FALSE, !.events = h]
<1>6. p \in OutSet /\ p.events = f /\ p.speaking = TRUE
  BY <1>1, <1>3 DEF OutSet, Events
<1>7. r \in OutSet /\ r.events = h /\ r.speaking = FALSE
  BY <1>1, <1>3 DEF OutSet, Events
<1>8. Reports(p) /\ Reports(r)
  BY <1>4, <1>5, <1>6, <1>7 DEF Reports
<1> QED BY <1>3, <1>5, <1>8 DEF f, h

LEMMA ReportsKept ==
  ASSUME HearTypes, Reports(out), TranscriberNext
  PROVE  Reports(out')
<1>0. out \in OutSet /\ mic.utt \in Nat
  BY DEF HearTypes, MicSet
<1>1. CASE UNCHANGED out
  BY <1>1
<1>2. ASSUME NEW g \in Nat, ProcessDelta(g) PROVE Reports(out')
  <2>1. [out EXCEPT !.raw = TRUE] \in OutSet /\ [out EXCEPT !.raw = TRUE].events = out.events /\ [out EXCEPT !.raw = TRUE].speaking = out.speaking
    BY <1>0 DEF OutSet
  <2>2. Reports([out EXCEPT !.raw = TRUE])
    BY <2>1 DEF Reports
  <2>3. Reports([Emitted(out, "INTERIM", g) EXCEPT !.raw = TRUE])
    BY InterimReported
  <2> QED BY <1>2, <2>2, <2>3 DEF ProcessDelta
<1>3. ASSUME NEW g \in Nat, NEW text \in BOOLEAN, ProcessDone(g, text) PROVE Reports(out')
  <2> DEFINE o(latin) == IF (text \/ out.raw) /\ latin THEN Emitted(out, "FINAL", g) ELSE out
  <2>1. PICK latin \in BOOLEAN :
          out' = [speaking |-> FALSE, raw |-> FALSE,
                  events |-> IF o(latin).speaking THEN Append(o(latin).events, <<"END", g>>) ELSE o(latin).events]
    BY <1>3 DEF ProcessDone
  <2>2. CASE (text \/ out.raw) /\ latin
    <3>1. out' = [speaking |-> FALSE, raw |-> FALSE, events |-> Append(Emitted(out, "FINAL", g).events, <<"END", g>>)]
      BY <2>1, <2>2, FinalReported
    <3> DEFINE h == Append(Emitted(out, "FINAL", g).events, <<"END", g>>)
    <3>2. h \in Seq(Events) /\ Brackets(h)
      BY FinalReported
    <3> HIDE DEF h
    <3>3. out' \in OutSet /\ out'.events = h /\ out'.speaking = FALSE
      BY <3>1, <3>2 DEF OutSet, Events, h
    <3> QED BY <3>2, <3>3 DEF Reports
  <2>3. CASE ~((text \/ out.raw) /\ latin)
    <3> DEFINE h == IF out.speaking THEN Append(out.events, <<"END", g>>) ELSE out.events
    <3>1. out' = [speaking |-> FALSE, raw |-> FALSE, events |-> h]
      BY <2>1, <2>3
    <3>2. h \in Seq(Events) /\ Brackets(h)
      BY <1>0, BoundReported DEF Reports, OutSet, Events
    <3> HIDE DEF h
    <3>3. out' \in OutSet /\ out'.events = h /\ out'.speaking = FALSE
      BY <3>1, <3>2 DEF OutSet, Events
    <3> QED BY <3>2, <3>3 DEF Reports
  <2> QED BY <2>2, <2>3
<1>4. CASE Receives
  <2>1. Head(srv.inbox) \in Messages
    BY <1>4 DEF Receives, HearTypes, SrvSet
  <2>2. Head(srv.inbox).g \in Nat /\ Head(srv.inbox).text \in BOOLEAN
    BY <2>1 DEF Messages
  <2> QED BY <1>2, <1>3, <1>4, <2>2 DEF Receives
<1>5. CASE ProcessLine
  <2> DEFINE o == Emitted(out, "FINAL", mic.utt)
             h == Append(o.events, <<"END", mic.utt>>)
  <2>1. Reports([o EXCEPT !.speaking = FALSE, !.events = Append(@, <<"END", mic.utt>>)])
    <3>1. o \in OutSet /\ h \in Seq(Events) /\ Brackets(h)
      BY <1>0, FinalReported
    <3> DEFINE r == [o EXCEPT !.speaking = FALSE, !.events = h]
    <3> HIDE DEF o, h
    <3>2. r \in OutSet /\ r.events = h /\ r.speaking = FALSE
      BY <3>1 DEF OutSet, Events
    <3>3. Reports(r)
      BY <3>1, <3>2 DEF Reports
    <3> QED BY <3>3 DEF o, h
  <2>2. Reports(Emitted(out, "INTERIM", mic.utt))
    BY <1>0, InterimReported
  <2>3. /\ Reports([out EXCEPT !.speaking = TRUE, !.events = Append(@, <<"START", mic.utt>>)])
        /\ Reports([out EXCEPT !.speaking = FALSE, !.events = Append(@, <<"END", mic.utt>>)])
    BY <1>0, BoundReported
  <2> HIDE DEF o, h
  <2>4. PICK kind \in LineEvents :
       out' = CASE kind = "START" -> [out EXCEPT !.speaking = TRUE, !.events = Append(@, <<kind, mic.utt>>)]
                [] kind = "END" -> [out EXCEPT !.speaking = FALSE, !.events = Append(@, <<kind, mic.utt>>)]
                [] kind = "INTERIM" -> Emitted(out, kind, mic.utt)
                [] kind = "FINAL" -> [o EXCEPT !.speaking = FALSE, !.events = Append(@, <<"END", mic.utt>>)]
    <3>1. \E kind \in LineEvents :
       out' = CASE kind = "START" -> [out EXCEPT !.speaking = TRUE, !.events = Append(@, <<kind, mic.utt>>)]
                [] kind = "END" -> [out EXCEPT !.speaking = FALSE, !.events = Append(@, <<kind, mic.utt>>)]
                [] kind = "INTERIM" -> Emitted(out, kind, mic.utt)
                [] kind = "FINAL" -> LET u == Emitted(out, kind, mic.utt) IN
                                     [u EXCEPT !.speaking = FALSE, !.events = Append(@, <<"END", mic.utt>>)]
      BY <1>5 DEF ProcessLine
    <3> QED BY <3>1 DEF o, LineEvents
  <2>5. CASE kind = "START"
    BY <2>3, <2>4, <2>5
  <2>6. CASE kind = "END"
    BY <2>3, <2>4, <2>6
  <2>7. CASE kind = "INTERIM"
    BY <2>2, <2>4, <2>7
  <2>8. CASE kind = "FINAL"
    BY <2>1, <2>4, <2>8
  <2> QED BY <2>4, <2>5, <2>6, <2>7, <2>8 DEF LineEvents
<1> QED
  BY <1>1, <1>4, <1>5 DEF TranscriberNext, Recognizes, Segments, StartsSpeech, SpeaksOn, FallsSilent, InputEnds, Answers, Hangs,
     Raises, ReadsEvent, FlushesAudio, SendsRest, Finalizes, Drains, Connects, Armed, SeesClose, Returns, Collects,
     Transcribes, SegmentOver, SegmentsEnd

-----------------------------------------------------------------------------
(* What the operations do to the recognizer                                  *)

LEMMA SrvIs ==
  ASSUME NEW s \in SrvSet
  PROVE  /\ s.gens \in Seq(Generations) /\ s.inbox \in Seq(Messages) /\ s.stray \subseteq Units
         /\ s.line \in {"open", "dropped", "closed"}
         /\ Len(s.gens) \in Nat /\ DOMAIN s.gens = 1..Len(s.gens)
         /\ Len(s.inbox) \in Nat /\ DOMAIN s.inbox = 1..Len(s.inbox)
<1>1. /\ s.gens \in Seq(Generations) /\ s.inbox \in Seq(Messages) /\ s.stray \subseteq Units
      /\ s.line \in {"open", "dropped", "closed"}
  BY DEF SrvSet
<1> QED BY <1>1

LEMMA GenerationIs ==
  ASSUME NEW s \in SrvSet, NEW g \in DOMAIN s.gens
  PROVE  /\ g \in Nat /\ g >= 1 /\ g <= Len(s.gens) /\ s.gens # <<>>
         /\ s.gens[g] \in Generations /\ s.gens[g].audio \in Seq(Units)
         /\ s.gens[g].final \in BOOLEAN /\ s.gens[g].told \in BOOLEAN /\ s.gens[g].done \in BOOLEAN
<1>1. s.gens \in Seq(Generations) /\ Len(s.gens) \in Nat /\ g \in 1..Len(s.gens)
  BY SrvIs
<1>2. s.gens[g] \in Generations
  BY <1>1
<1>3. g \in Nat /\ g >= 1 /\ g <= Len(s.gens) /\ s.gens # <<>>
  BY <1>1
<1> QED BY <1>2, <1>3 DEF Generations

\* The last generation, and when it is open.
LEMMA OpenIs ==
  ASSUME srv \in SrvSet
  PROVE  /\ Open <=> srv.gens # <<>> /\ ~srv.gens[Len(srv.gens)].final
         /\ srv.gens # <<>> => Len(srv.gens) \in DOMAIN srv.gens
<1>1. srv.gens \in Seq(Generations)
  BY DEF SrvSet
<1> QED BY <1>1 DEF Open, Last

\* A new value of srv with the last generation changed.
LEMMA LastChanged ==
  ASSUME srv \in SrvSet, srv.gens # <<>>, NEW x \in Generations
  PROVE  LET n == Len(srv.gens)
             t == [srv EXCEPT !.gens = [srv.gens EXCEPT ![n] = x]]
         IN /\ t \in SrvSet /\ t.stray = srv.stray /\ t.inbox = srv.inbox /\ t.line = srv.line
            /\ Len(t.gens) = n /\ DOMAIN t.gens = DOMAIN srv.gens /\ t.gens[n] = x
            /\ \A g \in DOMAIN srv.gens : g # n => t.gens[g] = srv.gens[g]
<1> DEFINE n == Len(srv.gens)
           h == [srv.gens EXCEPT ![n] = x]
           t == [srv EXCEPT !.gens = h]
<1>1. srv.gens \in Seq(Generations) /\ n \in 1..n
  BY DEF SrvSet
<1>2. /\ h \in Seq(Generations) /\ Len(h) = n /\ DOMAIN h = DOMAIN srv.gens /\ h[n] = x
      /\ \A g \in DOMAIN srv.gens : g # n => h[g] = srv.gens[g]
  BY <1>1
<1> HIDE DEF h
<1>3. t \in SrvSet /\ t.stray = srv.stray /\ t.inbox = srv.inbox /\ t.line = srv.line /\ t.gens = h
  BY <1>2 DEF SrvSet
<1> QED BY <1>2, <1>3 DEF h

\* append to the open generation
LEMMA AppendedIs ==
  ASSUME srv \in SrvSet, Open, NEW units \in Seq(Units)
  PROVE  LET n == Len(srv.gens)
             t == Appended(units)
         IN /\ t \in SrvSet /\ t.stray = srv.stray /\ t.inbox = srv.inbox /\ t.line = srv.line
            /\ Len(t.gens) = n /\ DOMAIN t.gens = DOMAIN srv.gens
            /\ t.gens[n].audio = srv.gens[n].audio \o units
            /\ t.gens[n].final = srv.gens[n].final /\ t.gens[n].done = srv.gens[n].done
            /\ \A g \in DOMAIN srv.gens : g # n => t.gens[g] = srv.gens[g]
<1> DEFINE n == Len(srv.gens)
           x == [srv.gens[n] EXCEPT !.audio = srv.gens[n].audio \o units]
           t == [srv EXCEPT !.gens = [srv.gens EXCEPT ![n] = x]]
<1>1. srv.gens # <<>> /\ n \in DOMAIN srv.gens
  BY OpenIs
<1>2. srv.gens[n] \in Generations /\ srv.gens[n].audio \in Seq(Units)
  BY <1>1, GenerationIs
<1>3. srv.gens[n].audio \o units \in Seq(Units)
  BY <1>2
<1>4. x \in Generations /\ x.audio = srv.gens[n].audio \o units /\ x.final = srv.gens[n].final /\ x.done = srv.gens[n].done
  BY <1>2, <1>3 DEF Generations
<1>5. Appended(units) = t
  BY <1>1 DEF Appended, SrvSet
<1> HIDE DEF x
<1>6. /\ t \in SrvSet /\ t.stray = srv.stray /\ t.inbox = srv.inbox /\ t.line = srv.line
      /\ Len(t.gens) = n /\ DOMAIN t.gens = DOMAIN srv.gens /\ t.gens[n] = x
      /\ \A g \in DOMAIN srv.gens : g # n => t.gens[g] = srv.gens[g]
  BY <1>1, <1>4, LastChanged
<1> HIDE DEF t
<1> QED BY <1>4, <1>5, <1>6

LEMMA StrayIs ==
  ASSUME srv \in SrvSet, ~Open, NEW units \in Seq(Units)
  PROVE  LET t == Appended(units)
         IN t \in SrvSet /\ t.gens = srv.gens /\ t.inbox = srv.inbox /\ t.line = srv.line
<1>1. Range(units) \subseteq Units
  BY DEF Range
<1>2. Appended(units) = [srv EXCEPT !.stray = srv.stray \union Range(units)]
  BY DEF Appended
<1> DEFINE r == srv.stray \union Range(units)
<1>3. r \subseteq Units
  BY <1>1 DEF SrvSet
<1> HIDE DEF r
<1>4. LET t == [srv EXCEPT !.stray = r] IN t \in SrvSet /\ t.gens = srv.gens /\ t.inbox = srv.inbox /\ t.line = srv.line
  BY <1>3 DEF SrvSet
<1> QED BY <1>2, <1>4 DEF r

LEMMA CommitsIs ==
  ASSUME srv \in SrvSet, Open
  PROVE  LET n == Len(srv.gens)
             t == Commits
         IN /\ t \in SrvSet /\ t.stray = srv.stray /\ t.inbox = srv.inbox /\ t.line = srv.line
            /\ Len(t.gens) = n /\ DOMAIN t.gens = DOMAIN srv.gens
            /\ t.gens[n].audio = srv.gens[n].audio /\ t.gens[n].final = TRUE /\ t.gens[n].done = srv.gens[n].done
            /\ \A g \in DOMAIN srv.gens : g # n => t.gens[g] = srv.gens[g]
<1> DEFINE n == Len(srv.gens)
           x == [srv.gens[n] EXCEPT !.final = TRUE]
           t == [srv EXCEPT !.gens = [srv.gens EXCEPT ![n] = x]]
<1>1. srv.gens # <<>> /\ n \in DOMAIN srv.gens
  BY OpenIs
<1>2. srv.gens[n] \in Generations
  BY <1>1, GenerationIs
<1>4. x \in Generations /\ x.audio = srv.gens[n].audio /\ x.final = TRUE /\ x.done = srv.gens[n].done
  BY <1>2 DEF Generations
<1>5. Commits = t
  BY <1>1 DEF Commits, SrvSet
<1> HIDE DEF x
<1>6. /\ t \in SrvSet /\ t.stray = srv.stray /\ t.inbox = srv.inbox /\ t.line = srv.line
      /\ Len(t.gens) = n /\ DOMAIN t.gens = DOMAIN srv.gens /\ t.gens[n] = x
      /\ \A g \in DOMAIN srv.gens : g # n => t.gens[g] = srv.gens[g]
  BY <1>1, <1>4, LastChanged
<1> HIDE DEF t
<1> QED BY <1>4, <1>5, <1>6

LEMMA ArmsIs ==
  ASSUME srv \in SrvSet
  PROVE  LET n == Len(srv.gens)
             t == Arms
         IN /\ t \in SrvSet /\ t.stray = srv.stray /\ t.inbox = srv.inbox /\ t.line = srv.line
            /\ Len(t.gens) = n + 1 /\ DOMAIN t.gens = 1..(n + 1) /\ t.gens # <<>>
            /\ t.gens[n + 1].audio = <<>> /\ t.gens[n + 1].final = FALSE /\ t.gens[n + 1].done = FALSE
            /\ \A g \in DOMAIN srv.gens : t.gens[g] = srv.gens[g]
<1> DEFINE n == Len(srv.gens)
           x == [audio |-> <<>>, final |-> FALSE, told |-> FALSE, done |-> FALSE]
           h == Append(srv.gens, x)
           t == [srv EXCEPT !.gens = h]
<1>1. srv.gens \in Seq(Generations) /\ n \in Nat
  BY DEF SrvSet
<1>2. x \in Generations /\ x.audio = <<>> /\ x.final = FALSE /\ x.done = FALSE
  BY DEF Generations
<1>3. Arms = t
  BY DEF Arms
<1> HIDE DEF x
<1>4. h \in Seq(Generations) /\ Len(h) = n + 1 /\ DOMAIN h = 1..(n + 1) /\ h # <<>> /\ h[n + 1] = x
      /\ \A g \in DOMAIN srv.gens : h[g] = srv.gens[g]
  <2>1. /\ h \in Seq(Generations) /\ h # <<>> /\ Len(h) = n + 1 /\ h[n + 1] = x
        /\ \A i \in 1..n : h[i] = srv.gens[i]
    BY <1>1, <1>2, AppendProperties
  <2>2. DOMAIN h = 1..(n + 1) /\ DOMAIN srv.gens = 1..n
    BY <1>1, <2>1, LenProperties
  <2> QED BY <2>1, <2>2
<1> HIDE DEF h
<1>5. t \in SrvSet /\ t.stray = srv.stray /\ t.inbox = srv.inbox /\ t.line = srv.line /\ t.gens = h
  BY <1>4 DEF SrvSet
<1> HIDE DEF t
<1> QED BY <1>2, <1>3, <1>4, <1>5

\* The recognizer's answer: a delta, or the done of a committed generation.
Answered(done) ==
  LET n == Len(srv.gens)
      m == Len(srv.inbox)
  IN /\ srv' \in SrvSet /\ srv'.stray = srv.stray /\ srv'.line = srv.line /\ srv.line = "open"
     /\ srv.gens # <<>> /\ ~srv.gens[n].done
     /\ Len(srv'.gens) = n /\ DOMAIN srv'.gens = DOMAIN srv.gens
     /\ srv'.gens[n].audio = srv.gens[n].audio /\ srv'.gens[n].final = srv.gens[n].final /\ srv'.gens[n].done = done
     /\ \A g \in DOMAIN srv.gens : g # n => srv'.gens[g] = srv.gens[g]
     /\ Len(srv'.inbox) = m + 1 /\ DOMAIN srv'.inbox = 1..(m + 1)
     /\ srv'.inbox[m + 1].type = IF done THEN "done" ELSE "delta"
     /\ \A i \in DOMAIN srv.inbox : srv'.inbox[i] = srv.inbox[i]
     /\ done => srv.gens[n].final

LEMMA AnswersIs ==
  ASSUME srv \in SrvSet, Answers
  PROVE  Answered(TRUE) \/ Answered(FALSE)
<1> DEFINE n == Len(srv.gens)
<1>1. srv.gens # <<>> /\ n \in DOMAIN srv.gens /\ n \in Nat /\ srv.line = "open"
  BY OpenIs, SrvIs DEF Answers
<1>2. srv.gens[n] \in Generations /\ srv.inbox \in Seq(Messages)
  BY <1>1, GenerationIs, SrvIs
<1>3. ASSUME NEW x \in Generations, NEW msg \in Messages,
             srv' = [srv EXCEPT !.gens = [srv.gens EXCEPT ![n] = x], !.inbox = Append(srv.inbox, msg)]
      PROVE  /\ srv' \in SrvSet /\ srv'.stray = srv.stray /\ srv'.line = srv.line
             /\ Len(srv'.gens) = n /\ DOMAIN srv'.gens = DOMAIN srv.gens /\ srv'.gens[n] = x
             /\ \A g \in DOMAIN srv.gens : g # n => srv'.gens[g] = srv.gens[g]
             /\ Len(srv'.inbox) = Len(srv.inbox) + 1 /\ DOMAIN srv'.inbox = 1..(Len(srv.inbox) + 1)
             /\ srv'.inbox[Len(srv.inbox) + 1] = msg
             /\ \A i \in DOMAIN srv.inbox : srv'.inbox[i] = srv.inbox[i]
  <2> DEFINE t == [srv EXCEPT !.gens = [srv.gens EXCEPT ![n] = x]]
             b == Append(srv.inbox, msg)
  <2>1. /\ t \in SrvSet /\ t.stray = srv.stray /\ t.inbox = srv.inbox /\ t.line = srv.line
        /\ Len(t.gens) = n /\ DOMAIN t.gens = DOMAIN srv.gens /\ t.gens[n] = x
        /\ \A g \in DOMAIN srv.gens : g # n => t.gens[g] = srv.gens[g]
    BY <1>1, LastChanged
  <2>2. b \in Seq(Messages) /\ Len(b) = Len(srv.inbox) + 1 /\ DOMAIN b = 1..(Len(srv.inbox) + 1)
        /\ b[Len(srv.inbox) + 1] = msg /\ \A i \in DOMAIN srv.inbox : b[i] = srv.inbox[i]
    BY <1>2
  <2>3. srv' = [t EXCEPT !.inbox = b]
    BY <1>3
  <2> HIDE DEF t, b
  <2>4. srv' \in SrvSet /\ srv'.stray = t.stray /\ srv'.line = t.line /\ srv'.gens = t.gens /\ srv'.inbox = b
    BY <2>1, <2>2, <2>3 DEF SrvSet
  <2> QED BY <2>1, <2>2, <2>4
<1>4. CASE /\ ~srv.gens[n].told /\ ~srv.gens[n].done /\ srv.gens[n].audio # <<>>
           /\ srv' = [srv EXCEPT !.gens[n].told = TRUE, !.inbox = Append(@, [type |-> "delta", g |-> n, text |-> TRUE])]
  <2> DEFINE x == [srv.gens[n] EXCEPT !.told = TRUE]
             msg == [type |-> "delta", g |-> n, text |-> TRUE]
  <2>1. /\ x \in Generations /\ x.audio = srv.gens[n].audio /\ x.final = srv.gens[n].final /\ x.done = srv.gens[n].done
    BY <1>2 DEF Generations
  <2>2. msg \in Messages /\ msg.type = "delta"
    BY <1>1 DEF Messages
  <2>3. srv' = [srv EXCEPT !.gens = [srv.gens EXCEPT ![n] = x], !.inbox = Append(srv.inbox, msg)]
    BY <1>4 DEF SrvSet
  <2>4. srv.gens[n].done = FALSE
    BY <1>2, <1>4 DEF Generations
  <2> HIDE DEF x, msg
  <2> QED BY <1>1, <1>3, <1>4, <2>1, <2>2, <2>3, <2>4 DEF Answered
<1>5. CASE /\ srv.gens[n].final /\ ~srv.gens[n].done
           /\ \E text \in BOOLEAN :
             srv' = [srv EXCEPT !.gens[n].done = TRUE, !.inbox = Append(@, [type |-> "done", g |-> n, text |-> text])]
  <2>0. PICK text \in BOOLEAN :
             srv' = [srv EXCEPT !.gens[n].done = TRUE, !.inbox = Append(@, [type |-> "done", g |-> n, text |-> text])]
    BY <1>5
  <2> DEFINE x == [srv.gens[n] EXCEPT !.done = TRUE]
             msg == [type |-> "done", g |-> n, text |-> text]
  <2>1. /\ x \in Generations /\ x.audio = srv.gens[n].audio /\ x.final = srv.gens[n].final /\ x.done = TRUE
    BY <1>2 DEF Generations
  <2>2. msg \in Messages /\ msg.type = "done"
    BY <1>1 DEF Messages
  <2>3. srv' = [srv EXCEPT !.gens = [srv.gens EXCEPT ![n] = x], !.inbox = Append(srv.inbox, msg)]
    BY <2>0 DEF SrvSet
  <2> HIDE DEF x, msg
  <2> QED BY <1>1, <1>3, <1>5, <2>1, <2>2, <2>3 DEF Answered
<1> QED BY <1>4, <1>5 DEF Answers

-----------------------------------------------------------------------------
(* What the actions do, field by field                                       *)

LEMMA VadIs ==
  ASSUME NEW v \in VadSet
  PROVE  /\ v.q \in Seq(VadEvents) /\ v.active \in BOOLEAN /\ v.drained \in BOOLEAN
         /\ Len(v.q) \in Nat /\ DOMAIN v.q = 1..Len(v.q)
         /\ \A i \in DOMAIN v.q : v.q[i] \in VadEvents
<1>1. v.q \in Seq(VadEvents) /\ v.active \in BOOLEAN /\ v.drained \in BOOLEAN
  BY DEF VadSet
<1> QED BY <1>1

LEMMA EventIs ==
  ASSUME NEW e \in VadEvents
  PROVE  e.type \in {"start", "speech", "end"} /\ e.frames \in Seq(Units)
BY DEF VadEvents

LEMMA UnitIs ==
  ASSUME NEW s \in Seq(Units), NEW i \in DOMAIN s
  PROVE  s[i] \in Units /\ s[i][1] \in Nat /\ s[i][2] \in Nat /\ s[i] = <<s[i][1], s[i][2]>>
<1>1. s[i] \in Units
  OBVIOUS
<1> QED BY <1>1 DEF Units

\* The VAD reports: the event is the last of the queue.
Reported(type, frames) ==
  LET n == Len(vad.q) IN
  /\ vad' \in VadSet /\ vad'.active = vad.active /\ vad'.drained = vad.drained
  /\ Len(vad'.q) = n + 1 /\ DOMAIN vad'.q = 1..(n + 1)
  /\ vad'.q[n + 1].type = type /\ vad'.q[n + 1].frames = frames
  /\ \A i \in DOMAIN vad.q : vad'.q[i] = vad.q[i]

LEMMA ReportedIs ==
  ASSUME vad \in VadSet, NEW type \in {"start", "speech", "end"}, NEW frames \in Seq(Units), Event(type, frames)
  PROVE  Reported(type, frames)
<1> DEFINE x == [type |-> type, frames |-> frames]
           h == Append(vad.q, x)
           n == Len(vad.q)
<1>1. x \in VadEvents /\ x.type = type /\ x.frames = frames
  BY DEF VadEvents
<1>2. vad.q \in Seq(VadEvents) /\ n \in Nat /\ DOMAIN vad.q = 1..n
  BY VadIs
<1>3. vad' = [vad EXCEPT !.q = h]
  BY DEF Event
<1> HIDE DEF x
<1>4. /\ h \in Seq(VadEvents) /\ Len(h) = n + 1 /\ h[n + 1] = x /\ \A i \in 1..n : h[i] = vad.q[i]
  BY <1>1, <1>2, AppendProperties
<1>5. DOMAIN h = 1..(n + 1)
  BY <1>4, LenProperties
<1> HIDE DEF h
<1>6. vad' \in VadSet /\ vad'.active = vad.active /\ vad'.drained = vad.drained /\ vad'.q = h
  BY <1>3, <1>4 DEF VadSet
<1> QED BY <1>1, <1>2, <1>4, <1>5, <1>6 DEF Reported

\* The caller says a unit of utterance u.
Said(u, i) ==
  /\ mic' \in MicSet /\ mic'.utt = u /\ mic'.units = i /\ mic'.said = mic.said \union {<<u, i>>} /\ mic'.talking = TRUE
  /\ mic'.ended = mic.ended /\ mic'.closed = mic.closed

LEMMA SaidIs ==
  ASSUME mic \in MicSet, NEW u \in Nat, NEW i \in Nat, mic' = Says(u, i)
  PROVE  Said(u, i)
<1> DEFINE s == mic.said \union {<<u, i>>}
<1>1. s \in SUBSET Units
  BY DEF MicSet, Units
<1>2. mic' = [mic EXCEPT !.utt = u, !.units = i, !.said = s, !.talking = TRUE]
  BY DEF Says
<1> HIDE DEF s
<1>3. /\ mic' \in MicSet /\ mic'.utt = u /\ mic'.units = i /\ mic'.said = s /\ mic'.talking = TRUE
      /\ mic'.ended = mic.ended /\ mic'.closed = mic.closed
  BY <1>1, <1>2 DEF MicSet
<1> QED BY <1>3 DEF Said, s

\* The task that sends has taken the first event.
Taken ==
  /\ vad.q # <<>> /\ 1 \in DOMAIN vad.q /\ vad' \in VadSet /\ vad'.drained = vad.drained
  /\ Len(vad'.q) = Len(vad.q) - 1 /\ DOMAIN vad'.q = 1..(Len(vad.q) - 1)
  /\ \A i \in DOMAIN vad'.q : i + 1 \in DOMAIN vad.q /\ vad'.q[i] = vad.q[i + 1]

LEMMA TakenIs ==
  ASSUME vad \in VadSet, vad.q # <<>>, NEW a \in BOOLEAN,
         vad' = [vad EXCEPT !.q = Tail(@), !.active = a]
  PROVE  Taken /\ vad'.active = a /\ Head(vad.q) = vad.q[1]
<1> DEFINE t == Tail(vad.q)
           n == Len(vad.q)
<1>1. vad.q \in Seq(VadEvents) /\ n \in Nat /\ DOMAIN vad.q = 1..n
  BY VadIs
<1>2. n >= 1 /\ Head(vad.q) = vad.q[1]
  BY <1>1
<1>3. t \in Seq(VadEvents) /\ Len(t) = n - 1 /\ \A i \in 1..(n - 1) : t[i] = vad.q[i + 1]
  BY <1>1
<1>4. DOMAIN t = 1..(n - 1)
  BY <1>3, LenProperties
<1> HIDE DEF t
<1>5. vad' \in VadSet /\ vad'.drained = vad.drained /\ vad'.q = t /\ vad'.active = a
  BY <1>3 DEF VadSet, t
<1>6. 1 \in 1..n /\ \A i \in 1..(n - 1) : i + 1 \in 1..n
  BY <1>1, <1>2
<1> QED BY <1>1, <1>2, <1>3, <1>4, <1>5, <1>6 DEF Taken

EpIs(at, pending) == ep' \in EpSet /\ ep'.at = at /\ ep'.pending = pending

\* The cases of ReadsEvent.
EventRead ==
  LET e == vad.q[1] IN
  /\ Taken /\ ep.at = "next" /\ UNCHANGED <<mic, gen, rx, out, srv, run>>
  /\ \/ conf.vad /\ e.type = "start" /\ EpIs("flush", e.frames) /\ vad'.active = TRUE
     \/ ~conf.vad /\ EpIs("flush", ep.pending \o e.frames) /\ vad'.active = FALSE
     \/ conf.vad /\ e.type = "speech" /\ vad.active /\ EpIs("flush", ep.pending \o e.frames) /\ vad'.active = TRUE
     \/ conf.vad /\ e.type = "end" /\ vad.active /\ EpIs("rest", ep.pending) /\ vad'.active = TRUE
     \/ conf.vad /\ e.type # "start" /\ ~vad.active /\ EpIs("next", ep.pending) /\ vad'.active = FALSE

LEMMA EventReadIs ==
  ASSUME HearTypes, ReadsEvent
  PROVE  EventRead
<1> DEFINE e == vad.q[1]
<1>1. /\ conf.vad \in BOOLEAN /\ vad \in VadSet /\ ep \in EpSet /\ vad.q # <<>> /\ ep.at = "next"
      /\ UNCHANGED <<mic, gen, rx, out, srv, run>> /\ vad.active \in BOOLEAN
  BY VadIs DEF HearTypes, ReadsEvent
<1>2. vad.q \in Seq(VadEvents) /\ Head(vad.q) = e /\ e \in VadEvents
  BY <1>1, VadIs
<1>3. e.type \in {"start", "speech", "end"} /\ e.frames \in Seq(Units)
  BY <1>2, EventIs
<1>4. ep.pending \in Seq(Units) /\ ep.pending \o e.frames \in Seq(Units) /\ <<>> \o e.frames = e.frames
  BY <1>1, <1>3 DEF EpSet
<1>5. ASSUME vad' = [vad EXCEPT !.q = Tail(@)] PROVE Taken /\ vad'.active = vad.active
  <2>1. vad' = [vad EXCEPT !.q = Tail(@), !.active = vad.active]
    BY <1>1, <1>5 DEF VadSet
  <2> QED BY <1>1, <2>1, TakenIs
<1>6. ASSUME NEW p \in Seq(Units), ep' = [at |-> "flush", pending |-> p] PROVE EpIs("flush", p)
  BY <1>6 DEF EpIs, EpSet
<1>7. ASSUME ep' = ep PROVE EpIs("next", ep.pending)
  BY <1>1, <1>7 DEF EpIs, EpSet
<1>8. ASSUME ep' = [ep EXCEPT !.at = "rest"] PROVE EpIs("rest", ep.pending)
  BY <1>1, <1>8 DEF EpIs, EpSet
<1>9. ASSUME ep' = [ep EXCEPT !.at = "next"] PROVE EpIs("next", ep.pending)
  BY <1>1, <1>9 DEF EpIs, EpSet
<1> HIDE DEF e
<1>10. CASE /\ e.type = "start" \/ ~conf.vad
            /\ ep' = [at |-> "flush", pending |-> (IF conf.vad THEN <<>> ELSE ep.pending) \o e.frames]
            /\ vad' = [vad EXCEPT !.q = Tail(@), !.active = conf.vad]
  <2>1. Taken /\ vad'.active = conf.vad
    BY <1>1, <1>10, TakenIs
  <2>2. CASE conf.vad
    <3>1. ep' = [at |-> "flush", pending |-> e.frames]
      BY <1>4, <1>10, <2>2
    <3> QED BY <1>1, <1>3, <1>6, <1>10, <2>1, <2>2, <3>1 DEF EventRead, e
  <2>3. CASE ~conf.vad
    <3>1. ep' = [at |-> "flush", pending |-> ep.pending \o e.frames]
      BY <1>10, <2>3
    <3> QED BY <1>1, <1>4, <1>6, <2>1, <2>3, <3>1 DEF EventRead, e
  <2> QED BY <2>2, <2>3
<1>11. CASE /\ e.type = "speech" /\ conf.vad
            /\ ep' = IF vad.active THEN [at |-> "flush", pending |-> ep.pending \o e.frames] ELSE ep
            /\ vad' = [vad EXCEPT !.q = Tail(@)]
  BY <1>1, <1>4, <1>5, <1>6, <1>7, <1>11 DEF EventRead, e
<1>12. CASE /\ e.type = "end" /\ conf.vad
            /\ ep' = [ep EXCEPT !.at = IF vad.active THEN "rest" ELSE "next"]
            /\ vad' = [vad EXCEPT !.q = Tail(@)]
  BY <1>1, <1>5, <1>8, <1>9, <1>12 DEF EventRead, e
<1> QED BY <1>2, <1>10, <1>11, <1>12 DEF ReadsEvent

\* Some of what is pending goes to the recognizer.
Sent(units) ==
  /\ units \in Seq(Units) /\ units # <<>> /\ ep'.pending \in Seq(Units) /\ ep.pending = units \o ep'.pending
  /\ gen.ready /\ gen' \in GenSet /\ gen'.ready = gen.ready /\ gen'.audio = TRUE /\ gen'.final = gen.final
  /\ srv' = Appended(units)

\* FlushesAudio: nothing to send, or the first chunk.
Flushed ==
  /\ ep.at = "flush" /\ ep' \in EpSet /\ UNCHANGED <<mic, vad, rx, out, run>>
  /\ \/ ep'.at = "next" /\ ep'.pending = ep.pending /\ UNCHANGED <<gen, srv>>
     \/ ep'.at = "flush" /\ \E units \in Seq(Units) : Sent(units)

LEMMA FlushedIs ==
  ASSUME HearTypes, FlushesAudio
  PROVE  Flushed
<1> DEFINE p == ep.pending
           a == SubSeq(p, 1, Chunk)
           b == SubSeq(p, Chunk + 1, Len(p))
<1>1. ep \in EpSet /\ p \in Seq(Units) /\ gen \in GenSet /\ ep.at = "flush" /\ UNCHANGED <<mic, vad, rx, out, run>>
  BY DEF HearTypes, EpSet, FlushesAudio
<1>2. CASE Len(p) < Chunk
  <2>1. ep' = [ep EXCEPT !.at = "next"] /\ UNCHANGED <<gen, srv>>
    BY <1>2 DEF FlushesAudio
  <2>2. ep' \in EpSet /\ ep'.at = "next" /\ ep'.pending = ep.pending
    BY <1>1, <2>1 DEF EpSet
  <2> QED BY <1>1, <2>1, <2>2 DEF Flushed
<1>3. CASE ~(Len(p) < Chunk)
  <2>1. gen.ready /\ srv' = Appended(a) /\ ep' = [ep EXCEPT !.pending = b] /\ gen' = [gen EXCEPT !.audio = TRUE]
    BY <1>3 DEF FlushesAudio, Appendable
  <2>2. Len(p) \in Nat /\ Chunk \in Nat /\ Chunk > 0 /\ Chunk <= Len(p)
    BY <1>1, <1>3, TranscriberAssumption
  <2>3. a \in Seq(Units) /\ Len(a) = Chunk /\ b \in Seq(Units)
    <3>1. \A i \in 1..Chunk : p[i] \in Units
      BY <1>1, <2>2
    <3>2. \A i \in (Chunk + 1)..Len(p) : p[i] \in Units
      BY <1>1, <2>2
    <3>3. a \in Seq(Units) /\ Len(a) = IF 1 <= Chunk THEN Chunk - 1 + 1 ELSE 0
      BY <2>2, <3>1, SubSeqProperties
    <3>4. (IF 1 <= Chunk THEN Chunk - 1 + 1 ELSE 0) = Chunk /\ Chunk + 1 \in Int /\ Len(p) \in Int
      BY <2>2
    <3>5. b \in Seq(Units)
      BY <3>2, <3>4, SubSeqProperties
    <3> QED BY <3>3, <3>4, <3>5
  <2>4. p = a \o b
    <3>1. 1 \in 1..(Len(p) + 1) /\ Chunk \in (1 - 1)..Len(p) /\ Len(p) \in Chunk..Len(p)
      BY <2>2
    <3>2. a \o b = SubSeq(p, 1, Len(p))
      BY <1>1, <3>1, ConcatAdjacentSubSeq
    <3> QED BY <1>1, <3>2, SubSeqFull
  <2>5. a # <<>>
    BY <2>2, <2>3
  <2> HIDE DEF a, b, p
  <2>6. ep' \in EpSet /\ ep'.at = ep.at /\ ep'.pending = b
    BY <1>1, <2>1, <2>3 DEF EpSet
  <2>7. gen' \in GenSet /\ gen'.ready = gen.ready /\ gen'.audio = TRUE /\ gen'.final = gen.final
    BY <1>1, <2>1 DEF GenSet
  <2>8. Sent(a)
    BY <2>1, <2>3, <2>4, <2>5, <2>6, <2>7 DEF Sent, p
  <2> QED BY <1>1, <2>3, <2>6, <2>8 DEF Flushed
<1> QED BY <1>2, <1>3

\* SendsRest: all that is pending, if anything.
RestSent ==
  /\ ep.at \in {"rest", "lastRest"} /\ ep' \in EpSet /\ ep'.pending = <<>>
  /\ ep'.at = IF ep.at = "rest" THEN "commit" ELSE "lastCommit"
  /\ vad' \in VadSet /\ vad'.active = FALSE /\ vad'.q = vad.q /\ vad'.drained = vad.drained
  /\ UNCHANGED <<mic, rx, out, run>>
  /\ (ep.pending = <<>> /\ UNCHANGED <<gen, srv>>) \/ Sent(ep.pending)

LEMMA RestSentIs ==
  ASSUME HearTypes, SendsRest
  PROVE  RestSent
<1>1. /\ ep \in EpSet /\ gen \in GenSet /\ vad \in VadSet /\ ep.at \in {"rest", "lastRest"} /\ UNCHANGED <<mic, rx, out, run>>
      /\ ep' = [at |-> IF ep.at = "rest" THEN "commit" ELSE "lastCommit", pending |-> <<>>]
      /\ vad' = [vad EXCEPT !.active = FALSE]
  BY DEF HearTypes, SendsRest
<1>2. ep.pending \in Seq(Units) /\ gen.audio \in BOOLEAN
  BY <1>1 DEF EpSet, GenSet
<1>3. ep' \in EpSet /\ ep'.pending = <<>> /\ ep'.at = IF ep.at = "rest" THEN "commit" ELSE "lastCommit"
  BY <1>1 DEF EpSet
<1>4. vad' \in VadSet /\ vad'.active = FALSE /\ vad'.q = vad.q /\ vad'.drained = vad.drained
  BY <1>1 DEF VadSet
<1>5. CASE ep.pending = <<>>
  <2> DEFINE b == gen.audio \/ ep.pending # <<>>
  <2>1. gen' = [gen EXCEPT !.audio = b] /\ b = gen.audio /\ srv' = srv
    BY <1>2, <1>5 DEF SendsRest
  <2> HIDE DEF b
  <2>2. gen' = gen
    BY <1>1, <2>1 DEF GenSet
  <2> QED BY <1>1, <1>3, <1>4, <1>5, <2>1, <2>2 DEF RestSent
<1>6. CASE ep.pending # <<>>
  <2> DEFINE b == gen.audio \/ ep.pending # <<>>
  <2>1. gen' = [gen EXCEPT !.audio = b] /\ b = TRUE /\ srv' = Appended(ep.pending) /\ gen.ready
    BY <1>6 DEF SendsRest, Appendable
  <2> HIDE DEF b
  <2>2. gen' \in GenSet /\ gen'.ready = gen.ready /\ gen'.audio = TRUE /\ gen'.final = gen.final
    BY <1>1, <2>1 DEF GenSet
  <2>3. ep.pending = ep.pending \o ep'.pending /\ ep'.pending \in Seq(Units)
    BY <1>2, <1>3, ConcatEmptySeq
  <2>4. Sent(ep.pending)
    BY <1>2, <1>6, <2>1, <2>2, <2>3 DEF Sent
  <2> QED BY <1>1, <1>3, <1>4, <2>4 DEF RestSent
<1> QED BY <1>5, <1>6

\* Finalizes: nothing to commit, or the commit.
Finalized ==
  /\ ep.at \in {"commit", "lastCommit"} /\ ep' \in EpSet /\ ep'.pending = ep.pending
  /\ ep'.at = IF ep.at = "commit" THEN "next" ELSE "over"
  /\ UNCHANGED <<mic, vad, rx, out, run>>
  /\ \/ (gen.final \/ (conf.vad /\ ~gen.audio)) /\ UNCHANGED <<gen, srv>>
     \/ /\ gen.ready /\ gen' \in GenSet /\ gen'.ready = FALSE /\ gen'.final = TRUE /\ gen'.audio = gen.audio
        /\ srv' = Commits

LEMMA FinalizedIs ==
  ASSUME HearTypes, Finalizes
  PROVE  Finalized
<1>1. /\ ep \in EpSet /\ gen \in GenSet /\ ep.at \in {"commit", "lastCommit"} /\ UNCHANGED <<mic, vad, rx, out, run>>
      /\ ep' = [ep EXCEPT !.at = IF ep.at = "commit" THEN "next" ELSE "over"]
  BY DEF HearTypes, Finalizes
<1>2. ep' \in EpSet /\ ep'.pending = ep.pending /\ ep'.at = IF ep.at = "commit" THEN "next" ELSE "over"
  BY <1>1 DEF EpSet
<1>3. CASE gen.final \/ (conf.vad /\ ~gen.audio)
  BY <1>1, <1>2, <1>3 DEF Finalizes, Finalized
<1>4. CASE ~(gen.final \/ (conf.vad /\ ~gen.audio))
  <2>1. gen.ready /\ gen' = [gen EXCEPT !.ready = FALSE, !.final = TRUE] /\ srv' = Commits
    BY <1>4 DEF Finalizes
  <2>2. gen' \in GenSet /\ gen'.ready = FALSE /\ gen'.final = TRUE /\ gen'.audio = gen.audio
    BY <1>1, <2>1 DEF GenSet
  <2> QED BY <1>1, <1>2, <2>1, <2>2 DEF Finalized
<1> QED BY <1>3, <1>4

\* Drains: the socket is closed when there is nothing to commit.
Drained ==
  /\ ep.at = "next" /\ vad.q = <<>> /\ mic.closed /\ ep' \in EpSet /\ ep'.pending = ep.pending
  /\ ep'.at = IF vad.active \/ ~conf.vad THEN "lastRest" ELSE "over"
  /\ vad' \in VadSet /\ vad'.active = vad.active /\ vad'.q = vad.q
  /\ srv' \in SrvSet /\ srv'.gens = srv.gens /\ srv'.inbox = srv.inbox /\ srv'.stray = srv.stray
  /\ srv'.line = srv.line \/ (srv.line = "open" /\ srv'.line = "closed" /\ conf.vad /\ ~vad.active /\ ~gen.audio)
  /\ UNCHANGED <<mic, gen, rx, out, run>>

LEMMA DrainedIs ==
  ASSUME HearTypes, Drains
  PROVE  Drained
<1>1. /\ ep \in EpSet /\ vad \in VadSet /\ srv \in SrvSet /\ ep.at = "next" /\ vad.q = <<>> /\ mic.closed
      /\ UNCHANGED <<mic, gen, rx, out, run>>
      /\ ep' = [ep EXCEPT !.at = IF vad.active \/ ~conf.vad THEN "lastRest" ELSE "over"]
      /\ vad' = [vad EXCEPT !.drained = TRUE]
      /\ srv' = IF srv.line = "open" /\ conf.vad /\ ~vad.active /\ ~gen.audio THEN [srv EXCEPT !.line = "closed"] ELSE srv
  BY DEF HearTypes, Drains
<1>2. ep' \in EpSet /\ ep'.pending = ep.pending /\ ep'.at = IF vad.active \/ ~conf.vad THEN "lastRest" ELSE "over"
  BY <1>1 DEF EpSet
<1>3. vad' \in VadSet /\ vad'.active = vad.active /\ vad'.q = vad.q
  BY <1>1 DEF VadSet
<1> DEFINE t == [srv EXCEPT !.line = "closed"]
<1>4. t \in SrvSet /\ t.gens = srv.gens /\ t.inbox = srv.inbox /\ t.stray = srv.stray /\ t.line = "closed"
  BY <1>1 DEF SrvSet
<1>5. srv' = IF srv.line = "open" /\ conf.vad /\ ~vad.active /\ ~gen.audio THEN t ELSE srv
  BY <1>1
<1> HIDE DEF t
<1>6. /\ srv' \in SrvSet /\ srv'.gens = srv.gens /\ srv'.inbox = srv.inbox /\ srv'.stray = srv.stray
      /\ srv'.line = srv.line \/ (srv.line = "open" /\ srv'.line = "closed" /\ conf.vad /\ ~vad.active /\ ~gen.audio)
  BY <1>1, <1>4, <1>5
<1> QED BY <1>1, <1>2, <1>3, <1>6 DEF Drained

\* Armed: a new generation, if the socket is open.
Rearmed ==
  /\ rx = "arm" /\ rx' = "receive" /\ UNCHANGED <<mic, vad, ep, out, run>>
  /\ srv' = IF srv.line = "open" THEN Arms ELSE srv
  /\ gen' \in GenSet /\ gen'.ready = TRUE /\ gen'.final = gen.final /\ gen'.audio = gen.audio

LEMMA RearmedIs ==
  ASSUME HearTypes, Armed
  PROVE  Rearmed
BY DEF HearTypes, Armed, Rearmed, GenSet

\* Receives: a delta, or the done.
Received ==
  LET msg == srv.inbox[1] IN
  /\ rx = "receive" /\ srv.inbox # <<>> /\ 1 \in DOMAIN srv.inbox /\ UNCHANGED <<mic, vad, ep, run>>
  /\ srv' \in SrvSet /\ srv'.gens = srv.gens /\ srv'.stray = srv.stray /\ srv'.line = srv.line
  /\ DOMAIN srv'.inbox = 1..(Len(srv.inbox) - 1) /\ Len(srv'.inbox) = Len(srv.inbox) - 1
  /\ \A i \in DOMAIN srv'.inbox : i + 1 \in DOMAIN srv.inbox /\ srv'.inbox[i] = srv.inbox[i + 1]
  /\ \/ msg.type = "delta" /\ UNCHANGED <<gen, rx>>
     \/ msg.type = "done" /\ rx' = "over" /\ UNCHANGED gen
     \/ /\ msg.type = "done" /\ rx' = "arm" /\ gen' \in GenSet
        /\ gen'.ready = gen.ready /\ gen'.audio = FALSE /\ gen'.final = FALSE

LEMMA ReceivedIs ==
  ASSUME HearTypes, Receives
  PROVE  Received
<1> DEFINE t == Tail(srv.inbox)
           n == Len(srv.inbox)
<1>1. gen \in GenSet /\ srv \in SrvSet /\ rx = "receive" /\ srv.inbox # <<>> /\ UNCHANGED <<mic, vad, ep, run>> /\ srv' = [srv EXCEPT !.inbox = t]
  BY DEF HearTypes, Receives
<1>2. srv.inbox \in Seq(Messages) /\ n \in Nat /\ DOMAIN srv.inbox = 1..n
  BY <1>1, SrvIs
<1>3. n >= 1 /\ Head(srv.inbox) = srv.inbox[1]
  BY <1>1, <1>2
<1>4. t \in Seq(Messages) /\ Len(t) = n - 1 /\ \A i \in 1..(n - 1) : t[i] = srv.inbox[i + 1]
  BY <1>1, <1>2
<1>5. DOMAIN t = 1..(n - 1)
  BY <1>4, LenProperties
<1>6. 1 \in 1..n /\ \A i \in 1..(n - 1) : i + 1 \in 1..n
  BY <1>2, <1>3
<1> HIDE DEF t
<1>7. srv' \in SrvSet /\ srv'.gens = srv.gens /\ srv'.stray = srv.stray /\ srv'.line = srv.line /\ srv'.inbox = t
  BY <1>1, <1>4 DEF SrvSet
<1>8. \/ srv.inbox[1].type = "delta" /\ UNCHANGED <<gen, rx>>
      \/ srv.inbox[1].type = "done" /\ rx' = "over" /\ UNCHANGED gen
      \/ srv.inbox[1].type = "done" /\ rx' = "arm" /\ gen' = [gen EXCEPT !.audio = FALSE, !.final = FALSE]
  BY <1>3 DEF Receives
<1>9. ASSUME gen' = [gen EXCEPT !.audio = FALSE, !.final = FALSE]
      PROVE  gen' \in GenSet /\ gen'.ready = gen.ready /\ gen'.audio = FALSE /\ gen'.final = FALSE
  BY <1>1, <1>9 DEF GenSet
<1> QED BY <1>1, <1>2, <1>4, <1>5, <1>6, <1>7, <1>8, <1>9 DEF Received

\* Hangs: the socket breaks.
LineDropped ==
  /\ srv' \in SrvSet /\ srv'.gens = srv.gens /\ srv'.inbox = srv.inbox /\ srv'.stray = srv.stray
  /\ srv.line = "open" /\ srv'.line = "dropped" /\ UNCHANGED <<mic, vad, ep, gen, rx, out, run>>

LEMMA LineDroppedIs ==
  ASSUME HearTypes, Hangs
  PROVE  LineDropped
BY DEF HearTypes, Hangs, LineDropped, SrvSet

\* The caller's steps, the small ones of the stream and those of the segments.
Starts ==
  /\ Realtime /\ ~mic.closed /\ ~mic.talking /\ Said(mic.utt + 1, 1) /\ Reported("start", <<<<mic.utt + 1, 1>>>>)
  /\ UNCHANGED <<ep, gen, rx, out, srv, run>>
GoesOn ==
  /\ Realtime /\ ~mic.closed /\ mic.talking /\ Said(mic.utt, mic.units + 1) /\ Reported("speech", <<<<mic.utt, mic.units + 1>>>>)
  /\ UNCHANGED <<ep, gen, rx, out, srv, run>>
SameSpeech == mic' \in MicSet /\ mic'.utt = mic.utt /\ mic'.units = mic.units /\ mic'.said = mic.said
Pauses ==
  /\ Realtime /\ ~mic.closed /\ mic.talking /\ SameSpeech /\ mic'.talking = FALSE /\ mic'.ended = mic.ended
  /\ mic'.closed = mic.closed /\ Reported("end", <<>>) /\ UNCHANGED <<ep, gen, rx, out, srv, run>>
Closes ==
  /\ Realtime /\ ~(mic.ended /\ mic.closed) /\ SameSpeech /\ mic'.talking = mic.talking /\ mic'.ended = TRUE
  /\ UNCHANGED <<vad, ep, gen, rx, out, srv, run>>
Moves ==
  /\ Realtime /\ UNCHANGED <<mic, vad, ep, gen, out, srv>>
  /\ \/ rx = "connect" /\ rx' = "arm" /\ run' = run
     \/ rx = "receive" /\ srv.inbox = <<>> /\ srv.line # "open" /\ rx' = "over" /\ run' = run
     \/ rx' = rx /\ run' = "failed"
     \/ rx' = rx /\ rx = "over" /\ ep.at = "over" /\ run' = "over"
Segmenting ==
  /\ ~Realtime /\ UNCHANGED <<vad, ep, gen, srv>> /\ mic' \in MicSet
  /\ mic'.said = mic.said /\ mic'.talking = mic.talking /\ mic'.closed = mic.closed
  /\ rx' \in {"connect", "receive"} /\ run' \in {"on", "over", "failed"}
Asked == Realtime /\ (Answered(TRUE) \/ Answered(FALSE)) /\ UNCHANGED <<mic, vad, ep, gen, rx, out, run>>

Step ==
  \/ Starts \/ GoesOn \/ Pauses \/ Closes \/ Moves \/ Segmenting \/ Asked
  \/ Realtime /\ (EventRead \/ Flushed \/ RestSent \/ Finalized \/ Drained \/ Rearmed \/ Received \/ LineDropped)

LEMMA EveryStep ==
  ASSUME HearTypes, TranscriberNext
  PROVE  Step
<1>1. mic \in MicSet /\ vad \in VadSet /\ mic.utt \in Nat /\ mic.units \in Nat /\ mic.utt + 1 \in Nat /\ mic.units + 1 \in Nat
  BY DEF HearTypes, MicSet
<1>2. /\ <<<<mic.utt + 1, 1>>>> \in Seq(Units) /\ <<<<mic.utt, mic.units + 1>>>> \in Seq(Units) /\ <<>> \in Seq(Units)
  BY <1>1 DEF Units
<1>3. CASE StartsSpeech
  <2>1. /\ Realtime /\ ~mic.closed /\ ~mic.talking /\ UNCHANGED <<ep, gen, rx, out, srv, run>>
        /\ mic' = Says(mic.utt + 1, 1) /\ Event("start", <<<<mic.utt + 1, 1>>>>)
    BY <1>3 DEF StartsSpeech, On
  <2>2. Said(mic.utt + 1, 1)
    BY <1>1, <2>1, SaidIs
  <2>3. Reported("start", <<<<mic.utt + 1, 1>>>>)
    BY <1>1, <1>2, <2>1, ReportedIs
  <2> QED BY <2>1, <2>2, <2>3 DEF Starts, Step
<1>4. CASE SpeaksOn
  <2>1. /\ Realtime /\ ~mic.closed /\ mic.talking /\ UNCHANGED <<ep, gen, rx, out, srv, run>>
        /\ mic' = Says(mic.utt, mic.units + 1) /\ Event("speech", <<<<mic.utt, mic.units + 1>>>>)
    BY <1>4 DEF SpeaksOn, On
  <2>2. Said(mic.utt, mic.units + 1)
    BY <1>1, <2>1, SaidIs
  <2>3. Reported("speech", <<<<mic.utt, mic.units + 1>>>>)
    BY <1>1, <1>2, <2>1, ReportedIs
  <2> QED BY <2>1, <2>2, <2>3 DEF GoesOn, Step
<1>5. CASE FallsSilent
  <2>1. /\ Realtime /\ ~mic.closed /\ mic.talking /\ UNCHANGED <<ep, gen, rx, out, srv, run>>
        /\ mic' = [mic EXCEPT !.talking = FALSE] /\ Event("end", <<>>)
    BY <1>5 DEF FallsSilent, On
  <2>2. SameSpeech /\ mic'.talking = FALSE /\ mic'.ended = mic.ended /\ mic'.closed = mic.closed
    BY <1>1, <2>1 DEF MicSet, SameSpeech
  <2>3. Reported("end", <<>>)
    BY <1>1, <1>2, <2>1, ReportedIs
  <2> QED BY <2>1, <2>2, <2>3 DEF Pauses, Step
<1>6. CASE InputEnds
  <2> DEFINE b == mic.ended \/ ~conf.vad
  <2>1. /\ Realtime /\ ~(mic.ended /\ mic.closed) /\ UNCHANGED <<vad, ep, gen, rx, out, srv, run>>
        /\ mic' = [mic EXCEPT !.ended = TRUE, !.closed = b]
    BY <1>6 DEF InputEnds, On
  <2>2. b \in BOOLEAN
    BY DEF HearTypes, MicSet
  <2> HIDE DEF b
  <2>3. SameSpeech /\ mic'.talking = mic.talking /\ mic'.ended = TRUE
    BY <1>1, <2>1, <2>2 DEF MicSet, SameSpeech
  <2> QED BY <2>1, <2>3 DEF Closes, Step
<1>7. CASE Answers
  <2>1. Realtime /\ UNCHANGED <<mic, vad, ep, gen, rx, out, run>>
    BY <1>7 DEF Answers, On
  <2>2. Answered(TRUE) \/ Answered(FALSE)
    BY <1>7, AnswersIs DEF HearTypes
  <2> QED BY <2>1, <2>2 DEF Asked, Step
<1>8. CASE Connects \/ SeesClose \/ Raises \/ Returns
  BY <1>8 DEF Connects, SeesClose, Raises, Returns, On, Moves, Step
<1>9. CASE ReadsEvent \/ FlushesAudio \/ SendsRest \/ Finalizes \/ Drains \/ Armed \/ Receives \/ Hangs
  <2>1. Realtime
    BY <1>9 DEF ReadsEvent, FlushesAudio, SendsRest, Finalizes, Drains, Armed, Receives, Hangs, On
  <2>2. EventRead \/ Flushed \/ RestSent \/ Finalized \/ Drained \/ Rearmed \/ Received \/ LineDropped
    BY <1>9, EventReadIs, FlushedIs, RestSentIs, FinalizedIs, DrainedIs, RearmedIs, ReceivedIs, LineDroppedIs
  <2> QED BY <2>1, <2>2 DEF Step
<1>10. CASE Segments
  <2>1. ~Realtime /\ run = "on" /\ UNCHANGED <<vad, ep, gen, srv>>
    BY <1>10 DEF Segments, Collects, Transcribes, ProcessLine, SegmentOver, SegmentsEnd, Segment
  <2>2. CASE Collects
    <3>1. mic' = [mic EXCEPT !.units = @ + 1] /\ rx' = rx /\ rx \in {"connect", "receive"} /\ run' = run
      BY <2>2 DEF Collects, Segment
    <3>2. mic' \in MicSet /\ mic'.said = mic.said /\ mic'.talking = mic.talking /\ mic'.closed = mic.closed
      BY <1>1, <3>1 DEF MicSet
    <3> QED BY <2>1, <3>1, <3>2 DEF Segmenting, Step
  <2>3. CASE Transcribes
    <3> DEFINE b == (mic.utt + 1 = MaxUtts)
    <3>1. mic' = [mic EXCEPT !.utt = @ + 1, !.units = 0, !.ended = b] /\ rx' \in {"connect", "receive"} /\ run' = run
      BY <2>3 DEF Transcribes
    <3>2. b \in BOOLEAN
      OBVIOUS
    <3> HIDE DEF b
    <3>3. mic' \in MicSet /\ mic'.said = mic.said /\ mic'.talking = mic.talking /\ mic'.closed = mic.closed
      BY <1>1, <3>1, <3>2 DEF MicSet
    <3> QED BY <2>1, <3>1, <3>3 DEF Segmenting, Step
  <2>4. CASE ProcessLine \/ SegmentOver \/ SegmentsEnd
    <3>1. mic' = mic /\ rx' \in {"connect", "receive"} /\ run' \in {"on", "over", "failed"}
      BY <2>1, <2>4 DEF ProcessLine, SegmentOver, SegmentsEnd, Segment
    <3> QED BY <1>1, <2>1, <3>1 DEF Segmenting, Step
  <2> QED BY <1>10, <2>2, <2>3, <2>4 DEF Segments
<1> QED BY <1>3, <1>4, <1>5, <1>6, <1>7, <1>8, <1>9, <1>10 DEF TranscriberNext, Recognizes

LEMMA TypesKept ==
  ASSUME HearTypes, Step, UNCHANGED conf, out' \in OutSet
  PROVE  HearTypes'
<1>1. /\ conf.vad \in BOOLEAN /\ mic \in MicSet /\ vad \in VadSet /\ ep \in EpSet /\ gen \in GenSet
      /\ srv \in SrvSet /\ rx \in {"connect", "arm", "receive", "over"} /\ run \in {"on", "over", "failed"}
  BY DEF HearTypes
<1>2. ASSUME NEW units, Sent(units) PROVE srv' \in SrvSet /\ gen' \in GenSet
  BY <1>1, <1>2, AppendedIs, StrayIs DEF Sent
<1>3. Commits \in SrvSet /\ Arms \in SrvSet
  BY <1>1, CommitsIs, ArmsIs DEF Commits
<1>4. conf'.vad \in BOOLEAN /\ mic' \in MicSet
  BY <1>1 DEF Step, Starts, GoesOn, Pauses, Closes, Moves, Segmenting, Asked, EventRead, Flushed, RestSent, Finalized, Drained,
     Rearmed, Received, LineDropped, Said, SameSpeech
<1>5. vad' \in VadSet /\ ep' \in EpSet
  BY <1>1 DEF Step, Starts, GoesOn, Pauses, Closes, Moves, Segmenting, Asked, EventRead, Flushed, RestSent, Finalized, Drained,
     Rearmed, Received, LineDropped, Taken, Reported, EpIs
<1>6. gen' \in GenSet /\ srv' \in SrvSet
  BY <1>1, <1>2, <1>3 DEF Step, Starts, GoesOn, Pauses, Closes, Moves, Segmenting, Asked, EventRead, Flushed, RestSent, Finalized, Drained,
     Rearmed, Received, LineDropped, Answered
<1>7. rx' \in {"connect", "arm", "receive", "over"} /\ run' \in {"on", "over", "failed"}
  BY <1>1 DEF Step, Starts, GoesOn, Pauses, Closes, Moves, Segmenting, Asked, EventRead, Flushed, RestSent, Finalized, Drained,
     Rearmed, Received, LineDropped
<1> QED BY <1>4, <1>5, <1>6, <1>7 DEF HearTypes

LEMMA OthersKept ==
  ASSUME HearTypes, Segmented, Returned, Step, run = "on", UNCHANGED conf
  PROVE  Segmented' /\ Returned'
<1>1. Realtime' <=> Realtime
  BY DEF Realtime
<1>2. CASE Realtime
  <2>1. run' = "over" => rx' = "over" /\ ep'.at = "over"
    BY <1>2 DEF Step, Starts, GoesOn, Pauses, Closes, Moves, Segmenting, Asked, EventRead, Flushed, RestSent, Finalized, Drained,
       Rearmed, Received, LineDropped
  <2> QED BY <1>1, <1>2, <2>1 DEF Segmented, Returned
<1>3. CASE ~Realtime
  <2>1. Segmenting
    BY <1>3 DEF Step, Starts, GoesOn, Pauses, Closes, Moves, Asked
  <2> QED BY <1>1, <1>3, <2>1 DEF Segmented, Returned, Segmenting
<1> QED BY <1>2, <1>3

-----------------------------------------------------------------------------
(* The generations: Generating, part by part, of a recognizer s, the flags f, *)
(* the receiving task's place r and the sending one's.                       *)

OpenIn(s) == s.gens # <<>> /\ ~s.gens[Len(s.gens)].final
OneUndone(s) ==
  \A g \in DOMAIN s.gens : /\ g < Len(s.gens) => s.gens[g].done
                           /\ s.gens[g].done => s.gens[g].final
FlagsTell(s, f) ==
  /\ f.ready => ~f.final
  /\ f.ready /\ s.line = "open" => OpenIn(s)
  /\ OpenIn(s) => f.ready
Unarmed(s, f, r) ==
  r \in {"connect", "arm"} => ~f.ready /\ ~f.final /\ ~f.audio /\ (s.gens # <<>> => s.gens[Len(s.gens)].done)
DoneIsLast(s, f, r) ==
  \A m \in DOMAIN s.inbox : s.inbox[m].type = "done" =>
    m = Len(s.inbox) /\ f.final /\ r = "receive" /\ s.gens # <<>> /\ s.gens[Len(s.gens)].done
FinalPending(s, f, r) ==
  s.gens # <<>> /\ ~s.gens[Len(s.gens)].done /\ s.gens[Len(s.gens)].final => f.final /\ (r = "receive" \/ s.line # "open")
HeldKnown(s, f) == s.gens # <<>> /\ ~s.gens[Len(s.gens)].done /\ s.gens[Len(s.gens)].audio # <<>> => f.audio
ClosedEmpty(s, f, at) == s.line = "closed" => at = "over" /\ ~f.audio
OverDone(s, f, r) ==
  r = "over" /\ s.line # "dropped" =>
    (f.ready => s.line = "closed") /\ \A g \in DOMAIN s.gens : s.gens[g].done \/ s.gens[g].audio = <<>>

LEMMA OpenIsIn == (Open <=> OpenIn(srv)) /\ (Open' <=> OpenIn(srv'))
BY DEF Open, OpenIn, Last

LEMMA GeneratingIs ==
  Generating <=> /\ OneUndone(srv) /\ FlagsTell(srv, gen) /\ Unarmed(srv, gen, rx) /\ DoneIsLast(srv, gen, rx)
                 /\ FinalPending(srv, gen, rx) /\ HeldKnown(srv, gen) /\ ClosedEmpty(srv, gen, ep.at) /\ OverDone(srv, gen, rx)
BY OpenIsIn DEF Generating, OneUndone, FlagsTell, Unarmed, DoneIsLast, FinalPending, HeldKnown, ClosedEmpty, OverDone

LEMMA GeneratingNext ==
  ASSUME OneUndone(srv'), FlagsTell(srv', gen'), Unarmed(srv', gen', rx'), DoneIsLast(srv', gen', rx'),
         FinalPending(srv', gen', rx'), HeldKnown(srv', gen'), ClosedEmpty(srv', gen', ep'.at), OverDone(srv', gen', rx')
  PROVE  Generating'
BY OpenIsIn DEF Generating, OneUndone, FlagsTell, Unarmed, DoneIsLast, FinalPending, HeldKnown, ClosedEmpty, OverDone

\* The sending task's steps that leave the recognizer alone.
LEMMA GeneratingStays ==
  ASSUME Generating, UNCHANGED <<srv, gen, rx>>, ep'.at = ep.at \/ ep.at # "over"
  PROVE  Generating'
<1>1. /\ OneUndone(srv) /\ FlagsTell(srv, gen) /\ Unarmed(srv, gen, rx) /\ DoneIsLast(srv, gen, rx)
      /\ FinalPending(srv, gen, rx) /\ HeldKnown(srv, gen) /\ ClosedEmpty(srv, gen, ep.at) /\ OverDone(srv, gen, rx)
  BY GeneratingIs
<1>2. ClosedEmpty(srv', gen', ep'.at)
  BY <1>1 DEF ClosedEmpty
<1> QED BY <1>1, <1>2, GeneratingNext

\* Audio reaches a generation that is open, unless the socket broke.
LEMMA SentToOpen ==
  ASSUME Generating, srv \in SrvSet, gen.ready, ep.at # "over"
  PROVE  Open \/ srv.line = "dropped"
<1>1. FlagsTell(srv, gen) /\ ClosedEmpty(srv, gen, ep.at)
  BY GeneratingIs
<1>2. srv.line \in {"open", "dropped", "closed"}
  BY SrvIs
<1> QED BY <1>1, <1>2, OpenIsIn DEF FlagsTell, ClosedEmpty

LEMMA GeneratingSent ==
  ASSUME HearTypes, Generating, HearTypes', NEW units, Sent(units), ep.at # "over", UNCHANGED rx
  PROVE  Generating'
<1>1. /\ OneUndone(srv) /\ FlagsTell(srv, gen) /\ Unarmed(srv, gen, rx) /\ DoneIsLast(srv, gen, rx)
      /\ FinalPending(srv, gen, rx) /\ HeldKnown(srv, gen) /\ ClosedEmpty(srv, gen, ep.at) /\ OverDone(srv, gen, rx)
  BY GeneratingIs
<1>2. /\ srv \in SrvSet /\ units \in Seq(Units) /\ gen.ready /\ gen'.ready = gen.ready /\ gen'.audio = TRUE /\ gen'.final = gen.final
      /\ srv' = Appended(units)
  BY DEF HearTypes, Sent
<1>3. Open \/ srv.line = "dropped"
  BY <1>2, SentToOpen
<1>4. srv.line # "closed" /\ (rx = "over" => srv.line = "dropped")
  BY <1>1, <1>2 DEF ClosedEmpty, OverDone
<1>5. CASE Open
  <2> DEFINE n == Len(srv.gens)
  <2>1. /\ srv'.inbox = srv.inbox /\ srv'.line = srv.line /\ Len(srv'.gens) = n /\ DOMAIN srv'.gens = DOMAIN srv.gens
        /\ srv'.gens[n].final = srv.gens[n].final /\ srv'.gens[n].done = srv.gens[n].done
        /\ \A g \in DOMAIN srv.gens : g # n => srv'.gens[g] = srv.gens[g]
    BY <1>2, <1>5, AppendedIs
  <2>2. srv.gens # <<>> /\ n \in DOMAIN srv.gens /\ ~srv.gens[n].final
    BY <1>2, <1>5, OpenIs
  <2>3. srv'.gens # <<>>
    BY <2>1, <2>2
  <2> HIDE DEF n
  <2>4. OneUndone(srv')
    BY <1>1, <2>1, <2>2 DEF OneUndone, n
  <2>5. OpenIn(srv')
    BY <2>1, <2>2, <2>3 DEF OpenIn
  <2>6. FlagsTell(srv', gen') /\ Unarmed(srv', gen', rx')
    BY <1>1, <1>2, <2>5 DEF FlagsTell, Unarmed
  <2>7. DoneIsLast(srv', gen', rx')
    BY <1>1, <1>2, <2>1, <2>2, <2>3 DEF DoneIsLast, n
  <2>8. FinalPending(srv', gen', rx') /\ HeldKnown(srv', gen') /\ ClosedEmpty(srv', gen', ep'.at) /\ OverDone(srv', gen', rx')
    BY <1>2, <1>4, <2>1, <2>2, <2>3 DEF n, FinalPending, HeldKnown, ClosedEmpty, OverDone
  <2> QED BY <2>4, <2>6, <2>7, <2>8, GeneratingNext
<1>6. CASE ~Open
  <2>1. srv'.gens = srv.gens /\ srv'.inbox = srv.inbox /\ srv'.line = srv.line /\ srv.line = "dropped"
    BY <1>2, <1>3, <1>6, StrayIs
  <2>2. OneUndone(srv') /\ FlagsTell(srv', gen') /\ Unarmed(srv', gen', rx') /\ DoneIsLast(srv', gen', rx')
    BY <1>1, <1>2, <2>1 DEF OneUndone, FlagsTell, Unarmed, DoneIsLast, OpenIn
  <2>3. FinalPending(srv', gen', rx') /\ HeldKnown(srv', gen') /\ ClosedEmpty(srv', gen', ep'.at) /\ OverDone(srv', gen', rx')
    BY <1>1, <1>2, <2>1 DEF FinalPending, HeldKnown, ClosedEmpty, OverDone
  <2> QED BY <2>2, <2>3, GeneratingNext
<1> QED BY <1>5, <1>6

LEMMA GeneratingCommitted ==
  ASSUME HearTypes, Generating, ep.at # "over", UNCHANGED rx,
         gen.ready, gen'.ready = FALSE, gen'.final = TRUE, gen'.audio = gen.audio, srv' = Commits
  PROVE  Generating'
<1>1. /\ OneUndone(srv) /\ FlagsTell(srv, gen) /\ Unarmed(srv, gen, rx) /\ DoneIsLast(srv, gen, rx)
      /\ FinalPending(srv, gen, rx) /\ HeldKnown(srv, gen) /\ ClosedEmpty(srv, gen, ep.at) /\ OverDone(srv, gen, rx)
  BY GeneratingIs
<1>2. srv \in SrvSet
  BY DEF HearTypes
<1>3. srv.line # "closed" /\ rx \notin {"connect", "arm"} /\ (rx = "receive" \/ srv.line = "dropped") /\ ~gen.final
  BY <1>1 DEF ClosedEmpty, OverDone, Unarmed, FlagsTell, HearTypes
<1>4. \A m \in DOMAIN srv.inbox : srv.inbox[m].type # "done"
  BY <1>1, <1>3 DEF DoneIsLast
<1>5. CASE Open
  <2> DEFINE n == Len(srv.gens)
  <2>1. /\ srv'.inbox = srv.inbox /\ srv'.line = srv.line /\ Len(srv'.gens) = n /\ DOMAIN srv'.gens = DOMAIN srv.gens
        /\ srv'.gens[n].audio = srv.gens[n].audio /\ srv'.gens[n].final = TRUE /\ srv'.gens[n].done = srv.gens[n].done
        /\ \A g \in DOMAIN srv.gens : g # n => srv'.gens[g] = srv.gens[g]
    BY <1>2, <1>5, CommitsIs
  <2>2. srv.gens # <<>> /\ n \in DOMAIN srv.gens
    BY <1>2, <1>5, OpenIs
  <2> HIDE DEF n
  <2>3. OneUndone(srv')
    BY <1>1, <2>1, <2>2 DEF OneUndone, n
  <2>4. ~OpenIn(srv')
    BY <2>1 DEF OpenIn
  <2>5. FlagsTell(srv', gen') /\ Unarmed(srv', gen', rx') /\ DoneIsLast(srv', gen', rx')
    BY <1>3, <1>4, <2>1, <2>4 DEF FlagsTell, Unarmed, DoneIsLast
  <2>6. FinalPending(srv', gen', rx') /\ HeldKnown(srv', gen')
    BY <1>1, <1>3, <2>1, <2>2 DEF FinalPending, HeldKnown, n
  <2>7. ClosedEmpty(srv', gen', ep'.at) /\ OverDone(srv', gen', rx')
    BY <1>3, <2>1 DEF ClosedEmpty, OverDone
  <2> QED BY <2>3, <2>5, <2>6, <2>7, GeneratingNext
<1>6. CASE ~Open
  <2>1. srv' = srv /\ ~OpenIn(srv)
    BY <1>6, OpenIsIn DEF Commits
  <2>2. OneUndone(srv') /\ FlagsTell(srv', gen') /\ Unarmed(srv', gen', rx') /\ DoneIsLast(srv', gen', rx')
    BY <1>1, <1>3, <1>4, <2>1 DEF FlagsTell, Unarmed, DoneIsLast
  <2>3. FinalPending(srv', gen', rx') /\ HeldKnown(srv', gen') /\ ClosedEmpty(srv', gen', ep'.at) /\ OverDone(srv', gen', rx')
    BY <1>1, <1>3, <2>1 DEF FinalPending, HeldKnown, ClosedEmpty, OverDone
  <2> QED BY <2>2, <2>3, GeneratingNext
<1> QED BY <1>5, <1>6

LEMMA GeneratingDrained ==
  ASSUME HearTypes, Generating, Drained
  PROVE  Generating'
<1>1. /\ OneUndone(srv) /\ FlagsTell(srv, gen) /\ Unarmed(srv, gen, rx) /\ DoneIsLast(srv, gen, rx)
      /\ FinalPending(srv, gen, rx) /\ HeldKnown(srv, gen) /\ ClosedEmpty(srv, gen, ep.at) /\ OverDone(srv, gen, rx)
  BY GeneratingIs
<1>2. /\ srv'.gens = srv.gens /\ srv'.inbox = srv.inbox /\ UNCHANGED <<gen, rx>> /\ ep.at = "next"
      /\ ep'.at = IF vad.active \/ ~conf.vad THEN "lastRest" ELSE "over"
      /\ srv'.line = srv.line \/ (srv.line = "open" /\ srv'.line = "closed" /\ conf.vad /\ ~vad.active /\ ~gen.audio)
  BY DEF Drained
<1>3. OneUndone(srv') /\ FlagsTell(srv', gen') /\ Unarmed(srv', gen', rx') /\ DoneIsLast(srv', gen', rx') /\ FinalPending(srv', gen', rx') /\ HeldKnown(srv', gen')
  BY <1>1, <1>2 DEF OneUndone, FlagsTell, Unarmed, DoneIsLast, FinalPending, HeldKnown, OpenIn
<1>4. ClosedEmpty(srv', gen', ep'.at)
  BY <1>1, <1>2 DEF ClosedEmpty
<1>5. OverDone(srv', gen', rx')
  BY <1>1, <1>2 DEF OverDone
<1> QED BY <1>3, <1>4, <1>5, GeneratingNext

LEMMA GeneratingArmed ==
  ASSUME HearTypes, Generating, Rearmed
  PROVE  Generating'
<1>1. /\ OneUndone(srv) /\ FlagsTell(srv, gen) /\ Unarmed(srv, gen, rx) /\ DoneIsLast(srv, gen, rx)
      /\ FinalPending(srv, gen, rx) /\ HeldKnown(srv, gen) /\ ClosedEmpty(srv, gen, ep.at) /\ OverDone(srv, gen, rx)
  BY GeneratingIs
<1>2. /\ srv \in SrvSet /\ rx = "arm" /\ rx' = "receive" /\ UNCHANGED ep /\ srv' = IF srv.line = "open" THEN Arms ELSE srv
      /\ gen'.ready = TRUE /\ gen'.final = gen.final /\ gen'.audio = gen.audio
  BY DEF HearTypes, Rearmed
<1>3. ~gen.ready /\ ~gen.final /\ ~gen.audio
  BY <1>1, <1>2 DEF Unarmed
<1>4. ~OpenIn(srv) /\ \A m \in DOMAIN srv.inbox : srv.inbox[m].type # "done"
  BY <1>1, <1>3 DEF FlagsTell, DoneIsLast
<1>5. CASE srv.line = "open"
  <2> DEFINE n == Len(srv.gens)
  <2>1. /\ srv'.inbox = srv.inbox /\ srv'.line = srv.line
        /\ Len(srv'.gens) = n + 1 /\ DOMAIN srv'.gens = 1..(n + 1) /\ srv'.gens # <<>>
        /\ srv'.gens[n + 1].audio = <<>> /\ srv'.gens[n + 1].final = FALSE /\ srv'.gens[n + 1].done = FALSE
        /\ \A g \in DOMAIN srv.gens : srv'.gens[g] = srv.gens[g]
    BY <1>2, <1>5, ArmsIs
  <2>2. n \in Nat /\ DOMAIN srv.gens = 1..n
    BY <1>2, SrvIs
  <2>3. ASSUME NEW g \in 1..n PROVE srv.gens[g].done /\ srv.gens[g].final
    <3>1. g \in DOMAIN srv.gens /\ (g < n \/ g = n) /\ srv.gens # <<>>
      BY <2>2
    <3>2. srv.gens[g].done
      BY <1>1, <1>2, <3>1 DEF OneUndone, Unarmed
    <3> QED BY <1>1, <3>1, <3>2 DEF OneUndone
  <2> HIDE DEF n
  <2>4. OneUndone(srv')
    <3> SUFFICES ASSUME NEW g \in 1..(n + 1)
                 PROVE  (g < n + 1 => srv'.gens[g].done) /\ (srv'.gens[g].done => srv'.gens[g].final)
      BY <2>1 DEF OneUndone
    <3>1. g \in 1..n \/ (g = n + 1 /\ ~(g < n + 1))
      BY <2>2
    <3> QED BY <2>1, <2>2, <2>3, <3>1
  <2>5. OpenIn(srv')
    BY <2>1 DEF OpenIn
  <2>6. FlagsTell(srv', gen') /\ Unarmed(srv', gen', rx') /\ DoneIsLast(srv', gen', rx')
    BY <1>2, <1>3, <1>4, <2>1, <2>5 DEF FlagsTell, Unarmed, DoneIsLast
  <2>7. FinalPending(srv', gen', rx') /\ HeldKnown(srv', gen') /\ ClosedEmpty(srv', gen', ep'.at) /\ OverDone(srv', gen', rx')
    BY <1>2, <1>5, <2>1 DEF FinalPending, HeldKnown, ClosedEmpty, OverDone
  <2> QED BY <2>4, <2>6, <2>7, GeneratingNext
<1>6. CASE srv.line # "open"
  <2>1. srv' = srv
    BY <1>2, <1>6
  <2>2. OneUndone(srv') /\ FlagsTell(srv', gen') /\ Unarmed(srv', gen', rx') /\ DoneIsLast(srv', gen', rx')
    BY <1>1, <1>2, <1>3, <1>4, <1>6, <2>1 DEF FlagsTell, Unarmed, DoneIsLast
  <2>3. FinalPending(srv', gen', rx') /\ HeldKnown(srv', gen') /\ ClosedEmpty(srv', gen', ep'.at) /\ OverDone(srv', gen', rx')
    BY <1>1, <1>2, <2>1 DEF FinalPending, HeldKnown, ClosedEmpty, OverDone
  <2> QED BY <2>2, <2>3, GeneratingNext
<1> QED BY <1>5, <1>6

LEMMA GeneratingReceived ==
  ASSUME HearTypes, Generating, Received
  PROVE  Generating'
<1>1. /\ OneUndone(srv) /\ FlagsTell(srv, gen) /\ Unarmed(srv, gen, rx) /\ DoneIsLast(srv, gen, rx)
      /\ FinalPending(srv, gen, rx) /\ HeldKnown(srv, gen) /\ ClosedEmpty(srv, gen, ep.at) /\ OverDone(srv, gen, rx)
  BY GeneratingIs
<1> DEFINE m == Len(srv.inbox)
<1>2. /\ rx = "receive" /\ 1 \in DOMAIN srv.inbox /\ UNCHANGED ep
      /\ srv'.gens = srv.gens /\ srv'.line = srv.line
      /\ DOMAIN srv'.inbox = 1..(m - 1) /\ Len(srv'.inbox) = m - 1
      /\ \A i \in DOMAIN srv'.inbox : i + 1 \in DOMAIN srv.inbox /\ srv'.inbox[i] = srv.inbox[i + 1]
      /\ m \in Nat
  BY SrvIs DEF Received, HearTypes
<1>3. OneUndone(srv')
  BY <1>1, <1>2 DEF OneUndone
<1>4. CASE srv.inbox[1].type = "delta" /\ UNCHANGED <<gen, rx>>
  <2>1. FlagsTell(srv', gen') /\ Unarmed(srv', gen', rx')
    BY <1>1, <1>2, <1>4 DEF FlagsTell, Unarmed, OpenIn
  <2>2. FinalPending(srv', gen', rx') /\ HeldKnown(srv', gen') /\ ClosedEmpty(srv', gen', ep'.at) /\ OverDone(srv', gen', rx')
    BY <1>1, <1>2, <1>4 DEF FinalPending, HeldKnown, ClosedEmpty, OverDone
  <2>3. DoneIsLast(srv', gen', rx')
    <3> SUFFICES ASSUME NEW i \in DOMAIN srv'.inbox, srv'.inbox[i].type = "done"
                 PROVE  i = m - 1 /\ gen.final /\ rx = "receive" /\ srv.gens # <<>> /\ srv.gens[Len(srv.gens)].done
      BY <1>2, <1>4 DEF DoneIsLast
    <3>1. i + 1 \in DOMAIN srv.inbox /\ srv.inbox[i + 1].type = "done" /\ i \in 1..(m - 1)
      BY <1>2
    <3>2. i + 1 = m /\ gen.final /\ rx = "receive" /\ srv.gens # <<>> /\ srv.gens[Len(srv.gens)].done
      BY <1>1, <3>1 DEF DoneIsLast
    <3> QED BY <1>2, <3>1, <3>2
  <2> QED BY <1>3, <2>1, <2>2, <2>3, GeneratingNext
<1>5. CASE srv.inbox[1].type = "done"
  <2>1. 1 = m /\ gen.final /\ srv.gens # <<>> /\ srv.gens[Len(srv.gens)].done
    BY <1>1, <1>2, <1>5 DEF DoneIsLast
  <2>2. DOMAIN srv'.inbox = {} /\ ~gen.ready
    BY <1>1, <1>2, <2>1 DEF FlagsTell
  <2>2a. ~OpenIn(srv)
    BY <1>1, <2>2 DEF FlagsTell
  <2>3. DoneIsLast(srv', gen', rx')
    BY <2>2 DEF DoneIsLast
  <2>4. FinalPending(srv', gen', rx') /\ HeldKnown(srv', gen')
    BY <1>2, <2>1 DEF FinalPending, HeldKnown
  <2>5. \A g \in DOMAIN srv.gens : srv.gens[g].done
    <3> SUFFICES ASSUME NEW g \in DOMAIN srv.gens PROVE srv.gens[g].done
      OBVIOUS
    <3>1. g < Len(srv.gens) \/ g = Len(srv.gens)
      <4>1. srv \in SrvSet
        BY DEF HearTypes
      <4>2. g \in Nat /\ g <= Len(srv.gens) /\ Len(srv.gens) \in Nat
        BY <4>1, SrvIs, GenerationIs
      <4> QED BY <4>2
    <3> QED BY <1>1, <2>1, <3>1 DEF OneUndone
  <2>6. CASE rx' = "over" /\ UNCHANGED gen
    <3>1. FlagsTell(srv', gen') /\ Unarmed(srv', gen', rx') /\ ClosedEmpty(srv', gen', ep'.at)
      BY <1>1, <1>2, <2>6 DEF FlagsTell, Unarmed, ClosedEmpty, OpenIn
    <3>2. OverDone(srv', gen', rx')
      BY <1>2, <2>2, <2>5, <2>6 DEF OverDone
    <3> QED BY <1>3, <2>3, <2>4, <3>1, <3>2, GeneratingNext
  <2>7. CASE rx' = "arm" /\ gen'.ready = gen.ready /\ gen'.audio = FALSE /\ gen'.final = FALSE
    <3>1. FlagsTell(srv', gen') /\ Unarmed(srv', gen', rx')
      BY <1>2, <2>1, <2>2, <2>2a, <2>7 DEF FlagsTell, Unarmed, OpenIn
    <3>2. ClosedEmpty(srv', gen', ep'.at) /\ OverDone(srv', gen', rx')
      BY <1>1, <1>2, <2>7 DEF ClosedEmpty, OverDone
    <3> QED BY <1>3, <2>3, <2>4, <3>1, <3>2, GeneratingNext
  <2> QED BY <1>5, <2>6, <2>7 DEF Received
<1> QED BY <1>4, <1>5 DEF Received

LEMMA GeneratingAnswered ==
  ASSUME HearTypes, Generating, NEW done \in BOOLEAN, Answered(done), UNCHANGED <<ep, gen, rx>>
  PROVE  Generating'
<1>1. /\ OneUndone(srv) /\ FlagsTell(srv, gen) /\ Unarmed(srv, gen, rx) /\ DoneIsLast(srv, gen, rx)
      /\ FinalPending(srv, gen, rx) /\ HeldKnown(srv, gen) /\ ClosedEmpty(srv, gen, ep.at) /\ OverDone(srv, gen, rx)
  BY GeneratingIs
<1> DEFINE n == Len(srv.gens)
           m == Len(srv.inbox)
<1>2. /\ srv.line = "open" /\ srv'.line = srv.line /\ srv.gens # <<>> /\ ~srv.gens[n].done
      /\ Len(srv'.gens) = n /\ DOMAIN srv'.gens = DOMAIN srv.gens
      /\ srv'.gens[n].audio = srv.gens[n].audio /\ srv'.gens[n].final = srv.gens[n].final /\ srv'.gens[n].done = done
      /\ \A g \in DOMAIN srv.gens : g # n => srv'.gens[g] = srv.gens[g]
      /\ Len(srv'.inbox) = m + 1 /\ DOMAIN srv'.inbox = 1..(m + 1)
      /\ srv'.inbox[m + 1].type = (IF done THEN "done" ELSE "delta")
      /\ \A i \in DOMAIN srv.inbox : srv'.inbox[i] = srv.inbox[i]
      /\ done => srv.gens[n].final
  BY DEF Answered
<1>3. srv \in SrvSet /\ n \in DOMAIN srv.gens /\ m \in Nat /\ DOMAIN srv.inbox = 1..m
  BY <1>2, OpenIs, SrvIs DEF HearTypes
<1>4. srv'.gens # <<>>
  BY <1>2, <1>3
<1> HIDE DEF n, m
<1>5. rx \notin {"connect", "arm"} /\ \A i \in DOMAIN srv.inbox : srv.inbox[i].type # "done"
  BY <1>1, <1>2, <1>3 DEF Unarmed, DoneIsLast, n
<1>6. OneUndone(srv')
  BY <1>1, <1>2, <1>3 DEF OneUndone, n
<1>7. OpenIn(srv') <=> OpenIn(srv)
  BY <1>2, <1>4 DEF OpenIn, n
<1>8. FlagsTell(srv', gen') /\ Unarmed(srv', gen', rx')
  BY <1>1, <1>2, <1>5, <1>7 DEF FlagsTell, Unarmed
<1>9. FinalPending(srv', gen', rx') /\ HeldKnown(srv', gen') /\ ClosedEmpty(srv', gen', ep'.at)
  BY <1>1, <1>2 DEF FinalPending, HeldKnown, ClosedEmpty, n
<1>10. OverDone(srv', gen', rx')
  <2> SUFFICES ASSUME rx = "over", srv.line # "dropped", NEW g \in DOMAIN srv.gens
               PROVE  (gen.ready => srv.line = "closed") /\ (srv'.gens[g].done \/ srv'.gens[g].audio = <<>>)
    BY <1>2 DEF OverDone
  <2>1. (gen.ready => srv.line = "closed") /\ (srv.gens[g].done \/ srv.gens[g].audio = <<>>)
    BY <1>1 DEF OverDone
  <2> QED BY <1>2, <2>1
<1>11. DoneIsLast(srv', gen', rx')
  <2> SUFFICES ASSUME NEW i \in 1..(m + 1), srv'.inbox[i].type = "done"
               PROVE  i = m + 1 /\ gen.final /\ rx = "receive" /\ srv'.gens # <<>> /\ srv'.gens[n].done
    BY <1>2 DEF DoneIsLast
  <2>1. i = m + 1 /\ done
    <3>1. i \in 1..m \/ i = m + 1
      BY <1>3
    <3>2. i \notin 1..m
      BY <1>2, <1>3, <1>5
    <3> QED BY <1>2, <3>1, <3>2
  <2>2. gen.final /\ rx = "receive"
    BY <1>1, <1>2, <2>1 DEF FinalPending, n
  <2> QED BY <1>2, <1>4, <2>1, <2>2
<1> QED BY <1>6, <1>8, <1>9, <1>10, <1>11, GeneratingNext

LEMMA GeneratingKept ==
  ASSUME HearTypes, Generating, Segmented, Step, HearTypes'
  PROVE  Generating'
<1>1. CASE Starts \/ GoesOn \/ Pauses \/ Closes
  BY <1>1, GeneratingStays DEF Starts, GoesOn, Pauses, Closes
<1>2. CASE Moves
  <2>1. /\ OneUndone(srv) /\ FlagsTell(srv, gen) /\ Unarmed(srv, gen, rx) /\ DoneIsLast(srv, gen, rx)
        /\ FinalPending(srv, gen, rx) /\ HeldKnown(srv, gen) /\ ClosedEmpty(srv, gen, ep.at) /\ OverDone(srv, gen, rx)
    BY GeneratingIs
  <2>2. UNCHANGED <<srv, gen, ep>> /\ srv \in SrvSet
    BY <1>2 DEF Moves, HearTypes
  <2>3. CASE UNCHANGED rx
    BY <2>2, <2>3, GeneratingStays
  <2>4. CASE rx = "connect" /\ rx' = "arm"
    <3>1. Unarmed(srv', gen', rx') /\ DoneIsLast(srv', gen', rx')
      BY <2>1, <2>2, <2>4 DEF Unarmed, DoneIsLast
    <3>2. FinalPending(srv', gen', rx') /\ OverDone(srv', gen', rx')
      BY <2>1, <2>2, <2>4 DEF Unarmed, FinalPending, OverDone
    <3> QED BY <2>1, <2>2, <3>1, <3>2, GeneratingNext
  <2>5. CASE rx = "receive" /\ srv.inbox = <<>> /\ srv.line # "open" /\ rx' = "over"
    <3>1. Unarmed(srv', gen', rx') /\ DoneIsLast(srv', gen', rx') /\ FinalPending(srv', gen', rx')
      BY <2>1, <2>2, <2>5 DEF Unarmed, DoneIsLast, FinalPending
    <3>2. OverDone(srv', gen', rx')
      <4> SUFFICES ASSUME srv.line = "closed", NEW g \in DOMAIN srv.gens
                   PROVE  srv.gens[g].done \/ srv.gens[g].audio = <<>>
        BY <2>2, <2>5, SrvIs DEF OverDone
      <4>1. g \in Nat /\ g <= Len(srv.gens) /\ Len(srv.gens) \in Nat /\ srv.gens # <<>>
        BY <2>2, SrvIs, GenerationIs
      <4>2. CASE g < Len(srv.gens)
        BY <2>1, <4>2 DEF OneUndone
      <4>3. CASE g = Len(srv.gens)
        BY <2>1, <4>1, <4>3 DEF HeldKnown, ClosedEmpty
      <4> QED BY <4>1, <4>2, <4>3
    <3> QED BY <2>1, <2>2, <3>1, <3>2, GeneratingNext
  <2> QED BY <1>2, <2>3, <2>4, <2>5 DEF Moves
<1>3. CASE Segmenting
  <2>1. /\ UNCHANGED <<srv, gen, ep>> /\ srv.gens = <<>> /\ srv.inbox = <<>> /\ srv.line = "open" /\ rx' # "over"
        /\ ~gen.ready /\ ~gen.final /\ ~gen.audio
    BY <1>3 DEF Segmenting, Segmented
  <2>2. OneUndone(srv') /\ FlagsTell(srv', gen') /\ Unarmed(srv', gen', rx') /\ DoneIsLast(srv', gen', rx')
    BY <2>1 DEF OneUndone, FlagsTell, Unarmed, DoneIsLast, OpenIn
  <2>3. FinalPending(srv', gen', rx') /\ HeldKnown(srv', gen') /\ ClosedEmpty(srv', gen', ep'.at) /\ OverDone(srv', gen', rx')
    BY <2>1 DEF FinalPending, HeldKnown, ClosedEmpty, OverDone
  <2> QED BY <2>2, <2>3, GeneratingNext
<1>4. CASE Asked
  BY <1>4, GeneratingAnswered DEF Asked
<1>5. CASE EventRead
  <2>1. ep.at = "next" /\ UNCHANGED <<srv, gen, rx>>
    BY <1>5 DEF EventRead
  <2> QED BY <2>1, GeneratingStays
<1>6. CASE Flushed
  <2>1. ep.at = "flush" /\ UNCHANGED rx /\ (UNCHANGED <<gen, srv>> \/ \E units \in Seq(Units) : Sent(units))
    BY <1>6 DEF Flushed
  <2>2. ep.at # "over"
    BY <2>1
  <2> QED BY <2>1, <2>2, GeneratingStays, GeneratingSent
<1>7. CASE RestSent
  <2>1. ep.at # "over" /\ UNCHANGED rx /\ (UNCHANGED <<gen, srv>> \/ Sent(ep.pending))
    BY <1>7 DEF RestSent
  <2> QED BY <2>1, GeneratingStays, GeneratingSent
<1>8. CASE Finalized
  <2>1. ep.at # "over" /\ UNCHANGED rx
    BY <1>8 DEF Finalized
  <2>2. CASE UNCHANGED <<gen, srv>>
    BY <2>1, <2>2, GeneratingStays
  <2>3. CASE gen.ready /\ gen'.ready = FALSE /\ gen'.final = TRUE /\ gen'.audio = gen.audio /\ srv' = Commits
    BY <2>1, <2>3, GeneratingCommitted
  <2> QED BY <1>8, <2>2, <2>3 DEF Finalized
<1>9. CASE Drained \/ Rearmed \/ Received
  BY <1>9, GeneratingDrained, GeneratingArmed, GeneratingReceived
<1>10. CASE LineDropped
  <2>1. /\ OneUndone(srv) /\ FlagsTell(srv, gen) /\ Unarmed(srv, gen, rx) /\ DoneIsLast(srv, gen, rx)
        /\ FinalPending(srv, gen, rx) /\ HeldKnown(srv, gen) /\ ClosedEmpty(srv, gen, ep.at) /\ OverDone(srv, gen, rx)
    BY GeneratingIs
  <2>2. srv'.gens = srv.gens /\ srv'.inbox = srv.inbox /\ srv'.line = "dropped" /\ UNCHANGED <<ep, gen, rx>>
    BY <1>10 DEF LineDropped
  <2>3. OneUndone(srv') /\ FlagsTell(srv', gen') /\ Unarmed(srv', gen', rx') /\ DoneIsLast(srv', gen', rx')
    BY <2>1, <2>2 DEF OneUndone, FlagsTell, Unarmed, DoneIsLast, OpenIn
  <2>4. FinalPending(srv', gen', rx') /\ HeldKnown(srv', gen') /\ ClosedEmpty(srv', gen', ep'.at) /\ OverDone(srv', gen', rx')
    BY <2>1, <2>2 DEF FinalPending, HeldKnown, ClosedEmpty, OverDone
  <2> QED BY <2>3, <2>4, GeneratingNext
<1> QED BY <1>1, <1>2, <1>3, <1>4, <1>5, <1>6, <1>7, <1>8, <1>9, <1>10 DEF Step

-----------------------------------------------------------------------------
(* The sending task and the VAD's queue                                      *)

LEMMA EndpointingKept ==
  ASSUME HearTypes, Endpointing, Segmented, Step, UNCHANGED conf
  PROVE  Endpointing'
<1>1. conf.vad \in BOOLEAN /\ mic \in MicSet /\ mic.closed \in BOOLEAN /\ ep \in EpSet /\ vad \in VadSet /\ vad.active \in BOOLEAN
  BY DEF HearTypes, MicSet, VadSet
<1>2. /\ mic.closed => mic.ended
      /\ ep.at \in {"lastRest", "lastCommit", "over"} => vad.q = <<>> /\ mic.closed
      /\ ep.at \in {"commit", "lastCommit", "over"} => ep.pending = <<>>
      /\ conf.vad /\ ~vad.active => ep.pending = <<>>
      /\ conf.vad /\ ep.at \in {"flush", "rest", "lastRest"} => vad.active
      /\ ep.at \in {"commit", "lastCommit", "over"} => ~vad.active
      /\ ~conf.vad => ~vad.active /\ ep.at \notin {"rest", "commit"}
  BY DEF Endpointing
<1>3. CASE Starts \/ GoesOn \/ Pauses
  BY <1>2, <1>3 DEF Starts, GoesOn, Pauses, Reported, Said, Endpointing
<1>4. CASE Closes
  BY <1>2, <1>4 DEF Closes, Endpointing
<1>5. CASE Moves \/ Asked \/ Rearmed \/ Received \/ LineDropped
  BY <1>2, <1>5 DEF Moves, Asked, Rearmed, Received, LineDropped, Endpointing
<1>6. CASE Segmenting
  BY <1>2, <1>6 DEF Segmenting, Segmented, Endpointing
<1>7. CASE EventRead
  <2>1. UNCHANGED mic /\ ep.at = "next"
    BY <1>7 DEF EventRead
  <2> QED BY <1>2, <1>7, <2>1 DEF EventRead, EpIs, Endpointing
<1>8. CASE Flushed
  <2>1. UNCHANGED <<mic, vad>> /\ ep.at = "flush" /\ ep'.at \in {"next", "flush"} /\ (ep'.pending = ep.pending \/ ep.at = ep'.at)
    BY <1>8 DEF Flushed
  <2> QED BY <1>2, <2>1 DEF Endpointing
<1>9. CASE RestSent
  <2>1. /\ UNCHANGED mic /\ ep.at \in {"rest", "lastRest"} /\ ep'.pending = <<>> /\ vad'.active = FALSE /\ vad'.q = vad.q
        /\ ep'.at = IF ep.at = "rest" THEN "commit" ELSE "lastCommit"
    BY <1>9 DEF RestSent
  <2> QED BY <1>2, <2>1 DEF Endpointing
<1>10. CASE Finalized
  <2>1. /\ UNCHANGED <<mic, vad>> /\ ep.at \in {"commit", "lastCommit"} /\ ep'.pending = ep.pending
        /\ ep'.at = IF ep.at = "commit" THEN "next" ELSE "over"
    BY <1>10 DEF Finalized
  <2> QED BY <1>2, <2>1 DEF Endpointing
<1>11. CASE Drained
  <2>1. /\ UNCHANGED mic /\ vad.q = <<>> /\ mic.closed /\ ep'.pending = ep.pending /\ vad'.active = vad.active /\ vad'.q = vad.q
        /\ ep'.at = IF vad.active \/ ~conf.vad THEN "lastRest" ELSE "over"
    BY <1>11 DEF Drained
  <2> QED BY <1>2, <2>1 DEF Endpointing
<1> QED BY <1>3, <1>4, <1>5, <1>6, <1>7, <1>8, <1>9, <1>10, <1>11 DEF Step

\* Queued, part by part: an event, the one after it, and the last one.
GoodEvent(e, m) ==
  /\ e.type = "end" => e.frames = <<>>
  /\ e.type # "end" => Len(e.frames) = 1 /\ e.frames[1][1] <= m.utt
  /\ e.type = "start" => e.frames[1][2] = 1
FollowedBy(e, f) ==
  IF e.type = "end" THEN f.type = "start"
  ELSE f.type = "end" \/ (f.type = "speech" /\ f.frames[1] = <<e.frames[1][1], e.frames[1][2] + 1>>)
LastEvent(e, m) == IF e.type = "end" THEN ~m.talking ELSE m.talking /\ e.frames[1] = <<m.utt, m.units>>
Later(e, f) == e.type # "end" /\ f.type = "start" => e.frames[1][1] < f.frames[1][1]
InOrder(q, m) ==
  /\ \A i \in DOMAIN q : GoodEvent(q[i], m) /\ (i < Len(q) => FollowedBy(q[i], q[i + 1])) /\ (i = Len(q) => LastEvent(q[i], m))
  /\ \A i, j \in DOMAIN q : i < j => Later(q[i], q[j])

LEMMA QueuedIs == (Queued <=> InOrder(vad.q, mic)) /\ (Queued' <=> InOrder(vad'.q, mic'))
BY DEF Queued, InOrder, GoodEvent, FollowedBy, LastEvent, Later

LEMMA FirstUnit ==
  ASSUME NEW e \in VadEvents, NEW m, GoodEvent(e, m), e.type # "end"
  PROVE  /\ 1 \in DOMAIN e.frames /\ e.frames[1] \in Units /\ e.frames[1][1] \in Nat /\ e.frames[1][2] \in Nat
         /\ e.frames[1][1] <= m.utt /\ e.frames = <<e.frames[1]>>
<1>1. e.frames \in Seq(Units) /\ Len(e.frames) = 1 /\ e.frames[1][1] <= m.utt
  BY EventIs DEF GoodEvent
<1>2. 1 \in DOMAIN e.frames /\ e.frames = <<e.frames[1]>>
  BY <1>1
<1> QED BY <1>1, <1>2, UnitIs

\* The queue grows by an event that follows the last one.
LEMMA QueueGrows ==
  ASSUME HearTypes, Queued, NEW type, NEW frames, Reported(type, frames), mic' \in MicSet,
         LET e == [type |-> type, frames |-> frames] IN
           /\ GoodEvent(e, mic') /\ LastEvent(e, mic')
           /\ \A d \in VadEvents : GoodEvent(d, mic) /\ LastEvent(d, mic) => FollowedBy(d, e)
           /\ \A d \in VadEvents : GoodEvent(d, mic) => GoodEvent(d, mic') /\ Later(d, e)
  PROVE  Queued'
<1> DEFINE n == Len(vad.q)
           e == [type |-> type, frames |-> frames]
           r == vad'.q
<1>1. /\ Len(r) = n + 1 /\ DOMAIN r = 1..(n + 1) /\ r[n + 1].type = type /\ r[n + 1].frames = frames
      /\ \A i \in DOMAIN vad.q : r[i] = vad.q[i]
      /\ vad' \in VadSet
  BY DEF Reported
<1>2. vad \in VadSet /\ n \in Nat /\ DOMAIN vad.q = 1..n /\ (\A i \in 1..n : vad.q[i] \in VadEvents) /\ r[n + 1] \in VadEvents
  BY <1>1, VadIs DEF HearTypes
<1>3. r[n + 1] = e
  BY <1>1, <1>2 DEF VadEvents
<1>4. \A i \in 1..n : GoodEvent(vad.q[i], mic) /\ (i < n => FollowedBy(vad.q[i], vad.q[i + 1])) /\ (i = n => LastEvent(vad.q[i], mic))
  BY <1>2, QueuedIs DEF InOrder
<1>5. \A i, j \in 1..n : i < j => Later(vad.q[i], vad.q[j])
  BY <1>2, QueuedIs DEF InOrder
<1> HIDE DEF e, r, n
<1>6. ASSUME NEW i \in 1..(n + 1)
      PROVE  GoodEvent(r[i], mic') /\ (i < n + 1 => FollowedBy(r[i], r[i + 1])) /\ (i = n + 1 => LastEvent(r[i], mic'))
  <2>1. CASE i = n + 1
    <3>1. ~(i < n + 1)
      BY <1>2, <2>1
    <3> QED BY <1>3, <2>1, <3>1 DEF e
  <2>2. CASE i \in 1..n
    <3>1. i # n + 1 /\ r[i] = vad.q[i] /\ vad.q[i] \in VadEvents /\ GoodEvent(vad.q[i], mic)
      BY <1>1, <1>2, <1>4, <2>2
    <3>2. GoodEvent(r[i], mic')
      BY <3>1 DEF e
    <3>3. CASE i = n
      <4>1. LastEvent(vad.q[i], mic) /\ r[i + 1] = e
        BY <1>3, <1>4, <2>2, <3>3
      <4> QED BY <3>1, <3>2, <4>1 DEF e
    <3>4. CASE i < n
      <4>1. i + 1 \in 1..n
        BY <1>2, <2>2, <3>4
      <4> QED BY <1>1, <1>2, <1>4, <2>2, <3>1, <3>2, <3>4, <4>1
    <3> QED BY <1>2, <2>2, <3>3, <3>4
  <2> QED BY <1>2, <2>1, <2>2
<1>7. ASSUME NEW i \in 1..(n + 1), NEW j \in 1..(n + 1), i < j PROVE Later(r[i], r[j])
  <2>1. i \in 1..n /\ (j = n + 1 \/ j \in 1..n)
    BY <1>2, <1>7
  <2>2. r[i] = vad.q[i] /\ vad.q[i] \in VadEvents /\ GoodEvent(vad.q[i], mic)
    BY <1>1, <1>2, <1>4, <2>1
  <2>3. CASE j = n + 1
    BY <1>3, <2>2, <2>3 DEF e
  <2>4. CASE j \in 1..n
    BY <1>1, <1>2, <1>5, <1>7, <2>1, <2>2, <2>4
  <2> QED BY <2>1, <2>3, <2>4
<1>8. InOrder(r, mic')
  BY <1>1, <1>6, <1>7 DEF InOrder
<1> QED BY <1>8, QueuedIs DEF r

LEMMA QueueTaken ==
  ASSUME HearTypes, Queued, Taken, UNCHANGED mic
  PROVE  Queued'
<1> DEFINE n == Len(vad.q)
           r == vad'.q
<1>1. /\ Len(r) = n - 1 /\ DOMAIN r = 1..(n - 1)
      /\ \A i \in DOMAIN r : i + 1 \in DOMAIN vad.q /\ r[i] = vad.q[i + 1]
  BY DEF Taken
<1>2. n \in Nat /\ DOMAIN vad.q = 1..n
  BY VadIs DEF HearTypes
<1>4. \A i \in 1..n : GoodEvent(vad.q[i], mic) /\ (i < n => FollowedBy(vad.q[i], vad.q[i + 1])) /\ (i = n => LastEvent(vad.q[i], mic))
  BY <1>2, QueuedIs DEF InOrder
<1>5. \A i, j \in 1..n : i < j => Later(vad.q[i], vad.q[j])
  BY <1>2, QueuedIs DEF InOrder
<1> HIDE DEF r, n
<1>6. ASSUME NEW i \in 1..(n - 1)
      PROVE  GoodEvent(r[i], mic') /\ (i < n - 1 => FollowedBy(r[i], r[i + 1])) /\ (i = n - 1 => LastEvent(r[i], mic'))
  <2>1. i + 1 \in 1..n /\ r[i] = vad.q[i + 1] /\ (i = n - 1 => i + 1 = n)
    BY <1>1, <1>2
  <2>2. GoodEvent(r[i], mic') /\ (i = n - 1 => LastEvent(r[i], mic'))
    BY <1>4, <2>1
  <2>3. ASSUME i < n - 1 PROVE FollowedBy(r[i], r[i + 1])
    <3>1. i + 1 < n /\ i + 1 \in 1..(n - 1)
      BY <1>2, <2>3
    <3>2. r[i + 1] = vad.q[(i + 1) + 1]
      BY <1>1, <3>1
    <3> QED BY <1>4, <2>1, <3>1, <3>2
  <2> QED BY <2>2, <2>3
<1>7. ASSUME NEW i \in 1..(n - 1), NEW j \in 1..(n - 1), i < j PROVE Later(r[i], r[j])
  <2>1. i + 1 \in 1..n /\ j + 1 \in 1..n /\ i + 1 < j + 1
    BY <1>2, <1>7
  <2> QED BY <1>1, <1>5, <2>1
<1>8. InOrder(r, mic')
  BY <1>1, <1>6, <1>7 DEF InOrder
<1> QED BY <1>8, QueuedIs DEF r

LEMMA QueuedKept ==
  ASSUME HearTypes, Queued, Segmented, Step, HearTypes'
  PROVE  Queued'
<1>0. mic \in MicSet /\ mic' \in MicSet /\ mic.utt \in Nat /\ mic.units \in Nat
  BY DEF HearTypes, MicSet
<1>1. CASE Starts
  <2> DEFINE e == [type |-> "start", frames |-> <<<<mic.utt + 1, 1>>>>]
  <2>1. ~mic.talking /\ Reported("start", <<<<mic.utt + 1, 1>>>>) /\ mic'.utt = mic.utt + 1 /\ mic'.units = 1 /\ mic'.talking
    BY <1>1 DEF Starts, Said
  <2>2. GoodEvent(e, mic') /\ LastEvent(e, mic')
    BY <1>0, <2>1 DEF GoodEvent, LastEvent
  <2>3. \A d \in VadEvents : GoodEvent(d, mic) /\ LastEvent(d, mic) => FollowedBy(d, e)
    BY <2>1 DEF LastEvent, FollowedBy
  <2>4. ASSUME NEW d \in VadEvents, GoodEvent(d, mic) PROVE GoodEvent(d, mic') /\ Later(d, e)
    <3>1. d.type # "end" => d.frames[1][1] \in Nat /\ d.frames[1][1] <= mic.utt
      BY <2>4, FirstUnit
    <3>2. d.type # "end" => d.frames[1][1] <= mic'.utt /\ d.frames[1][1] < mic.utt + 1
      BY <1>0, <2>1, <3>1
    <3> QED BY <2>4, <3>2 DEF GoodEvent, Later
  <2> HIDE DEF e
  <2> QED BY <1>0, <2>1, <2>2, <2>3, <2>4, QueueGrows DEF e
<1>2. CASE GoesOn
  <2> DEFINE e == [type |-> "speech", frames |-> <<<<mic.utt, mic.units + 1>>>>]
  <2>1. /\ mic.talking /\ Reported("speech", <<<<mic.utt, mic.units + 1>>>>) /\ mic'.utt = mic.utt /\ mic'.units = mic.units + 1
        /\ mic'.talking
    BY <1>2 DEF GoesOn, Said
  <2>2. GoodEvent(e, mic') /\ LastEvent(e, mic')
    BY <1>0, <2>1 DEF GoodEvent, LastEvent
  <2>3. \A d \in VadEvents : GoodEvent(d, mic) /\ LastEvent(d, mic) => FollowedBy(d, e)
    BY <2>1 DEF LastEvent, FollowedBy
  <2>4. \A d \in VadEvents : GoodEvent(d, mic) => GoodEvent(d, mic') /\ Later(d, e)
    BY <2>1 DEF GoodEvent, Later
  <2> HIDE DEF e
  <2> QED BY <1>0, <2>1, <2>2, <2>3, <2>4, QueueGrows DEF e
<1>3. CASE Pauses
  <2> DEFINE e == [type |-> "end", frames |-> <<>>]
  <2>1. mic.talking /\ Reported("end", <<>>) /\ mic'.utt = mic.utt /\ mic'.talking = FALSE
    BY <1>3 DEF Pauses, SameSpeech
  <2>2. GoodEvent(e, mic') /\ LastEvent(e, mic')
    BY <2>1 DEF GoodEvent, LastEvent
  <2>3. \A d \in VadEvents : GoodEvent(d, mic) /\ LastEvent(d, mic) => FollowedBy(d, e)
    BY <2>1 DEF LastEvent, FollowedBy
  <2>4. \A d \in VadEvents : GoodEvent(d, mic) => GoodEvent(d, mic') /\ Later(d, e)
    BY <2>1 DEF GoodEvent, Later
  <2> HIDE DEF e
  <2> QED BY <1>0, <2>1, <2>2, <2>3, <2>4, QueueGrows DEF e
<1>4. CASE UNCHANGED vad /\ mic'.utt = mic.utt /\ mic'.units = mic.units /\ mic'.talking = mic.talking
  BY <1>4 DEF Queued
<1>5. CASE Segmenting
  BY <1>5 DEF Segmenting, Segmented, Queued
<1>6. CASE EventRead
  BY <1>6, QueueTaken DEF EventRead
<1>7. CASE UNCHANGED mic /\ vad'.q = vad.q
  BY <1>7 DEF Queued
<1> QED BY <1>1, <1>2, <1>3, <1>4, <1>5, <1>6, <1>7 DEF Step, Closes, SameSpeech, Moves, Asked, Flushed, RestSent, Finalized,
        Drained, Rearmed, Received, LineDropped

-----------------------------------------------------------------------------
(* The utterance being sent: Breathing, part by part                          *)

HeldIn(s) == IF OpenIn(s) THEN s.gens[Len(s.gens)].audio ELSE <<>>
LiveIn(s) == s.line # "dropped" \/ OpenIn(s)
Run(u, a) == a # <<>> /\ \A i \in DOMAIN a : a[i] = <<u, i>>
Before(u, s) ==
  \A g \in DOMAIN s.gens : s.gens[g].audio # <<>> /\ ~(OpenIn(s) /\ g = Len(s.gens)) => s.gens[g].audio[1][1] < u
After(u, q) == \A i \in DOMAIN q : q[i].type = "start" => u < q[i].frames[1][1]
Awaits(u, n, q, m) ==
  IF q = <<>> THEN m.talking /\ m.utt = u /\ m.units = n
  ELSE q[1].type = "end" \/ (q[1].type = "speech" /\ q[1].frames[1] = <<u, n + 1>>)
Sends(u, s, p, at, q, m) ==
  /\ Run(u, HeldIn(s) \o p) /\ Before(u, s) /\ After(u, q)
  /\ at \in {"next", "flush"} => Awaits(u, Len(HeldIn(s) \o p), q, m)
Rested(q, m) == IF q = <<>> THEN ~m.talking ELSE q[1].type = "start"
Past(s, q, m) ==
  \A g \in DOMAIN s.gens : s.gens[g].audio # <<>> => s.gens[g].audio[1][1] <= m.utt /\ After(s.gens[g].audio[1][1], q)
Breathes(s, p, at, active, q, m) ==
  LiveIn(s) =>
    /\ active => \E u \in 0..m.utt : Sends(u, s, p, at, q, m)
    /\ ~active /\ at = "next" => HeldIn(s) = <<>>
    /\ at = "rest" \/ (~active /\ at \in {"next", "commit"}) => Rested(q, m)
    /\ Past(s, q, m)

LEMMA BreathingIs ==
  /\ Breathing <=> (conf.vad => Breathes(srv, ep.pending, ep.at, vad.active, vad.q, mic))
  /\ Breathing' <=> (conf'.vad => Breathes(srv', ep'.pending, ep'.at, vad'.active, vad'.q, mic'))
<1>1. (Live <=> LiveIn(srv)) /\ (Live' <=> LiveIn(srv')) /\ Held = HeldIn(srv) /\ Held' = HeldIn(srv')
  BY OpenIsIn DEF Live, LiveIn, Held, HeldIn
<1>2. \A u : Breath(u) <=> Sends(u, srv, ep.pending, ep.at, vad.q, mic)
  BY <1>1, OpenIsIn DEF Breath, Sends, Run, Before, After, Awaits
<1>3. \A u : Breath(u)' <=> Sends(u, srv', ep'.pending, ep'.at, vad'.q, mic')
  BY <1>1, OpenIsIn DEF Breath, Sends, Run, Before, After, Awaits
<1>4. Breathing <=> (conf.vad => Breathes(srv, ep.pending, ep.at, vad.active, vad.q, mic))
  BY <1>1, <1>2 DEF Breathing, Breathes, Rested, Past, After
<1>5. Breathing' <=> (conf'.vad => Breathes(srv', ep'.pending, ep'.at, vad'.active, vad'.q, mic'))
  BY <1>1, <1>3 DEF Breathing, Breathes, Rested, Past, After
<1> QED BY <1>4, <1>5

LEMMA HeldIsSeq ==
  ASSUME NEW s \in SrvSet
  PROVE  HeldIn(s) \in Seq(Units)
<1>1. CASE OpenIn(s)
  <2>1. Len(s.gens) \in DOMAIN s.gens
    BY <1>1, SrvIs DEF OpenIn
  <2> QED BY <1>1, <2>1, GenerationIs DEF HeldIn
<1>2. CASE ~OpenIn(s)
  BY <1>2 DEF HeldIn
<1> QED BY <1>1, <1>2

\* The caller's steps.
LEMMA BreathingGrows ==
  ASSUME HearTypes, Endpointing, Breathing, UNCHANGED <<conf, ep, srv>>, ~mic.closed, mic' \in MicSet,
         NEW type, NEW frames, Reported(type, frames),
         \/ /\ type = "start" /\ ~mic.talking /\ frames = <<<<mic.utt + 1, 1>>>> /\ mic'.utt = mic.utt + 1
         \/ /\ type = "speech" /\ mic.talking /\ frames = <<<<mic.utt, mic.units + 1>>>> /\ mic'.utt = mic.utt
         \/ /\ type = "end" /\ mic.talking /\ mic'.utt = mic.utt
  PROVE  Breathing'
<1> SUFFICES ASSUME conf.vad, LiveIn(srv)
             PROVE  Breathes(srv, ep.pending, ep.at, vad.active, vad'.q, mic')
  BY BreathingIs DEF Breathes, Reported
<1> DEFINE n == Len(vad.q)
           q == vad'.q
<1>1. /\ vad.active => \E u \in 0..mic.utt : Sends(u, srv, ep.pending, ep.at, vad.q, mic)
      /\ ~vad.active /\ ep.at = "next" => HeldIn(srv) = <<>>
      /\ ep.at = "rest" \/ (~vad.active /\ ep.at \in {"next", "commit"}) => Rested(vad.q, mic)
      /\ Past(srv, vad.q, mic)
  BY BreathingIs DEF Breathes
<1>2. /\ vad'.active = vad.active /\ Len(q) = n + 1 /\ DOMAIN q = 1..(n + 1) /\ q[n + 1].type = type /\ q[n + 1].frames = frames
      /\ \A i \in DOMAIN vad.q : q[i] = vad.q[i]
  BY DEF Reported
<1>3. n \in Nat /\ DOMAIN vad.q = 1..n /\ vad.q \in Seq(VadEvents) /\ mic.utt \in Nat /\ mic'.utt \in Nat /\ mic.utt <= mic'.utt
      /\ srv \in SrvSet
  <2>1. vad.q \in Seq(VadEvents) /\ mic.utt \in Nat /\ srv \in SrvSet
    BY DEF HearTypes, VadSet, MicSet
  <2> QED BY <2>1
<1>4. q # <<>> /\ (vad.q = <<>> => n = 0 /\ q[1].type = type /\ q[1].frames = frames) /\ (vad.q # <<>> => q[1] = vad.q[1])
  <2>1. CASE vad.q = <<>>
    BY <1>2, <1>3, <2>1
  <2>2. CASE vad.q # <<>>
    <3>1. 1 \in 1..n
      BY <1>3, <2>2
    <3> QED BY <1>2, <1>3, <2>2, <3>1
  <2> QED BY <2>1, <2>2
<1> HIDE DEF q, n
<1>5. ASSUME NEW u \in Nat, u <= mic.utt, After(u, vad.q) PROVE After(u, q)
  <2> SUFFICES ASSUME NEW i \in 1..(n + 1), q[i].type = "start" PROVE u < q[i].frames[1][1]
    BY <1>2 DEF After
  <2>1. CASE i \in 1..n
    BY <1>2, <1>3, <1>5, <2>1 DEF After
  <2>2. CASE i = n + 1
    <3>1. q[i].frames = <<<<mic.utt + 1, 1>>>>
      BY <1>2, <2>2
    <3>2. q[i].frames[1][1] = mic.utt + 1
      BY <3>1
    <3> QED BY <1>3, <1>5, <3>2
  <2> QED BY <1>3, <2>1, <2>2
<1>6. ASSUME vad.active PROVE \E u \in 0..mic'.utt : Sends(u, srv, ep.pending, ep.at, q, mic')
  <2>1. PICK u \in 0..mic.utt : Sends(u, srv, ep.pending, ep.at, vad.q, mic)
    BY <1>1, <1>6
  <2> DEFINE k == Len(HeldIn(srv) \o ep.pending)
  <2>2. u \in Nat /\ u <= mic.utt /\ u \in 0..mic'.utt
    BY <1>3
  <2>3. After(u, q)
    BY <1>5, <2>1, <2>2 DEF Sends
  <2>4. ASSUME ep.at \in {"next", "flush"} PROVE Awaits(u, k, q, mic')
    <3>1. Awaits(u, k, vad.q, mic)
      BY <2>1, <2>4 DEF Sends
    <3> HIDE DEF k
    <3>2. CASE vad.q = <<>>
      <4>1. mic.talking /\ mic.utt = u /\ mic.units = k
        BY <3>1, <3>2 DEF Awaits
      <4>2. CASE type = "speech"
        <5>1. q[1].type = "speech" /\ q[1].frames = <<<<u, k + 1>>>>
          BY <1>4, <3>2, <4>1, <4>2
        <5> QED BY <1>4, <5>1 DEF Awaits
      <4>3. CASE type = "end"
        BY <1>4, <3>2, <4>3 DEF Awaits
      <4> QED BY <4>1, <4>2, <4>3
    <3>3. CASE vad.q # <<>>
      BY <1>4, <3>1, <3>3 DEF Awaits
    <3> QED BY <3>2, <3>3
  <2>5. Sends(u, srv, ep.pending, ep.at, q, mic')
    BY <2>1, <2>3, <2>4 DEF Sends
  <2> QED BY <2>2, <2>5
<1>7. ASSUME Rested(vad.q, mic) PROVE Rested(q, mic')
  BY <1>4, <1>7 DEF Rested
<1>8. Past(srv, q, mic')
  <2> SUFFICES ASSUME NEW g \in DOMAIN srv.gens, srv.gens[g].audio # <<>>
               PROVE  srv.gens[g].audio[1][1] <= mic'.utt /\ After(srv.gens[g].audio[1][1], q)
    BY DEF Past
  <2>1. srv.gens[g].audio[1][1] <= mic.utt /\ After(srv.gens[g].audio[1][1], vad.q)
    BY <1>1 DEF Past
  <2>2. srv.gens[g].audio \in Seq(Units)
    BY <1>3, GenerationIs
  <2>3. 1 \in DOMAIN srv.gens[g].audio
    BY <2>2
  <2>4. srv.gens[g].audio[1][1] \in Nat
    BY <2>2, <2>3, UnitIs
  <2> QED BY <1>3, <1>5, <2>1, <2>4
<1> QED BY <1>1, <1>6, <1>7, <1>8 DEF Breathes, q

\* The sending task takes an event.
LEMMA BreathingTakes ==
  ASSUME HearTypes, Endpointing, Queued, Breathing, EventRead, UNCHANGED conf, conf.vad, LiveIn(srv)
  PROVE  /\ Breathes(srv', ep'.pending, ep'.at, vad'.active, vad'.q, mic')
         /\ vad.q[1].type = "start" => ep.pending = <<>>
         /\ vad.q[1].type = "speech" => vad.active
<1> DEFINE n == Len(vad.q)
           e == vad.q[1]
           q == vad'.q
           h == HeldIn(srv)
           p == ep.pending
<1>1. /\ vad.active => \E u \in 0..mic.utt : Sends(u, srv, p, ep.at, vad.q, mic)
      /\ ~vad.active /\ ep.at = "next" => h = <<>>
      /\ ep.at = "rest" \/ (~vad.active /\ ep.at \in {"next", "commit"}) => Rested(vad.q, mic)
      /\ Past(srv, vad.q, mic)
  BY BreathingIs DEF Breathes
<1>2. /\ vad.q # <<>> /\ Len(q) = n - 1 /\ DOMAIN q = 1..(n - 1)
      /\ \A i \in DOMAIN q : i + 1 \in DOMAIN vad.q /\ q[i] = vad.q[i + 1]
      /\ ep.at = "next" /\ UNCHANGED <<mic, srv>>
  BY DEF EventRead, Taken
<1>3. vad \in VadSet /\ srv \in SrvSet /\ n \in Nat /\ DOMAIN vad.q = 1..n /\ mic.utt \in Nat /\ p \in Seq(Units) /\ h \in Seq(Units)
      /\ q \in Seq(VadEvents)
  BY VadIs, HeldIsSeq DEF HearTypes, EpSet, MicSet, EventRead, Taken
<1>4. 1 \in 1..n /\ e \in VadEvents /\ (n = 1 <=> q = <<>>) /\ (n # 1 => q[1] = vad.q[2] /\ 1 < n)
  <2>1. n >= 1 /\ vad.q \in Seq(VadEvents)
    BY <1>2, <1>3, VadIs
  <2>2. e \in VadEvents
    BY <1>3, <2>1, VadIs
  <2> HIDE DEF n, q, e
  <2>3. 1 \in 1..n /\ (n # 1 => 1 \in 1..(n - 1) /\ 1 < n)
    BY <1>3, <2>1
  <2>4. n # 1 => q[1] = vad.q[1 + 1]
    BY <1>2, <2>3 DEF q, n
  <2>5. n = 1 <=> q = <<>>
    <3>1. Len(q) = n - 1 /\ q \in Seq(VadEvents) /\ n \in Nat
      BY <1>2, <1>3 DEF q, n
    <3>2. q = <<>> <=> Len(q) = 0
      BY <3>1, EmptySeq
    <3> QED BY <3>1, <3>2
  <2> QED BY <2>2, <2>3, <2>4, <2>5
<1>5. /\ GoodEvent(e, mic) /\ (n # 1 => FollowedBy(e, q[1])) /\ (n = 1 => LastEvent(e, mic))
      /\ \A j \in 2..n : Later(e, vad.q[j])
  <2>1. InOrder(vad.q, mic)
    BY QueuedIs
  <2>2. \A j \in 2..n : j \in 1..n /\ 1 < j
    BY <1>3
  <2>3. GoodEvent(e, mic) /\ (1 < n => FollowedBy(e, vad.q[1 + 1])) /\ (1 = n => LastEvent(e, mic))
    BY <1>3, <1>4, <2>1 DEF InOrder
  <2>4. \A j \in 2..n : Later(e, vad.q[j])
    BY <1>3, <1>4, <2>1, <2>2 DEF InOrder
  <2>5. vad.q[1 + 1] = vad.q[2]
    OBVIOUS
  <2> HIDE DEF e, q, n
  <2> QED BY <1>4, <2>3, <2>4, <2>5
<1>6. e.type # "end" => e.frames[1][1] \in 0..mic.utt /\ e.frames[1][2] \in Nat /\ e.frames = <<e.frames[1]>> /\ e.frames[1] \in Units
  <2> SUFFICES ASSUME e.type # "end" PROVE e.frames[1][1] \in 0..mic.utt /\ e.frames[1][2] \in Nat /\ e.frames = <<e.frames[1]>> /\ e.frames[1] \in Units
    OBVIOUS
  <2>1. e.frames[1][1] \in Nat /\ e.frames[1][2] \in Nat /\ e.frames[1][1] <= mic.utt /\ e.frames = <<e.frames[1]>> /\ e.frames[1] \in Units
    BY <1>4, <1>5, FirstUnit
  <2> QED BY <1>3, <2>1
<1>7. ASSUME NEW u, After(u, vad.q) PROVE After(u, q)
  BY <1>2, <1>7 DEF After
<1>8. Past(srv, q, mic)
  BY <1>1, <1>7 DEF Past
<1>9. e.type = "start" => ~vad.active /\ p = <<>> /\ h = <<>>
  <2> SUFFICES ASSUME e.type = "start" PROVE ~vad.active /\ p = <<>> /\ h = <<>>
    OBVIOUS
  <2>1. ~vad.active
    <3> SUFFICES ASSUME vad.active PROVE FALSE
      OBVIOUS
    <3>1. PICK u \in 0..mic.utt : Sends(u, srv, p, ep.at, vad.q, mic)
      BY <1>1
    <3>2. Awaits(u, Len(h \o p), vad.q, mic)
      BY <1>2, <3>1 DEF Sends
    <3> QED BY <1>2, <3>2 DEF Awaits
  <2> QED BY <1>1, <1>2, <2>1 DEF Endpointing
<1>10. ~vad.active => e.type = "start"
  BY <1>1, <1>2 DEF Rested
\* An utterance that begins or goes on.
<1>11. ASSUME NEW u \in 0..mic.utt, NEW k \in Nat, e.type # "end", e.frames[1] = <<u, k + 1>>
       PROVE  Awaits(u, k + 1, q, mic)
  <2>1. CASE n = 1
    <3>1. mic.talking /\ <<u, k + 1>> = <<mic.utt, mic.units>> /\ q = <<>>
      BY <1>4, <1>5, <1>11, <2>1 DEF LastEvent
    <3> QED BY <3>1 DEF Awaits
  <2>2. CASE n # 1
    <3>1. FollowedBy(e, q[1]) /\ q # <<>> /\ e.frames[1][1] = u /\ e.frames[1][2] = k + 1
      BY <1>4, <1>5, <1>11, <2>2
    <3> QED BY <1>11, <3>1 DEF FollowedBy, Awaits
  <2> QED BY <2>1, <2>2
<1> HIDE DEF h, p, q, n, e
<1>12. CASE e.type = "start" /\ ep'.at = "flush" /\ ep'.pending = e.frames /\ vad'.active = TRUE
  <2> DEFINE u == e.frames[1][1]
  <2>1. u \in 0..mic.utt /\ e.frames = <<e.frames[1]>> /\ e.frames[1] = <<u, 0 + 1>> /\ e.frames \in Seq(Units)
    <3>1. e.frames = <<e.frames[1]>> /\ u \in 0..mic.utt /\ e.frames[1][2] = 1 /\ e.frames[1] \in Units
      BY <1>5, <1>6, <1>12 DEF GoodEvent
    <3> QED BY <3>1 DEF Units
  <2> DEFINE a == h \o e.frames
  <2>2. a = e.frames
    BY <1>9, <1>12, <2>1, ConcatEmptySeq
  <2>3. Run(u, a) /\ Len(a) = 0 + 1
    <3> HIDE DEF u
    <3>1. e.frames = <<<<u, 1>>>>
      BY <2>1
    <3>2. <<<<u, 1>>>> # <<>> /\ DOMAIN <<<<u, 1>>>> = {1} /\ <<<<u, 1>>>>[1] = <<u, 1>> /\ Len(<<<<u, 1>>>>) = 1
      OBVIOUS
    <3> QED BY <2>2, <3>1, <3>2 DEF Run
  <2>4. Before(u, srv)
    BY <1>1, <1>3, <1>4, <1>12 DEF Past, After, Before, e
  <2>5. After(u, q)
    <3> SUFFICES ASSUME NEW i \in DOMAIN q, q[i].type = "start" PROVE u < q[i].frames[1][1]
      BY DEF After
    <3>1. i + 1 \in 2..n /\ q[i] = vad.q[i + 1]
      BY <1>2, <1>3 DEF n, q
    <3> QED BY <1>5, <1>12, <3>1 DEF Later
  <2>6. Awaits(u, 0 + 1, q, mic)
    BY <1>11, <1>12, <2>1
  <2> HIDE DEF a, u
  <2>7. Sends(u, srv, e.frames, "flush", q, mic)
    BY <2>3, <2>4, <2>5, <2>6 DEF Sends, a, h
  <2>8. Breathes(srv, e.frames, "flush", TRUE, q, mic)
    BY <1>8, <2>1, <2>7 DEF Breathes, u
  <2> QED BY <1>2, <1>9, <1>12, <2>8 DEF q, e, p
<1>13. CASE e.type = "speech" /\ vad.active /\ ep'.at = "flush" /\ ep'.pending = p \o e.frames /\ vad'.active = TRUE
  <2>1. PICK u \in 0..mic.utt : Sends(u, srv, p, ep.at, vad.q, mic)
    BY <1>1, <1>13
  <2> DEFINE a == h \o p
             k == Len(a)
  <2>2. a \in Seq(Units) /\ k \in Nat /\ Run(u, a) /\ Before(u, srv) /\ After(u, vad.q) /\ Awaits(u, k, vad.q, mic)
    BY <1>2, <1>3, <2>1 DEF Sends, h, p
  <2>3. e.frames[1] = <<u, k + 1>> /\ e.frames = <<<<u, k + 1>>>> /\ e.frames \in Seq(Units)
    <3>1. e.frames[1] = <<u, k + 1>>
      BY <1>2, <1>13, <2>2 DEF Awaits, e
    <3> QED BY <1>6, <1>13, <3>1
  <2>4. h \o (p \o e.frames) = a \o e.frames
    BY <1>3, <2>3, ConcatAssociative
  <2> DEFINE b == a \o e.frames
  <2> HIDE DEF a, k
  <2>5. b \in Seq(Units) /\ Len(b) = k + 1 /\ \A i \in 1..(k + 1) : b[i] = IF i <= k THEN a[i] ELSE e.frames[i - k]
    <3>1. Len(e.frames) = 1
      BY <2>3
    <3> QED BY <2>2, <2>3, <3>1, ConcatProperties DEF k
  <2>6. Run(u, b)
    <3>1. ASSUME NEW i \in 1..(k + 1) PROVE b[i] = <<u, i>>
      <4>1. CASE i <= k
        <5>1. i \in DOMAIN a
          BY <2>2, <4>1 DEF k
        <5> QED BY <2>2, <2>5, <4>1, <5>1 DEF Run
      <4>2. CASE i = k + 1
        <5>1. ~(i <= k) /\ i - k = 1
          BY <2>2, <4>2
        <5> QED BY <2>3, <2>5, <4>2, <5>1
      <4>3. i <= k \/ i = k + 1
        BY <2>2
      <4> QED BY <4>1, <4>2, <4>3
    <3>2. DOMAIN b = 1..(k + 1) /\ b # <<>>
      BY <2>2, <2>5
    <3> QED BY <3>1, <3>2 DEF Run
  <2>7. After(u, q) /\ Awaits(u, k + 1, q, mic)
    BY <1>7, <1>11, <1>13, <2>2, <2>3
  <2> HIDE DEF b
  <2>8. Sends(u, srv, p \o e.frames, "flush", q, mic)
    BY <2>2, <2>4, <2>5, <2>6, <2>7 DEF Sends, h, b
  <2>9. Breathes(srv, p \o e.frames, "flush", TRUE, q, mic)
    BY <1>8, <2>8 DEF Breathes
  <2> QED BY <1>2, <1>9, <1>13, <2>9 DEF q, e, p
<1>14. CASE e.type = "end" /\ vad.active /\ ep'.at = "rest" /\ ep'.pending = p /\ vad'.active = TRUE
  <2>1. PICK u \in 0..mic.utt : Sends(u, srv, p, ep.at, vad.q, mic)
    BY <1>1, <1>14
  <2>2. Sends(u, srv, p, "rest", q, mic)
    BY <1>7, <2>1 DEF Sends
  <2>3. Rested(q, mic)
    BY <1>4, <1>5, <1>14 DEF Rested, LastEvent, FollowedBy
  <2>4. Breathes(srv, p, "rest", TRUE, q, mic)
    BY <1>8, <2>2, <2>3 DEF Breathes
  <2> QED BY <1>2, <1>14, <2>4 DEF q, e, p
<1> QED BY <1>10, <1>12, <1>13, <1>14 DEF EventRead, EpIs, e, p

\* Units of the utterance go from what is pending to the open generation.
LEMMA SentRun ==
  ASSUME HearTypes, Open, NEW units, Sent(units), NEW u, NEW at, NEW q, NEW m, Sends(u, srv, ep.pending, at, q, m)
  PROVE  /\ OpenIn(srv') /\ HeldIn(srv') = srv'.gens[Len(srv.gens)].audio /\ Run(u, HeldIn(srv'))
         /\ HeldIn(srv') \o ep'.pending = HeldIn(srv) \o ep.pending
         /\ Before(u, srv')
<1> DEFINE n == Len(srv.gens)
           a == srv.gens[n].audio
           c == ep'.pending
<1>1. /\ units \in Seq(Units) /\ units # <<>> /\ c \in Seq(Units) /\ ep.pending = units \o c /\ srv' = Appended(units) /\ srv \in SrvSet
  BY DEF Sent, HearTypes
<1>2. /\ Len(srv'.gens) = n /\ DOMAIN srv'.gens = DOMAIN srv.gens
      /\ srv'.gens[n].audio = a \o units /\ srv'.gens[n].final = srv.gens[n].final
      /\ \A g \in DOMAIN srv.gens : g # n => srv'.gens[g] = srv.gens[g]
  BY <1>1, AppendedIs
<1>3. srv.gens # <<>> /\ n \in DOMAIN srv.gens /\ ~srv.gens[n].final /\ OpenIn(srv) /\ a \in Seq(Units)
  BY <1>1, OpenIs, OpenIsIn, GenerationIs
<1>4. OpenIn(srv')
  <2>1. srv'.gens # <<>>
    BY <1>2, <1>3
  <2> QED BY <1>2, <1>3, <2>1 DEF OpenIn
<1>5. HeldIn(srv) = a /\ HeldIn(srv') = a \o units
  BY <1>2, <1>3, <1>4 DEF HeldIn
<1> HIDE DEF a, c
<1>6. (a \o units) \o c = a \o (units \o c)
  BY <1>1, <1>3, ConcatAssociative, SMTT(30)
<1> DEFINE b == a \o units
           all == a \o ep.pending
<1>7. b \in Seq(Units) /\ Len(b) \in Nat /\ Len(c) \in Nat /\ DOMAIN b = 1..Len(b) /\ b # <<>>
  <2>1. b \in Seq(Units)
    BY <1>1, <1>3, ConcatProperties
  <2>2. b # <<>>
    BY <1>1, <1>3, ConcatEqualIffEmpty
  <2> QED BY <1>1, <2>1, <2>2, LenProperties
<1>8. all = b \o c /\ Run(u, all)
  BY <1>1, <1>5, <1>6 DEF Sends
<1> HIDE DEF b, all
<1>9. all \in Seq(Units) /\ Len(all) = Len(b) + Len(c) /\ \A i \in 1..(Len(b) + Len(c)) : all[i] = IF i <= Len(b) THEN b[i] ELSE c[i - Len(b)]
  BY <1>1, <1>7, <1>8, ConcatProperties
<1>10. Run(u, b)
  <2> SUFFICES ASSUME NEW i \in 1..Len(b) PROVE b[i] = <<u, i>>
    BY <1>7 DEF Run
  <2>1. i \in 1..(Len(b) + Len(c)) /\ i <= Len(b)
    BY <1>7
  <2>2. DOMAIN all = 1..(Len(b) + Len(c))
    BY <1>9
  <2> QED BY <1>8, <1>9, <2>1, <2>2 DEF Run
<1>11. Before(u, srv')
  <2> SUFFICES ASSUME NEW g \in DOMAIN srv.gens, srv'.gens[g].audio # <<>>, g # n PROVE srv'.gens[g].audio[1][1] < u
    BY <1>2, <1>4 DEF Before
  <2>1. srv'.gens[g] = srv.gens[g]
    BY <1>2
  <2> QED BY <2>1 DEF Sends, Before
<1> QED BY <1>1, <1>2, <1>4, <1>5, <1>6, <1>10, <1>11 DEF a, b, c

\* The first unit of a run.
LEMMA RunBegins ==
  ASSUME NEW a \in Seq(Units), NEW u, Run(u, a)
  PROVE  1 \in DOMAIN a /\ a[1] = <<u, 1>> /\ a[1][1] = u
<1>1. a # <<>>
  BY DEF Run
<1>2. 1 \in DOMAIN a
  BY <1>1
<1>3. a[1] = <<u, 1>>
  BY <1>2 DEF Run
<1> QED BY <1>2, <1>3

\* What is past stays so when the open generation has a run of u.
LEMMA PastSent ==
  ASSUME HearTypes, HearTypes', Open, NEW units, Sent(units), NEW u \in 0..mic.utt, Run(u, HeldIn(srv')),
         HeldIn(srv') = srv'.gens[Len(srv.gens)].audio, After(u, vad.q), Past(srv, vad.q, mic)
  PROVE  Past(srv', vad.q, mic)
<1> DEFINE n == Len(srv.gens)
<1>1. srv \in SrvSet /\ srv' \in SrvSet /\ units \in Seq(Units) /\ srv' = Appended(units) /\ mic.utt \in Nat
  BY DEF HearTypes, Sent, MicSet
<1>2. /\ DOMAIN srv'.gens = DOMAIN srv.gens /\ \A g \in DOMAIN srv.gens : g # n => srv'.gens[g] = srv.gens[g]
  BY <1>1, AppendedIs
<1>3. HeldIn(srv')[1][1] = u
  BY <1>1, HeldIsSeq, RunBegins
<1>4. u <= mic.utt
  BY <1>1
<1> SUFFICES ASSUME NEW g \in DOMAIN srv.gens, srv'.gens[g].audio # <<>>
             PROVE  srv'.gens[g].audio[1][1] <= mic.utt /\ After(srv'.gens[g].audio[1][1], vad.q)
  BY <1>2 DEF Past
<1>5. CASE g = n
  BY <1>3, <1>4, <1>5
<1>6. CASE g # n
  BY <1>2, <1>6 DEF Past
<1> QED BY <1>5, <1>6

\* Generations whose audio is left as it is.
SameAudio ==
  /\ DOMAIN srv'.gens = DOMAIN srv.gens /\ \A g \in DOMAIN srv.gens : srv'.gens[g].audio = srv.gens[g].audio

LEMMA BreathingKept ==
  ASSUME HearTypes, Generating, Endpointing, Queued, Breathing, Segmented, Step, HearTypes', UNCHANGED conf
  PROVE  Breathing'
<1> SUFFICES ASSUME conf.vad, LiveIn(srv') PROVE Breathing'
  BY BreathingIs DEF Breathes
<1>0. /\ srv \in SrvSet /\ srv' \in SrvSet /\ mic \in MicSet /\ mic' \in MicSet /\ mic.utt \in Nat /\ vad \in VadSet /\ ep \in EpSet
  BY DEF HearTypes, MicSet
<1>a. ASSUME Breathes(srv', ep'.pending, ep'.at, vad'.active, vad'.q, mic') PROVE Breathing'
  BY <1>a, BreathingIs
<1>b. ASSUME LiveIn(srv)
      PROVE  /\ vad.active => \E u \in 0..mic.utt : Sends(u, srv, ep.pending, ep.at, vad.q, mic)
             /\ ~vad.active /\ ep.at = "next" => HeldIn(srv) = <<>>
             /\ ep.at = "rest" \/ (~vad.active /\ ep.at \in {"next", "commit"}) => Rested(vad.q, mic)
             /\ Past(srv, vad.q, mic)
  BY <1>b, BreathingIs DEF Breathes
<1>c. ASSUME UNCHANGED <<ep, vad, mic>>, srv'.gens = srv.gens, LiveIn(srv) PROVE Breathing'
  <2>1. OpenIn(srv') = OpenIn(srv) /\ HeldIn(srv') = HeldIn(srv)
    BY <1>c DEF OpenIn, HeldIn
  <2>2. \A u : Sends(u, srv', ep.pending, ep.at, vad.q, mic) <=> Sends(u, srv, ep.pending, ep.at, vad.q, mic)
    BY <1>c, <2>1 DEF Sends, Before
  <2>3. Past(srv', vad.q, mic) <=> Past(srv, vad.q, mic)
    BY <1>c DEF Past
  <2> QED BY <1>a, <1>b, <1>c, <2>1, <2>2, <2>3 DEF Breathes
<1>1. CASE Starts
  <2>1. ~mic.closed /\ ~mic.talking /\ UNCHANGED <<ep, srv>> /\ Reported("start", <<<<mic.utt + 1, 1>>>>) /\ mic'.utt = mic.utt + 1
    BY <1>1 DEF Starts, Said
  <2> QED BY <1>0, <2>1, BreathingGrows
<1>2. CASE GoesOn
  <2>1. ~mic.closed /\ mic.talking /\ UNCHANGED <<ep, srv>> /\ Reported("speech", <<<<mic.utt, mic.units + 1>>>>) /\ mic'.utt = mic.utt
    BY <1>2 DEF GoesOn, Said
  <2> QED BY <1>0, <2>1, BreathingGrows
<1>3. CASE Pauses
  <2>1. ~mic.closed /\ mic.talking /\ UNCHANGED <<ep, srv>> /\ Reported("end", <<>>) /\ mic'.utt = mic.utt
    BY <1>3 DEF Pauses, SameSpeech
  <2> QED BY <1>0, <2>1, BreathingGrows
<1>4. CASE Closes
  <2>1. UNCHANGED <<ep, vad, srv>> /\ mic'.utt = mic.utt /\ mic'.units = mic.units /\ mic'.talking = mic.talking
    BY <1>4 DEF Closes, SameSpeech
  <2>2. \A u : Sends(u, srv, ep.pending, ep.at, vad.q, mic') <=> Sends(u, srv, ep.pending, ep.at, vad.q, mic)
    BY <2>1 DEF Sends, Awaits
  <2>3. (Past(srv, vad.q, mic') <=> Past(srv, vad.q, mic)) /\ (Rested(vad.q, mic') <=> Rested(vad.q, mic))
    BY <2>1 DEF Past, Rested
  <2> QED BY <1>a, <1>b, <2>1, <2>2, <2>3 DEF Breathes
<1>5. CASE Moves
  BY <1>5, <1>c DEF Moves
<1>6. CASE Segmenting
  <2>1. /\ UNCHANGED <<ep, vad, srv>> /\ ep.at = "next" /\ vad.q = <<>> /\ ~mic.talking /\ srv.gens = <<>> /\ mic'.talking = mic.talking
    BY <1>6 DEF Segmenting, Segmented
  <2>2. ~vad.active
    <3> SUFFICES ASSUME vad.active PROVE FALSE
      OBVIOUS
    <3>1. PICK u \in 0..mic.utt : Sends(u, srv, ep.pending, ep.at, vad.q, mic)
      BY <1>b, <2>1
    <3>2. Awaits(u, Len(HeldIn(srv) \o ep.pending), vad.q, mic)
      BY <2>1, <3>1 DEF Sends
    <3> QED BY <2>1, <3>2 DEF Awaits
  <2>3. Past(srv, vad.q, mic') /\ Rested(vad.q, mic')
    <3>1. DOMAIN srv.gens = {}
      BY <2>1
    <3> QED BY <2>1, <3>1 DEF Past, Rested
  <2> QED BY <1>a, <1>b, <2>1, <2>2, <2>3 DEF Breathes
<1>7. CASE Asked
  <2> DEFINE n == Len(srv.gens)
  <2>1. /\ UNCHANGED <<ep, vad, mic>> /\ srv'.line = srv.line /\ srv.gens # <<>>
        /\ Len(srv'.gens) = n /\ DOMAIN srv'.gens = DOMAIN srv.gens
        /\ srv'.gens[n].audio = srv.gens[n].audio /\ srv'.gens[n].final = srv.gens[n].final
        /\ \A g \in DOMAIN srv.gens : g # n => srv'.gens[g] = srv.gens[g]
    BY <1>7 DEF Asked, Answered
  <2>2. n \in DOMAIN srv.gens
    BY <1>0, <2>1, OpenIs
  <2>3. srv'.gens # <<>>
    BY <2>1, <2>2
  <2>4. OpenIn(srv') <=> OpenIn(srv)
    BY <2>1, <2>3 DEF OpenIn
  <2>5. HeldIn(srv') = HeldIn(srv) /\ (LiveIn(srv') <=> LiveIn(srv))
    BY <2>1, <2>4 DEF HeldIn, LiveIn
  <2> HIDE DEF n
  <2>6. \A g \in DOMAIN srv.gens : srv'.gens[g].audio = srv.gens[g].audio
    BY <2>1
  <2>7. \A u : Sends(u, srv', ep.pending, ep.at, vad.q, mic) <=> Sends(u, srv, ep.pending, ep.at, vad.q, mic)
    <3>1. \A u : Before(u, srv') <=> Before(u, srv)
      BY <2>1, <2>4, <2>6 DEF Before, n
    <3> QED BY <2>5, <3>1 DEF Sends
  <2>8. Past(srv', vad.q, mic) <=> Past(srv, vad.q, mic)
    BY <2>1, <2>6 DEF Past
  <2> QED BY <1>a, <1>b, <2>1, <2>5, <2>7, <2>8 DEF Breathes
<1>8. CASE EventRead
  <2>1. UNCHANGED srv
    BY <1>8 DEF EventRead
  <2> QED BY <1>a, <1>8, <2>1, BreathingTakes
<1>d. ASSUME NEW units, Sent(units), ep.at # "over", vad.active
      PROVE  \E u \in 0..mic.utt :
               /\ Sends(u, srv, ep.pending, ep.at, vad.q, mic) /\ Run(u, HeldIn(srv')) /\ Before(u, srv')
               /\ HeldIn(srv') \o ep'.pending = HeldIn(srv) \o ep.pending
               /\ Past(srv', vad.q, mic)
  <2>1. gen.ready /\ srv' = Appended(units) /\ units \in Seq(Units)
    BY <1>d DEF Sent
  <2>2. Open
    <3> SUFFICES ASSUME ~Open PROVE FALSE
      OBVIOUS
    <3>1. srv.line = "dropped"
      BY <1>0, <1>d, <2>1, SentToOpen
    <3>2. srv'.gens = srv.gens /\ srv'.line = srv.line
      BY <1>0, <2>1, StrayIs
    <3> QED BY <3>1, <3>2, OpenIsIn DEF LiveIn, OpenIn
  <2>3. LiveIn(srv)
    BY <2>2, OpenIsIn DEF LiveIn
  <2>4. PICK u \in 0..mic.utt : Sends(u, srv, ep.pending, ep.at, vad.q, mic)
    BY <1>b, <1>d, <2>3
  <2>5. /\ HeldIn(srv') = srv'.gens[Len(srv.gens)].audio /\ Run(u, HeldIn(srv')) /\ Before(u, srv')
        /\ HeldIn(srv') \o ep'.pending = HeldIn(srv) \o ep.pending
    BY <1>d, <2>2, <2>4, SentRun
  <2>6. After(u, vad.q) /\ Past(srv, vad.q, mic)
    BY <1>b, <2>3, <2>4 DEF Sends
  <2>7. Past(srv', vad.q, mic)
    BY <1>d, <2>2, <2>5, <2>6, PastSent
  <2> QED BY <2>4, <2>5, <2>7
<1>9. CASE Flushed
  <2>1. ep.at = "flush" /\ UNCHANGED <<mic, vad>> /\ vad.active
    BY <1>9 DEF Flushed, Endpointing
  <2>2. CASE ep'.at = "next" /\ ep'.pending = ep.pending /\ UNCHANGED <<gen, srv>>
    <3>1. PICK u \in 0..mic.utt : Sends(u, srv, ep.pending, ep.at, vad.q, mic)
      BY <1>b, <2>1, <2>2
    <3>2. Sends(u, srv, ep.pending, "next", vad.q, mic)
      BY <2>1, <3>1 DEF Sends
    <3> QED BY <1>a, <1>b, <2>1, <2>2, <3>2 DEF Breathes
  <2>3. CASE ep'.at = "flush" /\ \E units \in Seq(Units) : Sent(units)
    <3>1. ep.at # "over"
      BY <2>1
    <3>2. PICK u \in 0..mic.utt :
               /\ Sends(u, srv, ep.pending, ep.at, vad.q, mic) /\ Run(u, HeldIn(srv')) /\ Before(u, srv')
               /\ HeldIn(srv') \o ep'.pending = HeldIn(srv) \o ep.pending
               /\ Past(srv', vad.q, mic)
      BY <1>d, <2>1, <2>3, <3>1
    <3>3. Sends(u, srv', ep'.pending, "flush", vad.q, mic)
      BY <2>1, <3>2 DEF Sends
    <3> QED BY <1>a, <2>1, <2>3, <3>2, <3>3 DEF Breathes
  <2> QED BY <1>9, <2>2, <2>3 DEF Flushed
<1>10. CASE RestSent
  <2>1. /\ ep.at \in {"rest", "lastRest"} /\ ep'.at = (IF ep.at = "rest" THEN "commit" ELSE "lastCommit")
        /\ vad'.active = FALSE /\ vad'.q = vad.q /\ UNCHANGED mic /\ vad.active
    BY <1>10 DEF RestSent, Endpointing
  <2>2. Past(srv', vad.q, mic) /\ LiveIn(srv)
    <3>1. CASE UNCHANGED srv
      BY <1>b, <3>1
    <3>2. CASE Sent(ep.pending)
      <4>1. ep.at # "over"
        BY <2>1
      <4>2. Past(srv', vad.q, mic)
        BY <1>d, <2>1, <3>2, <4>1
      <4>3. LiveIn(srv)
        <5>1. srv' = Appended(ep.pending) /\ ep.pending \in Seq(Units)
          BY <3>2 DEF Sent
        <5>2. CASE Open
          BY <5>2, OpenIsIn DEF LiveIn
        <5>3. CASE ~Open
          <6>1. srv'.gens = srv.gens /\ srv'.line = srv.line
            BY <1>0, <5>1, <5>3, StrayIs
          <6> QED BY <6>1 DEF LiveIn, OpenIn
        <5> QED BY <5>2, <5>3
      <4> QED BY <4>2, <4>3
    <3> QED BY <1>10, <3>1, <3>2 DEF RestSent
  <2>3. ep'.at = "commit" => Rested(vad.q, mic)
    BY <1>b, <2>1, <2>2
  <2> QED BY <1>a, <2>1, <2>2, <2>3 DEF Breathes
<1>11. CASE Finalized
  <2>1. /\ ep.at \in {"commit", "lastCommit"} /\ ep'.at = (IF ep.at = "commit" THEN "next" ELSE "over")
        /\ UNCHANGED <<mic, vad>> /\ ~vad.active
    BY <1>11 DEF Finalized, Endpointing
  <2>2. HeldIn(srv') = <<>> /\ LiveIn(srv) /\ Past(srv', vad.q, mic)
    <3>1. CASE (gen.final \/ (conf.vad /\ ~gen.audio)) /\ UNCHANGED <<gen, srv>>
      <4>1. ASSUME OpenIn(srv) PROVE srv.gens[Len(srv.gens)].audio = <<>>
        <5>1. FlagsTell(srv, gen) /\ HeldKnown(srv, gen) /\ OneUndone(srv)
          BY GeneratingIs
        <5>2. ~gen.audio
          BY <3>1, <4>1, <5>1 DEF FlagsTell
        <5>3. srv.gens # <<>> /\ ~srv.gens[Len(srv.gens)].final /\ Len(srv.gens) \in DOMAIN srv.gens
          BY <1>0, <4>1, OpenIs DEF OpenIn
        <5>4. ~srv.gens[Len(srv.gens)].done
          BY <5>1, <5>3 DEF OneUndone
        <5> QED BY <5>1, <5>2, <5>3, <5>4 DEF HeldKnown
      <4> QED BY <1>b, <3>1, <4>1 DEF HeldIn
    <3>2. CASE srv' = Commits /\ Open
      <4> DEFINE n == Len(srv.gens)
      <4>1. /\ Len(srv'.gens) = n /\ DOMAIN srv'.gens = DOMAIN srv.gens
            /\ srv'.gens[n].audio = srv.gens[n].audio /\ srv'.gens[n].final = TRUE
            /\ \A g \in DOMAIN srv.gens : g # n => srv'.gens[g] = srv.gens[g]
        BY <1>0, <3>2, CommitsIs
      <4>2. ~OpenIn(srv') /\ LiveIn(srv)
        BY <3>2, <4>1, OpenIsIn DEF OpenIn, LiveIn
      <4>3. \A g \in DOMAIN srv.gens : srv'.gens[g].audio = srv.gens[g].audio
        BY <4>1
      <4>4. Past(srv', vad.q, mic)
        BY <1>b, <4>1, <4>2, <4>3 DEF Past
      <4> QED BY <4>2, <4>4 DEF HeldIn
    <3>3. CASE srv' = Commits /\ ~Open
      BY <1>b, <3>3, OpenIsIn DEF Commits, HeldIn
    <3> QED BY <1>11, <3>1, <3>2, <3>3 DEF Finalized
  <2>3. ep'.at = "next" => Rested(vad.q, mic)
    BY <1>b, <2>1, <2>2
  <2> QED BY <1>a, <2>1, <2>2, <2>3 DEF Breathes
<1>12. CASE Drained
  <2>1. /\ ep.at = "next" /\ ep'.pending = ep.pending /\ ep'.at = (IF vad.active \/ ~conf.vad THEN "lastRest" ELSE "over")
        /\ vad'.active = vad.active /\ vad'.q = vad.q /\ UNCHANGED mic /\ srv'.gens = srv.gens
        /\ (srv'.line = srv.line \/ srv.line = "open")
    BY <1>12 DEF Drained
  <2>2. OpenIn(srv') = OpenIn(srv) /\ HeldIn(srv') = HeldIn(srv) /\ LiveIn(srv)
    BY <2>1 DEF OpenIn, HeldIn, LiveIn
  <2>3. Past(srv', vad.q, mic)
    BY <1>b, <2>1, <2>2 DEF Past
  <2>4. ASSUME vad.active PROVE \E u \in 0..mic.utt : Sends(u, srv', ep.pending, "lastRest", vad.q, mic)
    <3>1. PICK u \in 0..mic.utt : Sends(u, srv, ep.pending, ep.at, vad.q, mic)
      BY <1>b, <2>2, <2>4
    <3>2. Sends(u, srv', ep.pending, "lastRest", vad.q, mic)
      BY <2>1, <2>2, <3>1 DEF Sends, Before
    <3> QED BY <3>2
  <2> QED BY <1>a, <2>1, <2>3, <2>4 DEF Breathes
<1>13. CASE Rearmed
  <2>1. UNCHANGED <<mic, vad, ep>> /\ rx = "arm" /\ srv' = IF srv.line = "open" THEN Arms ELSE srv
    BY <1>13 DEF Rearmed
  <2>2. CASE srv.line # "open"
    BY <1>c, <2>1, <2>2
  <2>3. CASE srv.line = "open"
    <3> DEFINE n == Len(srv.gens)
    <3>1. /\ Len(srv'.gens) = n + 1 /\ DOMAIN srv'.gens = 1..(n + 1) /\ srv'.gens # <<>>
          /\ srv'.gens[n + 1].audio = <<>> /\ srv'.gens[n + 1].final = FALSE
          /\ \A g \in DOMAIN srv.gens : srv'.gens[g] = srv.gens[g]
      BY <1>0, <2>1, <2>3, ArmsIs
    <3>2. n \in Nat /\ DOMAIN srv.gens = 1..n
      BY <1>0, SrvIs
    <3>3. ~OpenIn(srv) /\ LiveIn(srv)
      BY <2>1, <2>3, GeneratingIs DEF FlagsTell, Unarmed, LiveIn
    <3>4. HeldIn(srv) = <<>> /\ HeldIn(srv') = <<>>
      BY <3>1, <3>3 DEF HeldIn
    <3> HIDE DEF n
    <3>5. ASSUME NEW g \in DOMAIN srv'.gens, srv'.gens[g].audio # <<>> PROVE g \in DOMAIN srv.gens /\ srv'.gens[g] = srv.gens[g]
      <4>1. g # n + 1
        BY <3>1, <3>5
      <4>2. g \in 1..n
        BY <3>1, <3>2, <4>1
      <4> QED BY <3>1, <3>2, <4>2
    <3>6. Past(srv', vad.q, mic)
      BY <1>b, <3>3, <3>5 DEF Past
    <3>7. ASSUME vad.active PROVE \E u \in 0..mic.utt : Sends(u, srv', ep.pending, ep.at, vad.q, mic)
      <4>1. PICK u \in 0..mic.utt : Sends(u, srv, ep.pending, ep.at, vad.q, mic)
        BY <1>b, <3>3, <3>7
      <4>2. Before(u, srv')
        BY <3>3, <3>5, <4>1 DEF Sends, Before
      <4>3. Sends(u, srv', ep.pending, ep.at, vad.q, mic)
        BY <3>4, <4>1, <4>2 DEF Sends
      <4> QED BY <4>3
    <3> QED BY <1>a, <1>b, <2>1, <3>3, <3>4, <3>6, <3>7 DEF Breathes
  <2> QED BY <2>2, <2>3
<1>14. CASE Received
  <2>1. UNCHANGED <<ep, vad, mic>> /\ srv'.gens = srv.gens /\ srv'.line = srv.line
    BY <1>14 DEF Received
  <2>2. LiveIn(srv)
    BY <2>1 DEF LiveIn, OpenIn
  <2> QED BY <1>c, <2>1, <2>2
<1>15. CASE LineDropped
  <2>1. UNCHANGED <<ep, vad, mic>> /\ srv'.gens = srv.gens /\ LiveIn(srv)
    BY <1>15 DEF LineDropped, LiveIn
  <2> QED BY <1>c, <2>1
<1> QED BY <1>1, <1>2, <1>3, <1>4, <1>5, <1>6, <1>7, <1>8, <1>9, <1>10, <1>11, <1>12, <1>13, <1>14, <1>15 DEF Step

-----------------------------------------------------------------------------
(* Where the audio goes                                                      *)

\* Either every generation keeps its audio, or there is a new empty one, or
\* some of what is pending was appended.
ToEmpty ==
  LET n == Len(srv.gens) IN
  /\ DOMAIN srv'.gens = 1..(n + 1) /\ DOMAIN srv.gens = 1..n /\ n \in Nat /\ srv'.gens[n + 1].audio = <<>>
  /\ \A g \in DOMAIN srv.gens : srv'.gens[g].audio = srv.gens[g].audio
SomeSent == ep.at # "over" /\ ep.at \in {"flush", "rest", "lastRest"} /\ vad'.q = vad.q /\ UNCHANGED mic /\ \E units \in Seq(Units) : Sent(units)

LEMMA AudioIs ==
  ASSUME HearTypes, Step
  PROVE  /\ SomeSent \/ (srv'.stray = srv.stray /\ (SameAudio \/ ToEmpty))
         /\ srv.line = "dropped" => srv'.line = "dropped"
<1>1. srv \in SrvSet
  BY DEF HearTypes
<1>a. ASSUME srv'.gens = srv.gens PROVE SameAudio
  BY <1>a DEF SameAudio
<1>2. CASE Starts \/ GoesOn \/ Pauses \/ Closes \/ Moves \/ Segmenting \/ EventRead
  <2>1. UNCHANGED srv
    BY <1>2 DEF Starts, GoesOn, Pauses, Closes, Moves, Segmenting, EventRead
  <2> QED BY <1>a, <2>1
<1>3. CASE Asked
  <2> DEFINE n == Len(srv.gens)
  <2>1. /\ srv'.stray = srv.stray /\ srv'.line = srv.line /\ DOMAIN srv'.gens = DOMAIN srv.gens
        /\ srv'.gens[n].audio = srv.gens[n].audio /\ \A g \in DOMAIN srv.gens : g # n => srv'.gens[g] = srv.gens[g]
    BY <1>3 DEF Asked, Answered
  <2> HIDE DEF n
  <2>2. \A g \in DOMAIN srv.gens : srv'.gens[g].audio = srv.gens[g].audio
    BY <2>1
  <2> QED BY <2>1, <2>2 DEF SameAudio
<1>4. ASSUME NEW units \in Seq(Units), Sent(units) PROVE srv'.line = srv.line
  BY <1>1, <1>4, AppendedIs, StrayIs DEF Sent
<1>5. CASE Flushed
  <2>1. ep.at = "flush" /\ UNCHANGED <<mic, vad>> /\ (UNCHANGED srv \/ \E units \in Seq(Units) : Sent(units))
    BY <1>5 DEF Flushed
  <2> QED BY <1>a, <1>4, <2>1 DEF SomeSent
<1>6. CASE RestSent
  <2>1. ep.at \in {"rest", "lastRest"} /\ UNCHANGED mic /\ vad'.q = vad.q /\ (UNCHANGED srv \/ Sent(ep.pending))
    BY <1>6 DEF RestSent
  <2>2. ep.pending \in Seq(Units)
    BY DEF HearTypes, EpSet
  <2> QED BY <1>a, <1>4, <2>1, <2>2 DEF SomeSent
<1>7. CASE Finalized
  <2>1. CASE UNCHANGED srv
    BY <1>a, <2>1
  <2>2. CASE srv' = Commits /\ Open
    <3> DEFINE n == Len(srv.gens)
    <3>1. /\ srv'.stray = srv.stray /\ srv'.line = srv.line /\ DOMAIN srv'.gens = DOMAIN srv.gens
          /\ srv'.gens[n].audio = srv.gens[n].audio /\ \A g \in DOMAIN srv.gens : g # n => srv'.gens[g] = srv.gens[g]
      BY <1>1, <2>2, CommitsIs
    <3> HIDE DEF n
    <3>2. \A g \in DOMAIN srv.gens : srv'.gens[g].audio = srv.gens[g].audio
      BY <3>1
    <3> QED BY <3>1, <3>2 DEF SameAudio
  <2>3. CASE srv' = Commits /\ ~Open
    BY <1>a, <2>3 DEF Commits
  <2> QED BY <1>7, <2>1, <2>2, <2>3 DEF Finalized
<1>8. CASE Drained \/ Received \/ LineDropped
  <2>1. srv'.gens = srv.gens /\ srv'.stray = srv.stray /\ (srv.line = "dropped" => srv'.line = "dropped")
    BY <1>8 DEF Drained, Received, LineDropped
  <2> QED BY <1>a, <2>1
<1>9. CASE Rearmed
  <2>1. CASE srv.line # "open"
    BY <1>9, <1>a, <2>1 DEF Rearmed
  <2>2. CASE srv.line = "open"
    <3>1. srv' = Arms
      BY <1>9, <2>2 DEF Rearmed
    <3> DEFINE n == Len(srv.gens)
    <3>2. /\ srv'.stray = srv.stray /\ srv'.line = srv.line /\ DOMAIN srv'.gens = 1..(n + 1) /\ srv'.gens[n + 1].audio = <<>>
          /\ \A g \in DOMAIN srv.gens : srv'.gens[g] = srv.gens[g]
      BY <1>1, <3>1, ArmsIs
    <3>3. n \in Nat /\ DOMAIN srv.gens = 1..n
      BY <1>1, SrvIs
    <3> QED BY <3>2, <3>3 DEF ToEmpty
  <2> QED BY <2>1, <2>2
<1> QED BY <1>2, <1>3, <1>5, <1>6, <1>7, <1>8, <1>9 DEF Step

\* Uncut, part by part.
Straight(s) == \A g \in DOMAIN s.gens : \A i \in DOMAIN s.gens[g].audio : s.gens[g].audio[i] = <<s.gens[g].audio[1][1], i>>
Ordered(s) ==
  \A g, h \in DOMAIN s.gens :
    g < h /\ s.gens[g].audio # <<>> /\ s.gens[h].audio # <<>> => s.gens[g].audio[1][1] < s.gens[h].audio[1][1]

LEMMA UncutIs ==
  /\ Uncut <=> (srv.stray # {} => srv.line = "dropped") /\ (conf.vad => Straight(srv)) /\ (conf.vad => Ordered(srv))
  /\ Uncut' <=> (srv'.stray # {} => srv'.line = "dropped") /\ (conf'.vad => Straight(srv')) /\ (conf'.vad => Ordered(srv'))
BY DEF Uncut, Straight, Ordered

LEMMA UncutKept ==
  ASSUME HearTypes, Generating, Endpointing, Breathing, Uncut, Step, HearTypes', UNCHANGED conf
  PROVE  Uncut'
<1>1. /\ srv \in SrvSet /\ srv' \in SrvSet /\ mic.utt \in Nat
  BY DEF HearTypes, MicSet
<1>2. (srv.stray # {} => srv.line = "dropped") /\ (conf.vad => Straight(srv)) /\ (conf.vad => Ordered(srv))
  BY UncutIs
<1>3. srv.line = "dropped" => srv'.line = "dropped"
  BY AudioIs
<1>4. CASE SameAudio /\ srv'.stray = srv.stray
  <2>1. (conf.vad => Straight(srv')) /\ (conf.vad => Ordered(srv'))
    BY <1>2, <1>4 DEF SameAudio, Straight, Ordered
  <2> QED BY <1>2, <1>3, <1>4, <2>1, UncutIs
<1>5. CASE ToEmpty /\ srv'.stray = srv.stray
  <2> DEFINE n == Len(srv.gens)
  <2>1. /\ DOMAIN srv'.gens = 1..(n + 1) /\ DOMAIN srv.gens = 1..n /\ n \in Nat /\ srv'.gens[n + 1].audio = <<>>
        /\ \A g \in DOMAIN srv.gens : srv'.gens[g].audio = srv.gens[g].audio
    BY <1>5 DEF ToEmpty
  <2> HIDE DEF n
  <2>2. \A g \in DOMAIN srv'.gens : g \in DOMAIN srv.gens \/ g = n + 1
    BY <2>1
  <2>3. DOMAIN srv'.gens[n + 1].audio = {}
    BY <2>1
  <2>4. conf.vad => Straight(srv')
    BY <1>2, <2>1, <2>2, <2>3 DEF Straight
  <2>5. conf.vad => Ordered(srv')
    BY <1>2, <2>1, <2>2 DEF Ordered
  <2> QED BY <1>2, <1>3, <1>5, <2>4, <2>5, UncutIs
<1>6. CASE SomeSent
  <2>1. PICK units \in Seq(Units) : Sent(units)
    BY <1>6 DEF SomeSent
  <2>2. gen.ready /\ srv' = Appended(units) /\ ep.at # "over" /\ ep.at \in {"flush", "rest", "lastRest"}
    BY <1>6, <2>1 DEF SomeSent, Sent
  <2>3. CASE ~Open
    <3>1. srv.line = "dropped" /\ srv'.gens = srv.gens
      BY <1>1, <2>2, <2>3, SentToOpen, StrayIs
    <3>2. (conf.vad => Straight(srv')) /\ (conf.vad => Ordered(srv'))
      BY <1>2, <3>1 DEF Straight, Ordered
    <3> QED BY <1>3, <3>1, <3>2, UncutIs
  <2>4. CASE Open
    <3> DEFINE n == Len(srv.gens)
    <3>1. /\ srv'.stray = srv.stray /\ Len(srv'.gens) = n /\ DOMAIN srv'.gens = DOMAIN srv.gens
          /\ \A g \in DOMAIN srv.gens : g # n => srv'.gens[g] = srv.gens[g]
      BY <1>1, <2>2, <2>4, AppendedIs
    <3>2. n \in Nat /\ DOMAIN srv.gens = 1..n
      BY <1>1, SrvIs
    <3> SUFFICES ASSUME conf.vad PROVE Straight(srv') /\ Ordered(srv')
      BY <1>2, <1>3, <3>1, UncutIs
    <3>3. vad.active /\ LiveIn(srv)
      BY <2>2, <2>4, OpenIsIn DEF Endpointing, LiveIn
    <3>4. PICK u \in 0..mic.utt : Sends(u, srv, ep.pending, ep.at, vad.q, mic)
      BY <3>3, BreathingIs DEF Breathes
    <3> DEFINE a == srv'.gens[n].audio
    <3>5. OpenIn(srv') /\ HeldIn(srv') = a /\ Run(u, a) /\ Before(u, srv')
      BY <2>1, <2>4, <3>4, SentRun
    <3>6. a \in Seq(Units) /\ a[1][1] = u
      BY <1>1, <3>5, HeldIsSeq, RunBegins
    <3> HIDE DEF n
    <3>7. Straight(srv')
      <4> SUFFICES ASSUME NEW g \in DOMAIN srv'.gens, NEW i \in DOMAIN srv'.gens[g].audio
                   PROVE  srv'.gens[g].audio[i] = <<srv'.gens[g].audio[1][1], i>>
        BY DEF Straight
      <4>1. CASE g = n
        BY <3>5, <3>6, <4>1 DEF Run
      <4>2. CASE g # n
        BY <1>2, <3>1, <4>2 DEF Straight
      <4> QED BY <4>1, <4>2
    <3>8. Ordered(srv')
      <4> SUFFICES ASSUME NEW g \in DOMAIN srv'.gens, NEW h \in DOMAIN srv'.gens, g < h,
                          srv'.gens[g].audio # <<>>, srv'.gens[h].audio # <<>>
                   PROVE  srv'.gens[g].audio[1][1] < srv'.gens[h].audio[1][1]
        BY DEF Ordered
      <4>1. g # n
        BY <3>1, <3>2
      <4>2. CASE h = n
        <5>1. srv'.gens[g].audio[1][1] < u
          BY <3>1, <3>5, <4>1 DEF Before
        <5> QED BY <3>6, <4>2, <5>1
      <4>3. CASE h # n
        BY <1>2, <3>1, <4>1, <4>3 DEF Ordered
      <4> QED BY <4>2, <4>3
    <3> QED BY <3>7, <3>8
  <2> QED BY <2>3, <2>4
<1> QED BY <1>4, <1>5, <1>6, AudioIs

\* Where a unit is: with the recognizer, pending or in an event.
Somewhere(x, s, p, q) ==
  \/ \E g \in DOMAIN s.gens : x \in Range(s.gens[g].audio)
  \/ x \in Range(p)
  \/ \E i \in DOMAIN q : x \in Range(q[i].frames)

LEMMA KeptIs ==
  /\ Kept <=> (srv.line # "dropped" => \A x \in mic.said : Somewhere(x, srv, ep.pending, vad.q))
  /\ Kept' <=> (srv'.line # "dropped" => \A x \in mic'.said : Somewhere(x, srv', ep'.pending, vad'.q))
BY DEF Kept, Somewhere

\* The sending task takes an event: its audio is pending.
LEMMA TakenPending ==
  ASSUME HearTypes, Endpointing, Queued, Breathing, EventRead, UNCHANGED conf, srv.line # "dropped", NEW x
  PROVE  /\ x \in Range(ep.pending) => x \in Range(ep'.pending)
         /\ x \in Range(vad.q[1].frames) => x \in Range(ep'.pending)
<1> DEFINE e == vad.q[1]
           p == ep.pending
<1>1. vad \in VadSet /\ p \in Seq(Units) /\ 1 \in DOMAIN vad.q /\ conf.vad \in BOOLEAN /\ ep'.pending \in Seq(Units)
  BY DEF HearTypes, EpSet, EventRead, Taken, EpIs
<1>2. e \in VadEvents /\ GoodEvent(e, mic)
  BY <1>1, VadIs, QueuedIs DEF InOrder
<1>3. e.frames \in Seq(Units) /\ e.type \in {"start", "speech", "end"}
  BY <1>2, EventIs
<1>4. conf.vad => (e.type = "start" => p = <<>>) /\ (e.type = "speech" => vad.active)
  <2>1. LiveIn(srv)
    BY DEF LiveIn
  <2> QED BY <2>1, BreathingTakes
<1>5. e.type = "end" => e.frames = <<>>
  BY <1>2 DEF GoodEvent
<1>6. \/ conf.vad /\ e.type = "start" /\ ep'.pending = e.frames
      \/ ~conf.vad /\ ep'.pending = p \o e.frames
      \/ conf.vad /\ e.type = "speech" /\ ep'.pending = p \o e.frames
      \/ conf.vad /\ e.type = "end" /\ ep'.pending = p
      \/ conf.vad /\ e.type # "start" /\ ~vad.active /\ ep'.pending = p
  BY DEF EventRead, EpIs
<1> HIDE DEF e, p
<1>7. Range(p \o e.frames) = Range(p) \union Range(e.frames)
  BY <1>1, <1>3, RangeConcatenation
<1>8. Range(<<>>) = {}
  BY DEF Range
<1>9. CASE ep'.pending = p \o e.frames
  BY <1>7, <1>9 DEF e, p
<1>10. CASE conf.vad /\ e.type = "start" /\ ep'.pending = e.frames
  BY <1>4, <1>8, <1>10 DEF e, p
<1>11. CASE e.type = "end" /\ ep'.pending = p
  BY <1>5, <1>8, <1>11 DEF e, p
<1> QED BY <1>3, <1>4, <1>6, <1>9, <1>10, <1>11

LEMMA KeptKept ==
  ASSUME HearTypes, Generating, Endpointing, Queued, Breathing, Segmented, Kept, Step, HearTypes', UNCHANGED conf
  PROVE  Kept'
<1> SUFFICES ASSUME srv'.line # "dropped", NEW x \in mic'.said PROVE Somewhere(x, srv', ep'.pending, vad'.q)
  BY KeptIs
<1>1. srv \in SrvSet /\ srv' \in SrvSet /\ vad \in VadSet /\ vad' \in VadSet /\ ep.pending \in Seq(Units) /\ ep'.pending \in Seq(Units)
  BY DEF HearTypes, EpSet
<1>2. srv.line # "dropped"
  BY AudioIs
<1>3. x \in mic.said => Somewhere(x, srv, ep.pending, vad.q)
  BY <1>2, KeptIs
<1>4. CASE SomeSent
  <2>1. PICK units \in Seq(Units) : Sent(units)
    BY <1>4 DEF SomeSent
  <2>2. gen.ready /\ srv' = Appended(units) /\ ep.at # "over" /\ vad'.q = vad.q /\ UNCHANGED mic /\ ep.pending = units \o ep'.pending
    BY <1>4, <2>1 DEF SomeSent, Sent
  <2>3. Open
    BY <1>1, <1>2, <2>2, SentToOpen
  <2> DEFINE n == Len(srv.gens)
             a == srv.gens[n].audio
  <2>4. n \in DOMAIN srv.gens
    BY <1>1, <2>3, OpenIs
  <2>5. /\ DOMAIN srv'.gens = DOMAIN srv.gens /\ srv'.gens[n].audio = a \o units
        /\ \A g \in DOMAIN srv.gens : g # n => srv'.gens[g] = srv.gens[g]
    BY <1>1, <2>2, <2>3, AppendedIs
  <2>6. a \in Seq(Units)
    BY <1>1, <2>4, GenerationIs
  <2>7. Range(a \o units) = Range(a) \union Range(units) /\ Range(ep.pending) = Range(units) \union Range(ep'.pending)
    BY <1>1, <2>2, <2>6, RangeConcatenation
  <2> HIDE DEF n
  <2>8. ASSUME NEW g \in DOMAIN srv.gens, x \in Range(srv.gens[g].audio) PROVE x \in Range(srv'.gens[g].audio)
    BY <2>5, <2>7, <2>8
  <2> HIDE DEF a
  <2> QED BY <1>3, <2>2, <2>4, <2>5, <2>7, <2>8 DEF Somewhere
<1>5. CASE SameAudio \/ ToEmpty
  <2>1. \A g \in DOMAIN srv.gens : g \in DOMAIN srv'.gens /\ srv'.gens[g].audio = srv.gens[g].audio
    <3>1. CASE SameAudio
      BY <3>1 DEF SameAudio
    <3>2. CASE ToEmpty
      BY <3>2 DEF ToEmpty
    <3> QED BY <1>5, <3>1, <3>2
  <2>2. CASE mic'.said = mic.said /\ vad'.q = vad.q /\ ep'.pending = ep.pending
    BY <1>3, <2>1, <2>2 DEF Somewhere
  <2>3. ASSUME NEW type, NEW frames, Reported(type, frames), ep'.pending = ep.pending,
               x \in mic.said \/ x \in Range(frames)
        PROVE  Somewhere(x, srv', ep'.pending, vad'.q)
    <3> DEFINE n == Len(vad.q)
    <3>1. n \in Nat /\ DOMAIN vad.q = 1..n
      BY <1>1, VadIs
    <3>2. DOMAIN vad'.q = 1..(n + 1) /\ vad'.q[n + 1].frames = frames /\ \A i \in DOMAIN vad.q : vad'.q[i] = vad.q[i]
      BY <2>3 DEF Reported
    <3>3. n + 1 \in DOMAIN vad'.q /\ \A i \in DOMAIN vad.q : i \in DOMAIN vad'.q
      BY <3>1, <3>2
    <3> HIDE DEF n
    <3> QED BY <1>3, <2>1, <2>3, <3>2, <3>3 DEF Somewhere
  <2>4. CASE Starts \/ GoesOn \/ Pauses
    <3>1. CASE Starts
      <4> DEFINE f == <<<<mic.utt + 1, 1>>>>
      <4>1. Reported("start", f) /\ ep'.pending = ep.pending /\ mic'.said = mic.said \union {<<mic.utt + 1, 1>>}
        BY <3>1 DEF Starts, Said
      <4>2. <<mic.utt + 1, 1>> \in Range(f)
        BY DEF Range
      <4> HIDE DEF f
      <4> QED BY <2>3, <4>1, <4>2
    <3>2. CASE GoesOn
      <4> DEFINE f == <<<<mic.utt, mic.units + 1>>>>
      <4>1. Reported("speech", f) /\ ep'.pending = ep.pending /\ mic'.said = mic.said \union {<<mic.utt, mic.units + 1>>}
        BY <3>2 DEF GoesOn, Said
      <4>2. <<mic.utt, mic.units + 1>> \in Range(f)
        BY DEF Range
      <4> HIDE DEF f
      <4> QED BY <2>3, <4>1, <4>2
    <3>3. CASE Pauses
      <4>1. Reported("end", <<>>) /\ ep'.pending = ep.pending /\ mic'.said = mic.said
        BY <3>3 DEF Pauses, SameSpeech
      <4> QED BY <2>3, <4>1
    <3> QED BY <2>4, <3>1, <3>2, <3>3
  <2>5. CASE EventRead
    <3>1. UNCHANGED mic /\ Taken
      BY <2>5 DEF EventRead
    <3>2. Somewhere(x, srv, ep.pending, vad.q)
      BY <1>3, <3>1
    <3>3. CASE \E g \in DOMAIN srv.gens : x \in Range(srv.gens[g].audio)
      BY <2>1, <3>3 DEF Somewhere
    <3>4. CASE x \in Range(ep.pending)
      BY <1>2, <2>5, <3>4, TakenPending DEF Somewhere
    <3>5. ASSUME NEW i \in DOMAIN vad.q, x \in Range(vad.q[i].frames) PROVE Somewhere(x, srv', ep'.pending, vad'.q)
      <4>1. CASE i = 1
        BY <1>2, <2>5, <3>5, <4>1, TakenPending DEF Somewhere
      <4>2. CASE i # 1
        <5>1. Len(vad.q) \in Nat /\ DOMAIN vad.q = 1..Len(vad.q)
          BY <1>1, VadIs
        <5>2. DOMAIN vad'.q = 1..(Len(vad.q) - 1) /\ \A j \in DOMAIN vad'.q : vad'.q[j] = vad.q[j + 1]
          BY <3>1 DEF Taken
        <5>3. i - 1 \in DOMAIN vad'.q /\ (i - 1) + 1 = i
          BY <4>2, <5>1, <5>2
        <5>4. vad'.q[i - 1] = vad.q[i]
          BY <5>2, <5>3
        <5> QED BY <3>5, <5>3, <5>4 DEF Somewhere
      <4> QED BY <4>1, <4>2
    <3> QED BY <3>2, <3>3, <3>4, <3>5 DEF Somewhere
  <2>6. CASE Flushed \/ RestSent
    <3>1. \/ mic'.said = mic.said /\ vad'.q = vad.q /\ ep'.pending = ep.pending
          \/ SomeSent
      <4>1. CASE Flushed
        BY <4>1 DEF Flushed, SomeSent
      <4>2. CASE RestSent
        BY <1>1, <4>2 DEF RestSent, SomeSent
      <4> QED BY <2>6, <4>1, <4>2
    <3> QED BY <1>4, <2>2, <3>1
  <2>7. CASE Closes \/ Moves \/ Segmenting \/ Asked \/ Finalized \/ Drained \/ Rearmed \/ Received \/ LineDropped
    <3>1. mic'.said = mic.said /\ vad'.q = vad.q /\ ep'.pending = ep.pending
      BY <2>7 DEF Closes, SameSpeech, Moves, Segmenting, Asked, Finalized, Drained, Rearmed, Received, LineDropped
    <3> QED BY <2>2, <3>1
  <2> QED BY <2>4, <2>5, <2>6, <2>7 DEF Step
<1> QED BY <1>4, <1>5, AudioIs

-----------------------------------------------------------------------------
(* The stream as a whole                                                     *)

LEMMA HearInit ==
  ASSUME Init
  PROVE  HearInv
<1>1. conf.vad \in BOOLEAN
  BY TranscriberAssumption DEF Init
<1>2. mic = [utt |-> 0, units |-> 0, said |-> {}, talking |-> FALSE, ended |-> FALSE, closed |-> FALSE]
  BY DEF Init, TranscriberInit
<1>3. vad = [q |-> <<>>, active |-> FALSE, drained |-> FALSE] /\ ep = [at |-> "next", pending |-> <<>>]
  BY DEF Init, TranscriberInit
<1>4. gen = [ready |-> FALSE, audio |-> FALSE, final |-> FALSE] /\ rx = "connect" /\ run = "on"
  BY DEF Init, TranscriberInit
<1>5. out = [speaking |-> FALSE, raw |-> FALSE, events |-> <<>>]
  BY DEF Init, TranscriberInit
<1>6. srv = [gens |-> <<>>, stray |-> {}, inbox |-> <<>>, line |-> "open"]
  BY DEF Init, TranscriberInit
<1>7. mic \in MicSet /\ mic.said = {} /\ ~mic.talking /\ ~mic.closed
  BY <1>2 DEF MicSet
<1>8. vad \in VadSet /\ vad.q = <<>> /\ ~vad.active /\ ep \in EpSet /\ ep.at = "next" /\ ep.pending = <<>>
  BY <1>3 DEF VadSet, EpSet
<1>9. gen \in GenSet /\ ~gen.ready /\ ~gen.audio /\ ~gen.final
  BY <1>4 DEF GenSet
<1>10. out \in OutSet /\ ~out.speaking /\ out.events = <<>>
  BY <1>5 DEF OutSet
<1>11. srv \in SrvSet /\ srv.gens = <<>> /\ srv.stray = {} /\ srv.inbox = <<>> /\ srv.line = "open"
  BY <1>6 DEF SrvSet
<1>12. DOMAIN srv.gens = {} /\ DOMAIN srv.inbox = {} /\ DOMAIN vad.q = {} /\ DOMAIN out.events = {}
  BY <1>8, <1>10, <1>11
<1>13. ~Open /\ Held = <<>>
  BY <1>11 DEF Open, Held
<1>14. HearTypes
  BY <1>1, <1>4, <1>7, <1>8, <1>9, <1>10, <1>11 DEF HearTypes
<1>15. Generating
  BY <1>4, <1>9, <1>11, <1>12, <1>13 DEF Generating
<1>16. Endpointing /\ Queued /\ Kept
  BY <1>7, <1>8, <1>12 DEF Endpointing, Queued, Kept
<1>17. Breathing
  BY <1>7, <1>8, <1>12, <1>13 DEF Breathing
<1>18. Segmented /\ Returned
  BY <1>4, <1>7, <1>8, <1>9, <1>11 DEF Segmented, Returned
<1>19. Uncut
  BY <1>11, <1>12 DEF Uncut
<1>20. Speaking /\ Bracketed
  BY <1>10, <1>12 DEF Speaking, Bracketed
<1> QED BY <1>14, <1>15, <1>16, <1>17, <1>18, <1>19, <1>20 DEF HearInv

LEMMA HearKeeps ==
  ASSUME HearInv, TranscriberNext, UNCHANGED conf
  PROVE  HearInv'
<1>1. /\ HearTypes /\ Generating /\ Endpointing /\ Queued /\ Kept /\ Breathing /\ Segmented /\ Returned /\ Uncut
      /\ Speaking /\ Bracketed
  BY DEF HearInv
<1>2. out \in OutSet
  BY <1>1 DEF HearTypes
<1>3. Reports(out')
  BY <1>1, <1>2, ReportsAre, ReportsKept
<1>4. out' \in OutSet /\ Speaking' /\ Bracketed'
  BY <1>3 DEF Reports, Brackets, OpenSpeech, Speaking, Bracketed
<1>5. Step /\ run = "on"
  <2>1. Step
    BY <1>1, EveryStep
  <2>2. run = "on"
    BY DEF TranscriberNext, Recognizes, Segments, On, Segment, StartsSpeech, SpeaksOn, FallsSilent, InputEnds, Answers, Hangs, Raises,
       ReadsEvent, FlushesAudio, SendsRest, Finalizes, Drains, Connects, Armed, Receives, SeesClose, Returns,
       Collects, Transcribes, ProcessLine, SegmentOver, SegmentsEnd
  <2> QED BY <2>1, <2>2
<1>6. HearTypes'
  BY <1>1, <1>4, <1>5, TypesKept
<1>7. Generating' /\ Endpointing'
  BY <1>1, <1>5, <1>6, GeneratingKept, EndpointingKept
<1>8. Queued' /\ Breathing'
  BY <1>1, <1>5, <1>6, QueuedKept, BreathingKept
<1>9. Kept' /\ Uncut'
  BY <1>1, <1>5, <1>6, KeptKept, UncutKept
<1>10. Segmented' /\ Returned'
  BY <1>1, <1>5, OthersKept
<1> QED BY <1>4, <1>6, <1>7, <1>8, <1>9, <1>10 DEF HearInv

LEMMA HearStays ==
  ASSUME HearInv, UNCHANGED <<conf, tvars>>
  PROVE  HearInv'
<1>1. UNCHANGED conf /\ UNCHANGED mic /\ UNCHANGED vad /\ UNCHANGED ep /\ UNCHANGED gen /\ UNCHANGED rx /\ UNCHANGED out
      /\ UNCHANGED srv /\ UNCHANGED run
  BY DEF tvars
<1>2. HearTypes' /\ Endpointing' /\ Queued' /\ Kept' /\ Segmented' /\ Returned' /\ Uncut' /\ Speaking' /\ Bracketed'
  BY <1>1 DEF HearInv, HearTypes, Endpointing, Queued, Kept, Segmented, Returned, Uncut, Speaking, Bracketed, Realtime
<1>3. Generating'
  BY <1>1, GeneratingStays DEF HearInv
<1>4. Breathing'
  BY <1>1, BreathingIs DEF HearInv
<1> QED BY <1>2, <1>3, <1>4 DEF HearInv

\* A stream that returned left every word in a generation that was transcribed.
LEMMA AllTranscribed ==
  ASSUME HearInv
  PROVE  WholeUtterance
<1>1. /\ HearTypes /\ Generating /\ Endpointing /\ Kept /\ Segmented /\ Returned /\ Uncut
  BY DEF HearInv
<1>2. ASSUME run = "over", srv.line # "dropped", NEW x \in mic.said
      PROVE  \E g \in DOMAIN srv.gens : srv.gens[g].done /\ x \in Range(srv.gens[g].audio)
  <2>1. Realtime
    BY <1>1, <1>2 DEF Segmented
  <2>2. rx = "over" /\ ep.at = "over"
    BY <1>1, <1>2, <2>1 DEF Returned
  <2>3. vad.q = <<>> /\ ep.pending = <<>>
    BY <1>1, <2>2 DEF Endpointing
  <2>4. DOMAIN vad.q = {} /\ Range(ep.pending) = {}
    BY <2>3 DEF Range
  <2>5. PICK g \in DOMAIN srv.gens : x \in Range(srv.gens[g].audio)
    BY <1>1, <1>2, <2>4 DEF Kept
  <2>6. srv.gens[g].audio # <<>>
    BY <2>5 DEF Range
  <2>7. srv.gens[g].done
    BY <1>1, <1>2, <2>2, <2>6, GeneratingIs DEF OverDone
  <2> QED BY <2>5, <2>7
<1> QED BY <1>1, <1>2 DEF WholeUtterance, Uncut

\* The invariant of the recognition streams holds throughout: for any number
\* of utterances, units and chunks, with the VAD or without, however the three
\* tasks of _OdionRealtimeSTTStream interleave and whenever the socket breaks.
THEOREM HearInvariance == Spec => []HearInv
<1>1. Init => HearInv
  BY HearInit
<1>2. HearInv /\ [Next]_vars => HearInv'
  <2> SUFFICES ASSUME HearInv, [Next]_vars PROVE HearInv'
    OBVIOUS
  <2>1. CASE Transcribing
    <3>1. TranscriberNext /\ UNCHANGED conf
      BY <2>1 DEF Transcribing
    <3> QED BY <3>1, HearKeeps
  <2>2. CASE UNCHANGED <<conf, tvars>>
    BY <2>2, HearStays
  <2> QED BY <2>1, <2>2 DEF Next, Synthesizing, Filtering, vars
<1> QED BY <1>1, <1>2, PTL DEF Spec

\* What the caller says in one breath reaches the recognizer as one generation,
\* whole and in order, and nothing of it is sent between two generations
\* (_endpoint_on_silence, _send_audio_chunk and _finalize_generation).
THEOREM WholeUtteranceHolds == Spec => []WholeUtterance
<1>1. HearInv => WholeUtterance
  BY AllTranscribed
<1> QED BY <1>1, HearInvariance, PTL

\* Nothing the caller says is lost, repeated or put elsewhere: the noise filter,
\* the streams and their reports together.
THEOREM CallerHeardHolds == Spec => []CallerHeard
<1>1. HearInv => Bracketed
  BY DEF HearInv
<1>2. AudioKept /\ WholeUtterance /\ Bracketed => CallerHeard
  BY DEF CallerHeard
<1> QED BY <1>1, <1>2, HearInvariance, WholeUtteranceHolds, AudioKeptHolds, PTL
=============================================================================
