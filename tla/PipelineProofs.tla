--------------------------- MODULE PipelineProofs ---------------------------
(***************************************************************************)
(* Proofs about three parts of the reference pipeline.  Of Recognizer, for    *)
(* any number of turns and sockets, in every mode: RecognizerInv is          *)
(* inductive, and its safety properties follow.  Of Job, for any             *)
(* configurations and bounds: JobInv is inductive, and with it a call is      *)
(* settled once and its end is the last event stored.  Of Memory inside Job:  *)
(* MemoryInv is inductive, and no message is lost or kept twice while the     *)
(* conversation is summarised.                                              *)
(***************************************************************************)
EXTENDS Recognizer, Job, SequenceTheorems, FiniteSetTheorems, WellFoundedInduction, TLAPS

----------------------------------------------------------------------------
(* What the server's queue holds.                                            *)

\* A queue that is sent one more item holds it too.
LEMMA ItemSent ==
  ASSUME NEW q \in Seq(Chunkset), NEW x \in Chunkset
  PROVE  /\ q \o <<x>> \in Seq(Chunkset) /\ Items(q \o <<x>>) = Items(q) \union {x}
         /\ \A i \in DOMAIN (q \o <<x>>) : \/ i \in DOMAIN q /\ (q \o <<x>>)[i] = q[i]
                                           \/ i = Len(q \o <<x>>) /\ (q \o <<x>>)[i] = x
<1> DEFINE r == q \o <<x>>
<1>1. r \in Seq(Chunkset) /\ Len(r) = Len(q) + 1 /\ DOMAIN r = 1 .. (Len(q) + 1) /\ DOMAIN q = 1 .. Len(q) /\ Len(q) \in Nat
  OBVIOUS
<1>2. r[Len(q) + 1] = x /\ \A i \in 1 .. Len(q) : r[i] = q[i]
  OBVIOUS
<1> HIDE DEF r
<1>3. Items(r) = Items(q) \union {x}
  <2>1. \A y \in Items(r) : y \in Items(q) \union {x}
    BY <1>1, <1>2 DEF Items
  <2>2. x \in Items(r) /\ \A y \in Items(q) : y \in Items(r)
    BY <1>1, <1>2 DEF Items
  <2> QED BY <2>1, <2>2
<1>4. \A i \in DOMAIN r : (i \in DOMAIN q /\ r[i] = q[i]) \/ (i = Len(r) /\ r[i] = x)
  BY <1>1, <1>2
<1> QED BY <1>1, <1>3, <1>4 DEF r

\* A queue whose head is taken holds the rest.
LEMMA ItemTaken ==
  ASSUME NEW q \in Seq(Chunkset), q # <<>>
  PROVE  /\ Tail(q) \in Seq(Chunkset) /\ Head(q) \in Chunkset
         /\ Items(q) = Items(Tail(q)) \union {Head(q)}
         /\ Len(q) = 1 + Len(Tail(q)) /\ Len(Tail(q)) \in Nat
         /\ DOMAIN Tail(q) = 1 .. Len(Tail(q)) /\ DOMAIN q = 1 .. Len(q)
         /\ \A i \in DOMAIN Tail(q) : i + 1 \in DOMAIN q /\ Tail(q)[i] = q[i + 1]
         /\ Head(q) = q[1]
<1> DEFINE r == Tail(q)
<1>1. /\ r \in Seq(Chunkset) /\ Head(q) \in Chunkset /\ Head(q) = q[1] /\ Len(q) \in Nat /\ Len(q) = 1 + Len(r) /\ Len(r) \in Nat
      /\ DOMAIN r = 1 .. Len(r) /\ DOMAIN q = 1 .. Len(q)
  OBVIOUS
<1>2. \A i \in 1 .. Len(r) : r[i] = q[i + 1]
  OBVIOUS
<1> HIDE DEF r
<1>3. \A i \in DOMAIN r : i + 1 \in DOMAIN q /\ r[i] = q[i + 1]
  BY <1>1, <1>2
<1>4. Items(q) = Items(r) \union {Head(q)}
  <2>1. \A y \in Items(r) \union {Head(q)} : y \in Items(q)
    <3>1. 1 \in DOMAIN q
      BY <1>1
    <3> QED BY <1>1, <1>3, <3>1 DEF Items
  <2>2. ASSUME NEW i \in DOMAIN q PROVE q[i] \in Items(r) \union {Head(q)}
    <3>1. CASE i = 1
      BY <1>1, <3>1
    <3>2. CASE i # 1
      <4>1. i - 1 \in DOMAIN r /\ (i - 1) + 1 = i
        BY <1>1, <3>2
      <4>2. r[i - 1] = q[i]
        BY <1>3, <4>1
      <4> QED BY <4>1, <4>2 DEF Items
    <3> QED BY <3>1, <3>2
  <2> QED BY <2>1, <2>2 DEF Items
<1> QED BY <1>1, <1>3, <1>4 DEF r

\* The sentinel ends the queue: taken, it leaves nothing, and whatever else is
\* taken leaves it at the end.
LEMMA SentinelTaken ==
  ASSUME NEW w \in SocketSet, w.queue # <<>>, SentinelLast(w)
  PROVE  /\ Head(w.queue) = Sentinel => Tail(w.queue) = <<>> /\ Items(w.queue) = {Sentinel}
         /\ \A i \in DOMAIN Tail(w.queue) : Tail(w.queue)[i] = Sentinel => i = Len(Tail(w.queue))
<1> DEFINE q == w.queue
<1>1. q \in Seq(Chunkset)
  BY DEF SocketSet
<1>2. \A i \in DOMAIN q : q[i] = Sentinel => i = Len(q)
  BY DEF SentinelLast
<1> HIDE DEF q
<1> SUFFICES ASSUME q # <<>>
             PROVE  /\ Head(q) = Sentinel => Tail(q) = <<>> /\ Items(q) = {Sentinel}
                    /\ \A i \in DOMAIN Tail(q) : Tail(q)[i] = Sentinel => i = Len(Tail(q))
  BY DEF q
<1>3. ASSUME NEW i \in DOMAIN Tail(q), Tail(q)[i] = Sentinel PROVE i = Len(Tail(q))
  <2>1. i + 1 \in DOMAIN q /\ Tail(q)[i] = q[i + 1] /\ Len(q) = 1 + Len(Tail(q)) /\ i \in Nat /\ Len(Tail(q)) \in Nat
    BY <1>1, ItemTaken
  <2>2. i + 1 = Len(q)
    BY <1>2, <1>3, <2>1
  <2> HIDE DEF q
  <2>3. \A m, n \in Nat : m + 1 = 1 + n => m = n
    OBVIOUS
  <2> QED BY <2>1, <2>2, <2>3
<1>4. ASSUME Head(q) = Sentinel PROVE Tail(q) = <<>> /\ Items(q) = {Sentinel}
  <2>1. Len(q) = 1 + Len(Tail(q)) /\ Len(Tail(q)) \in Nat /\ 1 \in DOMAIN q /\ q[1] = Sentinel /\ Tail(q) \in Seq(Chunkset)
    BY <1>1, <1>4, ItemTaken
  <2>2. Len(Tail(q)) = 0
    BY <1>2, <2>1
  <2>3. Tail(q) = <<>>
    BY <2>1, <2>2, EmptySeq
  <2>4. Items(<<>>) = {}
    BY DEF Items
  <2> QED BY <1>1, <1>4, <2>3, <2>4, ItemTaken
<1> QED BY <1>3, <1>4

----------------------------------------------------------------------------
(* What the operations on sockets do.                                        *)

\* What a socket is like before it is opened, and when it is.
LEMMA OpenedIs ==
  /\ Opened.st = "open" /\ Opened.gen = "run" /\ Opened.recv = "run" /\ Opened.out = <<>> /\ Opened.queue = <<>> /\ Opened.heard = {}
  /\ Opened \in SocketSet /\ Streams(Opened)
  /\ NoSocket.st = "none" /\ NoSocket.gen = "none" /\ NoSocket.out = <<>> /\ NoSocket \in SocketSet /\ Streams(NoSocket)
<1> DEFINE e == <<>>
           M == [kind : {"done", "error"}, heard : SUBSET Chunkset]
<1>1. e \in Seq(Chunkset) /\ e \in Seq(M) /\ Len(e) = 0
  OBVIOUS
<1>2. NoSocket = [st |-> "none", recv |-> "none", gen |-> "none", queue |-> e, heard |-> {}, out |-> e]
  BY DEF NoSocket
<1> HIDE DEF e
<1>3. Opened = [st |-> "open", recv |-> "run", gen |-> "run", queue |-> e, heard |-> {}, out |-> e]
  <2>1. Opened = [[st |-> "none", recv |-> "none", gen |-> "none", queue |-> e, heard |-> {}, out |-> e]
                    EXCEPT !.st = "open", !.recv = "run", !.gen = "run"]
    BY <1>2 DEF Opened
  <2> QED BY <2>1
<1>4. NoSocket.out = e /\ Opened.out = e /\ Opened.queue = e
  BY <1>2, <1>3
<1>5. NoSocket \in SocketSet /\ Opened \in SocketSet
  BY <1>1, <1>2, <1>3 DEF SocketSet
<1>6. Streams(NoSocket) /\ Streams(Opened)
  BY <1>1, <1>2, <1>3 DEF e, Streams
<1> QED BY <1>2, <1>3, <1>4, <1>5, <1>6 DEF e

\* A socket that is closed says and holds nothing; the others stay.
LEMMA ShutDoes ==
  ASSUME NEW S \in [Sockets -> SocketSet], NEW s \in Sockets
  PROVE  /\ Shut(S, s) \in [Sockets -> SocketSet]
         /\ Shut(S, s)[s].st = "gone" /\ Shut(S, s)[s].gen = "none" /\ Shut(S, s)[s].out = <<>>
         /\ Shut(S, s)[s].recv = S[s].recv
         /\ \A r \in Sockets : r # s => Shut(S, s)[r] = S[r]
<1> DEFINE w == [S[s] EXCEPT !.st = "gone", !.gen = "none", !.queue = <<>>, !.heard = {}, !.out = <<>>]
<1>1. Shut(S, s) = [S EXCEPT ![s] = w]
  BY DEF Shut
<1>2. w \in SocketSet /\ w.st = "gone" /\ w.gen = "none" /\ w.out = <<>> /\ w.recv = S[s].recv
  <2> DEFINE e == <<>>
             v == S[s]
             M == [kind : {"done", "error"}, heard : SUBSET Chunkset]
  <2>1. e \in Seq(Chunkset) /\ e \in Seq(M) /\ v \in SocketSet
    OBVIOUS
  <2>2. w = [v EXCEPT !.st = "gone", !.gen = "none", !.queue = e, !.heard = {}, !.out = e]
    OBVIOUS
  <2> HIDE DEF e, v, w
  <2>3. w \in SocketSet /\ w.st = "gone" /\ w.gen = "none" /\ w.out = e /\ w.recv = v.recv
    BY <2>1, <2>2 DEF SocketSet
  <2> QED BY <2>3 DEF e, v
<1> HIDE DEF w
<1> QED BY <1>1, <1>2

\* T is S but for q at the end of the queue of s.
Sent(S, s, q, T) ==
  /\ T \in [Sockets -> SocketSet]
  /\ T[s].queue = S[s].queue \o q /\ T[s].heard = S[s].heard
  /\ T[s].st = S[s].st /\ T[s].gen = S[s].gen
  /\ T[s].out = S[s].out /\ T[s].recv = S[s].recv
  /\ \A r \in Sockets : r # s => T[r] = S[r]

\* A socket is sent items at the end of its queue.
LEMMA SendsDoes ==
  ASSUME NEW S \in [Sockets -> SocketSet], NEW s \in Sockets, NEW q \in Seq(Chunkset)
  PROVE  Sent(S, s, q, Sends(S, s, q))
<1> DEFINE w == [S[s] EXCEPT !.queue = S[s].queue \o q]
<1>1. Sends(S, s, q) = [S EXCEPT ![s] = w]
  BY DEF Sends
<1>2. S[s] \in SocketSet /\ S[s].queue \o q \in Seq(Chunkset)
  <2>1. S[s] \in SocketSet
    OBVIOUS
  <2>2. S[s].queue \in Seq(Chunkset)
    BY <2>1 DEF SocketSet
  <2> QED BY <2>1, <2>2
<1>3. /\ w \in SocketSet /\ w.queue = S[s].queue \o q /\ w.heard = S[s].heard /\ w.st = S[s].st
      /\ w.gen = S[s].gen /\ w.out = S[s].out /\ w.recv = S[s].recv
  <2> DEFINE x == S[s].queue \o q
             v == S[s]
  <2>1. x \in Seq(Chunkset) /\ v \in SocketSet /\ w = [v EXCEPT !.queue = x]
    BY <1>2
  <2> HIDE DEF x, v, w
  <2>2. /\ w \in SocketSet /\ w.queue = x /\ w.heard = v.heard /\ w.st = v.st
        /\ w.gen = v.gen /\ w.out = v.out /\ w.recv = v.recv
    BY <2>1 DEF SocketSet
  <2> QED BY <2>2 DEF x, v
<1> HIDE DEF w
<1> QED BY <1>1, <1>3 DEF Sent

\* A new socket is one that is not in use.
LEMMA FreshIs ==
  ASSUME Unused # {}, RecognizerTypes
  PROVE  Fresh \in Unused /\ Fresh \in Sockets
<1>1. Unused \subseteq Nat
  BY RecognizerAssumption DEF Unused, Sockets
<1>2. \E s \in Unused : \A r \in Unused : s <= r
  <2>1. PICK s \in Unused : TRUE
    OBVIOUS
  <2> DEFINE R == OpToRel(<, Nat)
  <2>2. IsWellFoundedOn(R, Nat)
    BY NatLessThanWellFounded
  <2>3. \E m \in Unused : \A y \in Unused : ~(<<y, m>> \in R)
    <3> HIDE DEF R
    <3> QED BY <1>1, <2>1, <2>2, WFMin
  <2>4. PICK m \in Unused : \A y \in Unused : ~(<<y, m>> \in R)
    BY <2>3
  <2>5. \A y \in Unused : ~(y < m)
    BY <1>1, <2>4 DEF OpToRel
  <2>6. \A y \in Unused : m <= y
    BY <1>1, <2>5
  <2> QED BY <2>6
<1>3. Fresh \in Unused
  BY <1>2 DEF Fresh
<1> QED BY <1>3 DEF Unused

\* An opened socket runs, empty; none is opened when the attempts fail.
LEMMA OpensDoes ==
  ASSUME RecognizerTypes, NEW o \in Opens
  PROVE  /\ o[1] \in Sockets \union {0} /\ o[2] \in [Sockets -> SocketSet]
         /\ o[1] = 0 => o[2] = socks
         /\ o[1] # 0 => /\ o[2][o[1]] = Opened /\ socks[o[1]].st # "open"
                        /\ \A r \in Sockets : r # o[1] => o[2][r] = socks[r]
<1>1. socks \in [Sockets -> SocketSet] /\ 0 \notin Sockets
  BY RecognizerAssumption DEF RecognizerTypes, Sockets
<1>2. CASE o = <<0, socks>>
  BY <1>1, <1>2
<1>3. CASE Unused # {} /\ o = <<Fresh, [socks EXCEPT ![Fresh] = Opened]>>
  <2>1. Fresh \in Sockets /\ socks[Fresh].st # "open" /\ Fresh # 0
    BY <1>1, <1>3, FreshIs DEF Unused
  <2>2. Opened \in SocketSet
    BY OpenedIs
  <2> HIDE DEF Fresh
  <2> QED BY <1>1, <1>3, <2>1, <2>2
<1> QED BY <1>2, <1>3 DEF Opens

\* The others stay as they were.
Alone(s) == socks' \in [Sockets -> SocketSet] /\ \A r \in Sockets : r # s => socks'[r] = socks[r]

\* _run_generation moves a chunk from the queue to what it heard.
LEMMA ConsumesDoes ==
  ASSUME RecognizerTypes, NEW s \in Sockets, Consumes(s)
  PROVE  LET w == socks'[s]
             v == socks[s]
         IN /\ Alone(s) /\ w.queue = Tail(v.queue) /\ w.heard = v.heard \union {Head(v.queue)}
            /\ w.st = v.st /\ w.gen = v.gen /\ w.out = v.out /\ w.recv = v.recv
<1> DEFINE v == socks[s]
           q == Tail(v.queue)
           h == v.heard \union {Head(v.queue)}
           w == [v EXCEPT !.queue = q, !.heard = h]
<1>1. socks \in [Sockets -> SocketSet] /\ v \in SocketSet
  BY DEF RecognizerTypes
<1>2. v.queue \in Seq(Chunkset) /\ v.queue # <<>> /\ v.heard \in SUBSET Chunkset
  BY <1>1 DEF SocketSet, Consumes
<1>3. q \in Seq(Chunkset) /\ h \in SUBSET Chunkset
  BY <1>2, ItemTaken
<1>4. socks' = [socks EXCEPT ![s] = w]
  BY DEF Consumes
<1> HIDE DEF v, q, h
<1>5. w \in SocketSet /\ w.queue = q /\ w.heard = h /\ w.st = v.st /\ w.gen = v.gen /\ w.out = v.out /\ w.recv = v.recv
  BY <1>1, <1>3 DEF SocketSet
<1> HIDE DEF w
<1>6. socks'[s] = w /\ Alone(s)
  BY <1>1, <1>4, <1>5 DEF Alone
<1> QED BY <1>5, <1>6 DEF v, q, h

\* The sentinel makes it answer with what it heard.
LEMMA SendsDoneDoes ==
  ASSUME RecognizerTypes, NEW s \in Sockets, SendsDone(s)
  PROVE  LET w == socks'[s]
             v == socks[s]
         IN /\ Alone(s) /\ w.queue = Tail(v.queue) /\ w.heard = {} /\ w.gen = "ending"
            /\ w.out = Append(v.out, [kind |-> "done", heard |-> v.heard])
            /\ w.st = v.st /\ w.recv = v.recv
<1> DEFINE v == socks[s]
           q == Tail(v.queue)
           m == [kind |-> "done", heard |-> v.heard]
           M == [kind : {"done", "error"}, heard : SUBSET Chunkset]
           u == Append(v.out, m)
           w == [v EXCEPT !.queue = q, !.gen = "ending", !.heard = {}, !.out = u]
<1>1. socks \in [Sockets -> SocketSet] /\ v \in SocketSet
  BY DEF RecognizerTypes
<1>2. v.queue \in Seq(Chunkset) /\ v.queue # <<>> /\ v.heard \in SUBSET Chunkset /\ v.out \in Seq(M)
  BY <1>1 DEF SocketSet, SendsDone
<1>3. q \in Seq(Chunkset) /\ m \in M
  BY <1>2, ItemTaken
<1>4. socks' = [socks EXCEPT ![s] = w]
  BY DEF SendsDone
<1> HIDE DEF m, M, v
<1>7. u \in Seq(M)
  BY <1>2, <1>3
<1> HIDE DEF q, u
<1>5. w \in SocketSet /\ w.queue = q /\ w.heard = {} /\ w.st = v.st /\ w.gen = "ending" /\ w.out = u /\ w.recv = v.recv
  BY <1>1, <1>3, <1>7 DEF SocketSet, M
<1> HIDE DEF w
<1>6. socks'[s] = w /\ Alone(s)
  BY <1>1, <1>4, <1>5 DEF Alone
<1> QED BY <1>5, <1>6 DEF v, q, u, m

\* Its task is over.
LEMMA GenerationEndsDoes ==
  ASSUME RecognizerTypes, NEW s \in Sockets, GenerationEnds(s)
  PROVE  LET w == socks'[s]
             v == socks[s]
         IN /\ Alone(s) /\ w.gen = "none" /\ w.queue = v.queue /\ w.heard = v.heard
            /\ w.out = v.out /\ w.st = v.st /\ w.recv = v.recv
<1> DEFINE v == socks[s]
           w == [v EXCEPT !.gen = "none"]
<1>1. socks \in [Sockets -> SocketSet] /\ v \in SocketSet
  BY DEF RecognizerTypes
<1>4. socks' = [socks EXCEPT ![s] = w]
  BY DEF GenerationEnds
<1> HIDE DEF v
<1>5. w \in SocketSet /\ w.queue = v.queue /\ w.heard = v.heard /\ w.st = v.st /\ w.gen = "none" /\ w.out = v.out /\ w.recv = v.recv
  BY <1>1 DEF SocketSet
<1> HIDE DEF w
<1>6. socks'[s] = w /\ Alone(s)
  BY <1>1, <1>4, <1>5 DEF Alone
<1> QED BY <1>5, <1>6 DEF v

\* It fails, with a message.
LEMMA EngineFailsDoes ==
  ASSUME RecognizerTypes, NEW s \in Sockets, EngineFails(s)
  PROVE  LET w == socks'[s]
             v == socks[s]
         IN /\ Alone(s) /\ w.gen = "none" /\ w.queue = v.queue /\ w.heard = v.heard
            /\ w.out = Append(v.out, [kind |-> "error", heard |-> {}]) /\ w.st = v.st /\ w.recv = v.recv
<1> DEFINE v == socks[s]
           m == [kind |-> "error", heard |-> {}]
           M == [kind : {"done", "error"}, heard : SUBSET Chunkset]
           u == Append(v.out, m)
           w == [v EXCEPT !.gen = "none", !.out = u]
<1>1. socks \in [Sockets -> SocketSet] /\ v \in SocketSet
  BY DEF RecognizerTypes
<1>2. v.out \in Seq(M)
  BY <1>1 DEF SocketSet
<1>3. m \in M
  OBVIOUS
<1>4. socks' = [socks EXCEPT ![s] = w]
  BY DEF EngineFails
<1> HIDE DEF m, M, v
<1>7. u \in Seq(M)
  BY <1>2, <1>3
<1> HIDE DEF u
<1>5. w \in SocketSet /\ w.queue = v.queue /\ w.heard = v.heard /\ w.st = v.st /\ w.gen = "none" /\ w.out = u /\ w.recv = v.recv
  BY <1>1, <1>7 DEF SocketSet, M
<1> HIDE DEF w
<1>6. socks'[s] = w /\ Alone(s)
  BY <1>1, <1>4, <1>5 DEF Alone
<1> QED BY <1>5, <1>6 DEF v, u, m

\* The client reads a message and the server is armed, if it is over.
LEMMA ReadDoes ==
  ASSUME RecognizerTypes, NEW s \in Sockets, socks[s].out # <<>>, socks' = Rearmed(Read(s), s)
  PROVE  LET w == socks'[s]
             v == socks[s]
         IN /\ Alone(s) /\ w.out = Tail(v.out) /\ w.queue = v.queue /\ w.heard = v.heard
            /\ w.gen = (IF v.st = "open" /\ v.gen = "none" THEN "run" ELSE v.gen) /\ w.st = v.st /\ w.recv = v.recv
<1> DEFINE v == socks[s]
           M == [kind : {"done", "error"}, heard : SUBSET Chunkset]
           u == Tail(v.out)
           x == [v EXCEPT !.out = u]
           w == IF v.st = "open" /\ v.gen = "none" THEN [x EXCEPT !.gen = "run"] ELSE x
<1>1. socks \in [Sockets -> SocketSet] /\ v \in SocketSet
  BY DEF RecognizerTypes
<1>2. v.out \in Seq(M) /\ v.out # <<>>
  BY <1>1 DEF SocketSet
<1>3. u \in Seq(M)
  <2> HIDE DEF M
  <2> QED BY <1>2
<1>4. Read(s) = [socks EXCEPT ![s] = x]
  BY DEF Read
<1> HIDE DEF M, v, u
<1>5. x \in SocketSet /\ x.queue = v.queue /\ x.heard = v.heard /\ x.st = v.st /\ x.gen = v.gen /\ x.out = u /\ x.recv = v.recv
  BY <1>1, <1>3 DEF SocketSet, M
<1> HIDE DEF x
<1>6. Read(s)[s] = x /\ Read(s) \in [Sockets -> SocketSet]
  BY <1>1, <1>4, <1>5
<1>7. socks' = [socks EXCEPT ![s] = w]
  <2>1. CASE v.st = "open" /\ v.gen = "none"
    <3>1. socks' = [Read(s) EXCEPT ![s] = [x EXCEPT !.gen = "run"]]
      BY <1>5, <1>6, <2>1 DEF Rearmed
    <3> QED BY <1>1, <1>4, <2>1, <3>1
  <2>2. CASE ~(v.st = "open" /\ v.gen = "none")
    BY <1>4, <1>5, <1>6, <2>2 DEF Rearmed
  <2> QED BY <2>1, <2>2
<1>8. /\ w \in SocketSet /\ w.queue = v.queue /\ w.heard = v.heard /\ w.st = v.st /\ w.out = u /\ w.recv = v.recv
      /\ w.gen = IF v.st = "open" /\ v.gen = "none" THEN "run" ELSE v.gen
  BY <1>5 DEF SocketSet
<1> HIDE DEF w
<1>9. socks'[s] = w /\ Alone(s)
  BY <1>1, <1>7, <1>8 DEF Alone
<1> QED BY <1>8, <1>9 DEF v, u

\* The receiver is over.
LEMMA ReceiverEndsDoes ==
  ASSUME RecognizerTypes, NEW s \in Sockets, ReceiverEnds(s)
  PROVE  LET w == socks'[s]
             v == socks[s]
         IN /\ Alone(s) /\ w.out = <<>> /\ w.queue = v.queue /\ w.heard = v.heard
            /\ w.gen = v.gen /\ w.st = v.st /\ w.recv = "end"
<1> DEFINE v == socks[s]
           e == <<>>
           M == [kind : {"done", "error"}, heard : SUBSET Chunkset]
           w == [v EXCEPT !.recv = "end", !.out = e]
<1>1. socks \in [Sockets -> SocketSet] /\ v \in SocketSet /\ e \in Seq(M)
  BY DEF RecognizerTypes
<1>4. socks' = [socks EXCEPT ![s] = w]
  BY DEF ReceiverEnds
<1> HIDE DEF v, e, M
<1>5. w \in SocketSet /\ w.queue = v.queue /\ w.heard = v.heard /\ w.st = v.st /\ w.gen = v.gen /\ w.out = e /\ w.recv = "end"
  BY <1>1 DEF SocketSet, M
<1> HIDE DEF w
<1>6. socks'[s] = w /\ Alone(s)
  BY <1>1, <1>4, <1>5 DEF Alone
<1> QED BY <1>5, <1>6 DEF v, e

----------------------------------------------------------------------------
(* The engine: one stream at a time, and none while a request is made.       *)

Base == RecognizerTypes /\ OneStream /\ Locked

\* A step that changes one socket keeps the others silent.
LEMMA OneChanged ==
  ASSUME OneStream, RecognizerTypes, NEW s \in Sockets, Alone(s), Streams(socks'[s]),
         socks'[s].gen # "none" \/ socks'[s].out # <<>> => s = ws' /\ socks'[s].st = "open",
         ws' = ws \/ ws = s \/ ws = 0 \/ socks[ws].st # "open"
  PROVE  OneStream'
<1> SUFFICES ASSUME NEW r \in Sockets
             PROVE  /\ Streams(socks'[r])
                    /\ socks'[r].gen # "none" \/ socks'[r].out # <<>> => r = ws' /\ socks'[r].st = "open"
  BY DEF OneStream
<1>1. CASE r = s
  BY <1>1
<1>2. CASE r # s
  <2>1. socks'[r] = socks[r]
    BY <1>2 DEF Alone
  <2>2. Streams(socks[r]) /\ (socks[r].gen # "none" \/ socks[r].out # <<>> => r = ws /\ socks[r].st = "open")
    BY DEF OneStream
  <2>3. 0 \notin Sockets
    BY RecognizerAssumption DEF Sockets
  <2> QED BY <1>2, <2>1, <2>2, <2>3
<1> QED BY <1>1, <1>2

\* Closing the client's socket, or another.
LEMMA ShutStream ==
  ASSUME OneStream, RecognizerTypes, NEW s \in Sockets, socks' = Shut(socks, s), ws' = ws \/ ws = s
  PROVE  OneStream' /\ Alone(s) /\ socks'[s].st # "open"
<1>1. socks \in [Sockets -> SocketSet]
  BY DEF RecognizerTypes
<1>2. Alone(s) /\ socks'[s].st = "gone" /\ socks'[s].gen = "none" /\ socks'[s].out = <<>>
  BY <1>1, ShutDoes DEF Alone
<1>3. Streams(socks'[s])
  BY <1>2 DEF Streams
<1> QED BY <1>2, <1>3, OneChanged

\* Sending to the client's socket.
LEMMA SendStream ==
  ASSUME OneStream, RecognizerTypes, NEW q \in Seq(Chunkset), IsOpen(ws), socks' = Sends(socks, ws, q), ws' = ws
  PROVE  OneStream' /\ Alone(ws)
<1>1. socks \in [Sockets -> SocketSet] /\ ws \in Sockets
  BY DEF RecognizerTypes, IsOpen
<1>2. /\ Alone(ws) /\ socks'[ws].st = socks[ws].st /\ socks'[ws].gen = socks[ws].gen
      /\ socks'[ws].out = socks[ws].out
  <2>1. Sent(socks, ws, q, socks')
    BY <1>1, SendsDoes
  <2> QED BY <2>1 DEF Sent, Alone
<1>3. Streams(socks'[ws])
  BY <1>1, <1>2 DEF Streams, OneStream
<1> QED BY <1>1, <1>2, <1>3, OneChanged DEF IsOpen

\* Opening a socket when there is none, and asking it for q.
LEMMA OpenStream ==
  ASSUME OneStream, RecognizerTypes, NEW o \in Opens, NEW q \in Seq(Chunkset), ~IsOpen(ws), ws' = o[1],
         socks' = o[2] \/ (o[1] # 0 /\ socks' = Sends(o[2], o[1], q))
  PROVE  /\ OneStream' /\ ws' \in Sockets \union {0} /\ socks' \in [Sockets -> SocketSet]
         /\ o[1] # 0 => /\ Alone(o[1]) /\ socks'[o[1]].st = "open" /\ socks'[o[1]].heard = {} /\ socks'[o[1]].out = <<>>
                        /\ socks'[o[1]].queue = <<>> \/ socks'[o[1]].queue = <<>> \o q
                        /\ socks' = o[2] => socks'[o[1]].queue = <<>>
                        /\ socks' # o[2] => socks'[o[1]].queue = <<>> \o q
         /\ o[1] = 0 => socks' = socks
<1>1. /\ o[1] \in Sockets \union {0} /\ o[2] \in [Sockets -> SocketSet]
      /\ o[1] = 0 => o[2] = socks
      /\ o[1] # 0 => /\ o[2][o[1]] = Opened /\ socks[o[1]].st # "open"
                     /\ \A r \in Sockets : r # o[1] => o[2][r] = socks[r]
  BY OpensDoes
<1>0. ws = 0 \/ socks[ws].st # "open"
  BY DEF IsOpen
<1>2. CASE o[1] = 0
  <2>1. socks' = socks /\ ws' = 0
    BY <1>1, <1>2
  <2>2. \A s \in Sockets : ~(socks[s].gen # "none" \/ socks[s].out # <<>>)
    BY <1>0, RecognizerAssumption DEF OneStream, Sockets
  <2>3. OneStream'
    BY <2>1, <2>2 DEF OneStream
  <2> QED BY <1>1, <1>2, <2>1, <2>3 DEF RecognizerTypes
<1>3. CASE o[1] # 0 /\ socks' = o[2]
  <2>1. socks'[o[1]] = Opened /\ Alone(o[1]) /\ o[1] \in Sockets
    BY <1>1, <1>3 DEF Alone
  <2>2. OneStream'
    BY <1>0, <2>1, OpenedIs, OneChanged
  <2> QED BY <1>1, <1>3, <2>1, <2>2, OpenedIs
<1>4. CASE o[1] # 0 /\ socks' = Sends(o[2], o[1], q) /\ socks' # o[2]
  <2>1. o[1] \in Sockets /\ o[2][o[1]] = Opened
    BY <1>1, <1>4
  <2>2. /\ socks' \in [Sockets -> SocketSet] /\ socks'[o[1]].queue = Opened.queue \o q /\ socks'[o[1]].heard = Opened.heard
        /\ socks'[o[1]].st = Opened.st /\ socks'[o[1]].gen = Opened.gen /\ socks'[o[1]].out = Opened.out
        /\ \A r \in Sockets : r # o[1] => socks'[r] = o[2][r]
    <3>1. Sent(o[2], o[1], q, socks')
      BY <1>1, <1>4, <2>1, SendsDoes
    <3> QED BY <2>1, <3>1, Zenon DEF Sent
  <2>3. Alone(o[1])
    BY <1>1, <1>4, <2>2 DEF Alone
  <2>4. Streams(socks'[o[1]])
    BY <2>2, OpenedIs DEF Streams
  <2>5. OneStream'
    BY <1>0, <2>1, <2>2, <2>3, <2>4, OpenedIs, OneChanged
  <2> QED BY <1>4, <2>1, <2>2, <2>3, <2>5, OpenedIs
<1> QED BY <1>2, <1>3, <1>4

\* What is sent is a chunk of the turn or the sentinel.
LEMMA ItemTypes ==
  ASSUME RecognizerTypes
  PROVE  /\ Sentinel \in Chunkset /\ <<Sentinel>> \in Seq(Chunkset)
         /\ turn.part < 2 => Chunk \in Chunkset /\ <<Chunk>> \in Seq(Chunkset) /\ Chunk # Sentinel
         /\ \A t \in 0 .. MaxTurns : /\ Chunks(t) \in SUBSET Chunkset
                                     /\ <<<<t, 1>>, <<t, 2>>, Sentinel>> \in Seq(Chunkset)
<1>1. MaxTurns \in Nat /\ turn.id \in 0 .. MaxTurns /\ turn.part \in 0 .. 2
  BY RecognizerAssumption DEF RecognizerTypes
<1>2. \A t \in 0 .. MaxTurns : <<t, 0>> \in Chunkset /\ <<t, 1>> \in Chunkset /\ <<t, 2>> \in Chunkset
  BY <1>1 DEF Chunkset
<1>3. Sentinel \in Chunkset
  BY <1>1 DEF Sentinel, Chunkset
<1>4. turn.part < 2 => Chunk \in Chunkset /\ Chunk # Sentinel
  BY <1>1 DEF Chunk, Chunkset, Sentinel
<1>5. \A t \in 0 .. MaxTurns : Chunks(t) \in SUBSET Chunkset
  BY <1>2 DEF Chunks
<1>6. \A x \in Chunkset : <<x>> \in Seq(Chunkset)
  OBVIOUS
<1>7. \A x, y, z \in Chunkset : <<x, y, z>> \in Seq(Chunkset)
  OBVIOUS
<1> QED BY <1>2, <1>3, <1>4, <1>5, <1>6, <1>7

\* on_final stores a set of chunks and resolves the turn that awaits it.
LEMMA DeliversTypes ==
  ASSUME RecognizerTypes, NEW h \in SUBSET Chunkset, Delivers(h)
  PROVE  /\ finals' \in [Turns -> Seq(SUBSET Chunkset)]
         /\ phase' \in {"idle", "speaking", "awaiting", "recovering"}
         /\ phase = "awaiting" => phase' = "idle"
         /\ phase # "awaiting" => phase' = phase
<1>1. finals \in [Turns -> Seq(SUBSET Chunkset)] /\ phase \in {"idle", "speaking", "awaiting", "recovering"}
  BY DEF RecognizerTypes
<1>2. CASE turn.id \in Turns
  <2> DEFINE x == Append(finals[turn.id], h)
  <2>1. x \in Seq(SUBSET Chunkset)
    BY <1>1, <1>2
  <2>2. finals' = [finals EXCEPT ![turn.id] = x]
    BY DEF Delivers
  <2> HIDE DEF x
  <2> QED BY <1>1, <2>1, <2>2 DEF Delivers
<1>3. CASE turn.id \notin Turns
  <2>1. finals' = finals
    BY <1>1, <1>3 DEF Delivers
  <2> QED BY <1>1, <2>1 DEF Delivers
<1> QED BY <1>2, <1>3

\* A step that leaves the sockets alone keeps them.
LEMMA SameStreams ==
  ASSUME OneStream, UNCHANGED <<socks, ws>>
  PROVE  OneStream'
  BY DEF OneStream

\* Init establishes the base.
LEMMA BaseInit == Init => Base
<1> SUFFICES ASSUME Init PROVE Base
  OBVIOUS
<1> USE RecognizerAssumption
<1>1. RecognizerTypes
  <2>1. socks \in [Sockets -> SocketSet] /\ finals \in [Turns -> Seq(SUBSET Chunkset)]
    <3>1. <<>> \in Seq(SUBSET Chunkset)
      OBVIOUS
    <3> QED BY <3>1, OpenedIs DEF Init
  <2>2. task \in [Turns -> {"none", "wait", "end"} \union Locking \union Asking]
    BY DEF Init
  <2>3. /\ mode \in Modes /\ phase \in {"idle", "speaking", "awaiting", "recovering"}
        /\ turn \in [id : 0 .. MaxTurns, part : 0 .. 2, typed : BOOLEAN]
        /\ ws \in Sockets \union {0} /\ recvTask \in Sockets \union {0}
        /\ lock \in 0 .. Recovery /\ force \in BOOLEAN
        /\ sb \in [pending : BOOLEAN, degraded : BOOLEAN, streamed : BOOLEAN]
    <3>1. [id |-> 0, part |-> 0, typed |-> FALSE] \in [id : 0 .. MaxTurns, part : 0 .. 2, typed : BOOLEAN]
      BY SMT
    <3>2. 0 \in 0 .. Recovery
      BY DEF Recovery
    <3> QED BY <3>1, <3>2 DEF Init
  <2> QED BY <2>1, <2>2, <2>3 DEF RecognizerTypes
<1>2. OneStream
  BY OpenedIs DEF Init, OneStream
<1>3. Locked
  BY DEF Init, Locked, Locking, Asking, Recovery
<1> QED BY <1>1, <1>2, <1>3 DEF Base

\* The task of one turn moves to another place; the other variables the base
\* speaks of stay as the step says.
LEMMA TaskTypes ==
  ASSUME RecognizerTypes, NEW t, NEW point \in {"none", "wait", "end"} \union Locking \union Asking,
         task' = [task EXCEPT ![t] = point]
  PROVE  /\ task' \in [Turns -> {"none", "wait", "end"} \union Locking \union Asking]
         /\ \A u \in Turns : task'[u] = IF u = t THEN point ELSE task[u]
  BY DEF RecognizerTypes

\* Zero is no turn, no socket and not the recovery.
LEMMA Zero == 0 \notin Turns /\ 0 \notin Sockets /\ Recovery \notin Turns /\ Recovery # 0 /\ Turns \subseteq 0 .. Recovery
               /\ Recovery \in 0 .. Recovery /\ 0 \in 0 .. Recovery /\ Turns \subseteq 0 .. MaxTurns
  BY RecognizerAssumption DEF Turns, Sockets, Recovery

\* A task that moves on with the lock as it is.
LEMMA MovesOn ==
  ASSUME RecognizerTypes, Locked, NEW t \in Turns, NEW point \in {"none", "end"} \union Locking \union Asking,
         task' = [task EXCEPT ![t] = point], UNCHANGED <<mode, lock>>, lock # 0 => ws' = 0, lock = Recovery => UNCHANGED phase,
         point \in Locking => task[t] \in Locking, point \in Asking => task[t] \in Asking, point = "fallback" => mode = "chat"
  PROVE  Locked'
<1>1. \A u \in Turns : task'[u] = IF u = t THEN point ELSE task[u]
  BY TaskTypes
<1>2. lock # 0 => ws' = 0 /\ mode' # "sbpn"
  BY DEF Locked
<1>3. \A u \in Turns : /\ task'[u] \in Locking => lock' = u
                       /\ task'[u] \in Locking \union {"wait"} => mode' \in {"batch", "chat"}
                       /\ task'[u] \in Asking => mode' = "sbpn"
                       /\ task'[u] = "fallback" => mode' = "chat"
  BY <1>1 DEF Locked, Locking, Asking
<1>4. lock = Recovery => phase' = "recovering" /\ \A u \in Turns : task'[u] \notin Due
  <2>1. lock = Recovery => task[t] \notin Due /\ task[t] \notin Locking
    BY Zero DEF Locked
  <2>2. lock = Recovery => point \notin Due
    BY <2>1 DEF Due, Locking, Asking
  <2> QED BY <1>1, <2>2 DEF Locked
<1> QED BY <1>2, <1>3, <1>4 DEF Locked

\* The phases and the caller's turn.
LEMMA BaseCaller ==
  ASSUME Base, TurnStarts \/ Types \/ FinalTimeout \/ FalseStart \/ CommitTask
  PROVE  Base'
<1> USE DEF Base
<1>0. UNCHANGED <<mode, ws, recvTask, socks, lock, force, sb, finals>>
  BY DEF TurnStarts, Types, FinalTimeout, FalseStart, CommitTask
<1>1. OneStream'
  BY <1>0, SameStreams
<1>2. turn' \in [id : 0 .. MaxTurns, part : 0 .. 2, typed : BOOLEAN] /\ phase' \in {"idle", "speaking", "awaiting", "recovering"}
  <2>1. turn \in [id : 0 .. MaxTurns, part : 0 .. 2, typed : BOOLEAN] /\ phase \in {"idle", "speaking", "awaiting", "recovering"}
    BY DEF RecognizerTypes
  <2>2. CASE TurnStarts
    <3>1. turn.id + 1 \in 0 .. MaxTurns
      BY <2>1, <2>2, RecognizerAssumption DEF TurnStarts
    <3> QED BY <2>1, <2>2, <3>1 DEF TurnStarts
  <2>3. CASE Types
    BY <2>1, <2>3 DEF Types
  <2>4. CASE FinalTimeout \/ FalseStart \/ CommitTask
    BY <2>1, <2>4 DEF FinalTimeout, FalseStart, CommitTask, Commits
  <2> QED BY <2>2, <2>3, <2>4
<1>3. CASE CommitTask
  <2>1. /\ task' \in [Turns -> {"none", "wait", "end"} \union Locking \union Asking]
        /\ \A u \in Turns : task'[u] = IF u = turn.id THEN "wait" ELSE task[u]
    BY <1>3, TaskTypes DEF CommitTask
  <2>2. mode \in {"batch", "chat"} /\ phase # "recovering"
    BY <1>3 DEF CommitTask, Commits
  <2>3. Locked'
    BY <1>0, <2>1, <2>2 DEF Locked, Locking, Asking
  <2> QED BY <1>0, <1>1, <1>2, <2>1, <2>3 DEF RecognizerTypes
<1>4. CASE ~CommitTask
  <2>1. task' = task /\ (phase = "recovering" => FALSE)
    BY <1>4 DEF TurnStarts, Types, FinalTimeout, FalseStart
  <2>2. Locked'
    BY <1>0, <2>1, Zenon DEF Locked
  <2> QED BY <1>0, <1>1, <1>2, <2>1, <2>2 DEF RecognizerTypes
<1> QED BY <1>3, <1>4

\* The server and the network.
LEMMA BaseServer ==
  ASSUME Base, NEW s \in Sockets, Consumes(s) \/ SendsDone(s) \/ GenerationEnds(s) \/ EngineFails(s) \/ Drops(s)
  PROVE  Base'
<1> USE DEF Base
<1>0. UNCHANGED <<mode, phase, turn, ws, recvTask, lock, task, force, sb, finals>>
  BY DEF Consumes, SendsDone, GenerationEnds, EngineFails, Drops
<1>1. Streams(socks[s]) /\ (socks[s].gen # "none" \/ socks[s].out # <<>> => s = ws /\ socks[s].st = "open")
  BY DEF OneStream
<1>2. socks[s].out \in Seq([kind : {"done", "error"}, heard : SUBSET Chunkset]) /\ socks \in [Sockets -> SocketSet]
  BY DEF RecognizerTypes, SocketSet
<1>3. Alone(s) /\ OneStream'
  <2>1. CASE Consumes(s)
    <3>1. Alone(s) /\ socks'[s].out = socks[s].out /\ socks'[s].gen = socks[s].gen /\ socks'[s].st = socks[s].st
      BY <2>1, ConsumesDoes
    <3>2. Streams(socks'[s])
      BY <1>1, <3>1 DEF Streams
    <3> QED BY <1>0, <1>1, <3>1, <3>2, OneChanged
  <2>2. CASE SendsDone(s)
    <3>1. Alone(s) /\ socks'[s].out = Append(socks[s].out, [kind |-> "done", heard |-> socks[s].heard])
          /\ socks'[s].gen = "ending" /\ socks'[s].st = socks[s].st /\ socks[s].gen = "run"
      BY <2>2, SendsDoneDoes DEF SendsDone
    <3>2. Len(socks'[s].out) = 1 /\ socks'[s].out[1].kind = "done"
      <4>1. socks[s].out = <<>>
        BY <1>1, <3>1 DEF Streams
      <4>2. \A m : Len(Append(<<>>, m)) = 1 /\ Append(<<>>, m)[1] = m
        OBVIOUS
      <4> QED BY <3>1, <4>1, <4>2
    <3>3. Streams(socks'[s])
      BY <3>1, <3>2 DEF Streams
    <3> QED BY <1>0, <1>1, <3>1, <3>3, OneChanged
  <2>3. CASE GenerationEnds(s)
    <3>1. Alone(s) /\ socks'[s].out = socks[s].out /\ socks'[s].gen = "none" /\ socks'[s].st = socks[s].st
      BY <2>3, GenerationEndsDoes
    <3>2. Streams(socks'[s])
      BY <1>1, <3>1 DEF Streams
    <3> QED BY <1>0, <1>1, <3>1, <3>2, OneChanged
  <2>4. CASE EngineFails(s)
    <3>1. Alone(s) /\ socks'[s].out = Append(socks[s].out, [kind |-> "error", heard |-> {}])
          /\ socks'[s].gen = "none" /\ socks'[s].st = socks[s].st /\ socks[s].gen = "run"
      BY <2>4, EngineFailsDoes DEF EngineFails
    <3>2. Len(socks'[s].out) = 1
      <4>1. socks[s].out = <<>>
        BY <1>1, <3>1 DEF Streams
      <4>2. \A m : Len(Append(<<>>, m)) = 1
        OBVIOUS
      <4> QED BY <3>1, <4>1, <4>2
    <3>3. Streams(socks'[s])
      BY <3>1, <3>2 DEF Streams
    <3> QED BY <1>0, <1>1, <3>1, <3>3, OneChanged
  <2>5. CASE Drops(s)
    BY <1>0, <2>5, ShutStream DEF Drops
  <2> QED BY <2>1, <2>2, <2>3, <2>4, <2>5
<1>4. RecognizerTypes'
  BY <1>0, <1>3 DEF RecognizerTypes, Alone
<1>5. Locked'
  BY <1>0, Zenon DEF Locked
<1> QED BY <1>3, <1>4, <1>5

\* The receiver reads a message: the transcript is a set of chunks.
LEMMA ReadStream ==
  ASSUME Base, NEW s \in Sockets, Message(s, "done"), socks' = Rearmed(Read(s), s), ws' = ws
  PROVE  /\ OneStream' /\ Alone(s) /\ s = ws /\ socks[s].st = "open" /\ Answered(socks[s]) /\ Head(socks[s].out) = socks[s].out[1]
         /\ Head(socks[s].out).heard \in SUBSET Chunkset
         /\ socks'[s].out = <<>> /\ socks'[s].queue = socks[s].queue /\ socks'[s].heard = socks[s].heard /\ socks'[s].st = "open"
<1> USE DEF Base
<1> DEFINE M == [kind : {"done", "error"}, heard : SUBSET Chunkset]
           u == socks[s].out
<1>1. u \in Seq(M) /\ u # <<>> /\ Head(u).kind = "done" /\ Len(u) <= 1 /\ s = ws /\ socks[s].st = "open"
  <2>1. socks[s] \in SocketSet /\ Streams(socks[s]) /\ (socks[s].out # <<>> => s = ws /\ socks[s].st = "open")
    BY DEF RecognizerTypes, OneStream
  <2> QED BY <2>1 DEF SocketSet, Streams, Message
<1>2. Head(u) = u[1] /\ u[1] \in M /\ Tail(u) = <<>>
  <2> HIDE DEF M, u
  <2>0. Len(u) \in Nat /\ Len(u) # 0 /\ Len(u) <= 1
    BY <1>1, EmptySeq, LenProperties
  <2>3. Len(u) = 1
    <3>1. \A n \in Nat : n # 0 /\ n <= 1 => n = 1
      OBVIOUS
    <3> QED BY <2>0, <3>1, Zenon
  <2>4. u[1] \in M
    BY <1>1, <2>3, ElementOfSeq
  <2>5. Head(u) = u[1]
    BY DEF Head
  <2>1. Head(u) = u[1] /\ Len(u) = 1 /\ u[1] \in M
    BY <2>3, <2>4, <2>5
  <2>2. Tail(u) \in Seq(M) /\ Len(Tail(u)) = 0
    BY <1>1, <2>1
  <2> QED BY <2>1, <2>2, EmptySeq
<1>3. /\ Alone(s) /\ socks'[s].out = Tail(u) /\ socks'[s].queue = socks[s].queue /\ socks'[s].heard = socks[s].heard
      /\ socks'[s].gen = (IF socks[s].st = "open" /\ socks[s].gen = "none" THEN "run" ELSE socks[s].gen)
      /\ socks'[s].st = socks[s].st
  BY <1>1, ReadDoes
<1>4. Head(u).heard \in SUBSET Chunkset
  BY <1>2
<1>5. Streams(socks'[s])
  <2>1. socks'[s].out = <<>>
    BY <1>2, <1>3
  <2> QED BY <2>1 DEF Streams
<1>6. OneStream'
  BY <1>1, <1>3, <1>5, OneChanged
<1> QED BY <1>1, <1>2, <1>3, <1>4, <1>6 DEF Answered

LEMMA BaseReceiver ==
  ASSUME Base, NEW s \in Sockets, DoneRead(s) \/ DoneSbpn(s) \/ ReceiverEnds(s)
  PROVE  Base'
<1> USE DEF Base
<1>1. CASE DoneRead(s)
  <2>0. UNCHANGED <<mode, turn, ws, recvTask, lock, task, sb>> /\ force' = FALSE
    BY <1>1 DEF DoneRead
  <2>1. OneStream' /\ Alone(s) /\ Head(socks[s].out).heard \in SUBSET Chunkset /\ s = ws
    BY <1>1, ReadStream DEF DoneRead
  <2>2. /\ finals' \in [Turns -> Seq(SUBSET Chunkset)] /\ phase' \in {"idle", "speaking", "awaiting", "recovering"}
        /\ (phase = "awaiting" \/ phase' = phase)
    <3>1. CASE UNCHANGED <<finals, phase>>
      BY <3>1 DEF RecognizerTypes
    <3>2. CASE Delivers(Head(socks[s].out).heard)
      BY <2>1, <3>2, DeliversTypes
    <3> QED BY <1>1, <3>1, <3>2 DEF DoneRead
  <2>3. RecognizerTypes'
    BY <2>0, <2>1, <2>2 DEF RecognizerTypes, Alone
  <2>4. lock = 0
    BY <2>1, Zero DEF Locked
  <2>5. Locked'
    BY <2>0, <2>4, Zero, Zenon DEF Locked
  <2> QED BY <2>1, <2>3, <2>5
<1>2. CASE DoneSbpn(s)
  <2>0. UNCHANGED <<mode, turn, ws, recvTask, lock, force>> /\ mode = "sbpn"
    BY <1>2 DEF DoneSbpn
  <2>1. OneStream' /\ Alone(s) /\ Head(socks[s].out).heard \in SUBSET Chunkset /\ s = ws
    BY <1>2, ReadStream DEF DoneSbpn
  <2>2. CASE UNCHANGED <<finals, phase, sb, task>>
    <3>1. RecognizerTypes'
      BY <2>0, <2>1, <2>2 DEF RecognizerTypes, Alone
    <3>2. Locked'
      BY <2>0, <2>2, Zenon DEF Locked
    <3> QED BY <2>1, <3>1, <3>2
  <2>3. CASE /\ Delivers(Head(socks[s].out).heard)
             /\ sb' = Reset /\ task' = [t \in Turns |-> IF At(t, "stream") THEN "end" ELSE task[t]]
    <3>1. /\ finals' \in [Turns -> Seq(SUBSET Chunkset)] /\ phase' \in {"idle", "speaking", "awaiting", "recovering"}
      BY <2>1, <2>3, DeliversTypes
    <3>2. /\ task' \in [Turns -> {"none", "wait", "end"} \union Locking \union Asking]
          /\ \A t \in Turns : task'[t] \in {task[t], "end"}
      BY <2>3 DEF RecognizerTypes
    <3>3. sb' \in [pending : BOOLEAN, degraded : BOOLEAN, streamed : BOOLEAN]
      BY <2>3 DEF Reset
    <3>4. RecognizerTypes'
      BY <2>0, <2>1, <3>1, <3>2, <3>3 DEF RecognizerTypes, Alone
    <3>5. lock = 0
      BY <2>1, Zero DEF Locked
    <3>6. Locked'
      BY <2>0, <3>2, <3>5, Zero DEF Locked, Locking, Asking
    <3> QED BY <2>1, <3>4, <3>6
  <2> QED BY <1>2, <2>2, <2>3 DEF DoneSbpn
<1>3. CASE ReceiverEnds(s)
  <2>0. UNCHANGED <<mode, phase, turn, recvTask, lock, task, force, sb, finals>> /\ ws' = IF ws = s THEN 0 ELSE ws
    BY <1>3 DEF ReceiverEnds
  <2>1. Alone(s) /\ socks'[s].out = <<>> /\ socks'[s].gen = socks[s].gen
    BY <1>3, ReceiverEndsDoes
  <2>2. socks[s].gen = "none"
    <3>1. CASE socks[s].st = "gone"
      BY <3>1 DEF OneStream
    <3>2. CASE Message(s, "error")
      <4>1. socks[s].out # <<>> /\ Head(socks[s].out).kind = "error" /\ Streams(socks[s])
        BY <3>2 DEF Message, OneStream
      <4>2. \A u : Head(u) = u[1]
        BY DEF Head
      <4> QED BY <4>1, <4>2 DEF Streams
    <3> QED BY <1>3, <3>1, <3>2 DEF ReceiverEnds
  <2>3. Streams(socks'[s])
    BY <2>1, <2>2 DEF Streams
  <2>4. OneStream'
    BY <2>0, <2>1, <2>2, <2>3, OneChanged
  <2>5. ws' \in Sockets \union {0} /\ (ws = 0 => ws' = 0)
    BY <2>0, Zero DEF RecognizerTypes
  <2>6. RecognizerTypes'
    BY <2>0, <2>1, <2>5 DEF RecognizerTypes, Alone
  <2>7. Locked'
    BY <2>0, <2>5, Zenon DEF Locked
  <2> QED BY <2>4, <2>6, <2>7
<1> QED BY <1>1, <1>2, <1>3

\* The client closes its socket if it has one.
LEMMA ForgetStream ==
  ASSUME OneStream, RecognizerTypes, ws' = 0,
         \/ socks' = (IF ws # 0 THEN Shut(socks, ws) ELSE socks)
         \/ socks' = (IF IsOpen(ws) THEN Shut(socks, ws) ELSE socks)
  PROVE  OneStream' /\ socks' \in [Sockets -> SocketSet]
<1>1. CASE ws # 0 /\ socks' = Shut(socks, ws)
  <2>1. ws \in Sockets
    BY <1>1 DEF RecognizerTypes
  <2> QED BY <1>1, <2>1, ShutStream DEF Alone
<1>2. CASE ~IsOpen(ws) /\ socks' = socks
  <2>1. \A s \in Sockets : ~(socks[s].gen # "none" \/ socks[s].out # <<>>)
    BY <1>2, Zero DEF OneStream, IsOpen
  <2>2. OneStream'
    BY <1>2, <2>1 DEF OneStream
  <2> QED BY <1>2, <2>2 DEF RecognizerTypes
<1> QED BY <1>1, <1>2 DEF IsOpen

\* The caller speaks to the client.
LEMMA BaseAppend ==
  ASSUME Base, Connect \/ AppendAudio \/ AppendSbpn
  PROVE  Base'
<1> USE DEF Base
<1>0. UNCHANGED <<mode, phase, lock, task, force, finals>>
  BY DEF Connect, AppendAudio, AppendSbpn
<1>1. turn' \in [id : 0 .. MaxTurns, part : 0 .. 2, typed : BOOLEAN]
  <2>1. turn \in [id : 0 .. MaxTurns, part : 0 .. 2, typed : BOOLEAN]
    BY DEF RecognizerTypes
  <2>2. CASE Speaks
    <3>1. turn.part + 1 \in 0 .. 2
      BY <2>1, <2>2 DEF Speaks
    <3> QED BY <2>1, <2>2, <3>1 DEF Speaks
  <2> QED BY <2>1, <2>2 DEF Connect, AppendAudio, AppendSbpn
<1>2. (lock # 0 => ws' = 0) => Locked'
  BY <1>0, Zenon DEF Locked
<1>3. CASE Connect
  <2>1. PICK o \in Opens : ws' = o[1] /\ socks' = o[2] /\ recvTask' = (IF o[1] = 0 THEN recvTask ELSE o[1]) /\ o[1] # 0
    BY <1>3 DEF Connect
  <2>2. OneStream' /\ ws' \in Sockets \union {0} /\ socks' \in [Sockets -> SocketSet]
    <3>1. ~IsOpen(ws) /\ <<>> \in Seq(Chunkset)
      BY <1>3 DEF Connect, IsOpen
    <3> QED BY <2>1, <3>1, OpenStream
  <2>3. RecognizerTypes'
    BY <1>0, <1>1, <1>3, <2>1, <2>2 DEF RecognizerTypes, Connect
  <2> QED BY <1>2, <1>3, <2>2, <2>3 DEF Connect
<1>4. CASE AppendAudio
  <2>0. UNCHANGED <<recvTask, sb>> /\ turn.part < 2
    BY <1>4 DEF AppendAudio, Speaks
  <2>1. OneStream' /\ ws' \in {0, ws} /\ socks' \in [Sockets -> SocketSet]
    <3>1. CASE IsOpen(ws) /\ socks' = Sends(socks, ws, <<Chunk>>) /\ UNCHANGED ws
      BY <2>0, <3>1, SendStream, ItemTypes DEF Alone
    <3>2. CASE IsOpen(ws) /\ socks' = Shut(socks, ws) /\ ws' = 0
      BY <3>2, ForgetStream
    <3>3. CASE UNCHANGED <<socks, ws>>
      BY <3>3, SameStreams DEF RecognizerTypes
    <3> QED BY <1>4, <3>1, <3>2, <3>3 DEF AppendAudio
  <2>2. RecognizerTypes' /\ (lock # 0 => ws' = 0)
    BY <1>0, <1>1, <2>0, <2>1 DEF RecognizerTypes, Locked
  <2> QED BY <1>2, <2>1, <2>2
<1>5. CASE AppendSbpn
  <2>0. turn.part < 2 /\ mode = "sbpn"
    BY <1>5 DEF AppendSbpn, Speaks
  <2>1. /\ OneStream' /\ ws' \in Sockets \union {0} /\ recvTask' \in Sockets \union {0} /\ socks' \in [Sockets -> SocketSet]
        /\ sb' \in [pending : BOOLEAN, degraded : BOOLEAN, streamed : BOOLEAN]
    <3>0. sb \in [pending : BOOLEAN, degraded : BOOLEAN, streamed : BOOLEAN] /\ ws \in Sockets \union {0} /\ recvTask \in Sockets \union {0}
      BY DEF RecognizerTypes
    <3>1. CASE UNCHANGED <<ws, socks, sb, recvTask>>
      BY <3>1, SameStreams DEF RecognizerTypes
    <3>2. CASE /\ IsOpen(ws)
               /\ socks' = Sends(socks, ws, <<Chunk>>) /\ sb' = [sb EXCEPT !.streamed = TRUE]
               /\ UNCHANGED <<ws, recvTask>>
      <4>1. OneStream' /\ Alone(ws)
        BY <2>0, <3>2, SendStream, ItemTypes
      <4> QED BY <3>0, <3>2, <4>1 DEF Alone
    <3>3. CASE /\ ~IsOpen(ws) /\ ~sb.streamed /\ Unused # {}
               /\ ws' = Fresh /\ recvTask' = Fresh
               /\ socks' = Sends([socks EXCEPT ![Fresh] = Opened], Fresh, <<Chunk>>)
               /\ sb' = [sb EXCEPT !.streamed = TRUE]
      <4> DEFINE o == <<Fresh, [socks EXCEPT ![Fresh] = Opened]>>
      <4>1. o \in Opens /\ Fresh \in Sockets /\ Fresh # 0
        BY <3>3, FreshIs, Zero DEF Opens
      <4>2. o[1] = Fresh /\ o[2] = [socks EXCEPT ![Fresh] = Opened]
        OBVIOUS
      <4>3. socks' = Sends(o[2], o[1], <<Chunk>>) /\ ws' = o[1] /\ o[1] # 0
        BY <3>3, <4>1, <4>2
      <4> HIDE DEF o
      <4>4. OneStream' /\ socks' \in [Sockets -> SocketSet]
        BY <2>0, <3>3, <4>1, <4>3, OpenStream, ItemTypes
      <4> QED BY <3>0, <3>3, <4>1, <4>4
    <3>4. CASE /\ sb' = [sb EXCEPT !.degraded = TRUE]
               /\ IF IsOpen(ws) THEN socks' = Shut(socks, ws) ELSE UNCHANGED socks
               /\ ws' = 0 /\ UNCHANGED recvTask
      <4>1. OneStream' /\ socks' \in [Sockets -> SocketSet]
        BY <3>4, ForgetStream
      <4> QED BY <3>0, <3>4, <4>1
    <3> QED BY <1>5, <3>1, <3>2, <3>3, <3>4 DEF AppendSbpn
  <2>2. RecognizerTypes'
    BY <1>0, <1>1, <2>1 DEF RecognizerTypes
  <2> QED BY <1>2, <2>0, <2>1, <2>2 DEF Locked
<1> QED BY <1>3, <1>4, <1>5

\* The commit of a turn over the socket.
LEMMA BaseCommit ==
  ASSUME Base, CommitRealtime \/ CommitSbpn
  PROVE  Base'
<1> USE DEF Base
<1>0. UNCHANGED <<mode, turn, lock, force, finals>> /\ phase = "speaking" /\ phase' = "awaiting"
  BY DEF CommitRealtime, CommitSbpn, Commits
<1>1. CASE CommitRealtime
  <2>0. UNCHANGED <<task, sb>>
    BY <1>1 DEF CommitRealtime
  <2>1. CASE IsOpen(ws) /\ socks' = Sends(socks, ws, <<Sentinel>>) /\ UNCHANGED <<ws, recvTask>>
    <3>1. OneStream' /\ Alone(ws)
      BY <2>1, SendStream, ItemTypes
    <3>2. RecognizerTypes'
      BY <1>0, <2>0, <2>1, <3>1 DEF RecognizerTypes, Alone
    <3>3. Locked'
      BY <1>0, <2>0, <2>1 DEF Locked
    <3> QED BY <3>1, <3>2, <3>3
  <2>2. CASE ~IsOpen(ws)
    <3> DEFINE q == <<<<turn.id, 1>>, <<turn.id, 2>>, Sentinel>>
    <3>1. PICK o \in Opens : /\ ws' = o[1] /\ recvTask' = (IF o[1] = 0 THEN recvTask ELSE o[1])
                             /\ socks' = IF o[1] = 0 THEN socks ELSE Sends(o[2], o[1], q)
      BY <1>1, <2>2 DEF CommitRealtime
    <3>2. q \in Seq(Chunkset)
      BY ItemTypes DEF RecognizerTypes
    <3>3. socks' = o[2] \/ (o[1] # 0 /\ socks' = Sends(o[2], o[1], q))
      BY <3>1, OpensDoes
    <3> HIDE DEF q
    <3>4. OneStream' /\ ws' \in Sockets \union {0} /\ socks' \in [Sockets -> SocketSet]
      BY <2>2, <3>1, <3>2, <3>3, OpenStream
    <3>5. RecognizerTypes'
      BY <1>0, <2>0, <3>1, <3>4 DEF RecognizerTypes
    <3>6. lock = 0
      BY <1>1, <2>2 DEF CommitRealtime
    <3>7. Locked'
      BY <1>0, <2>0, <3>6, Zero DEF Locked
    <3> QED BY <3>4, <3>5, <3>7
  <2> QED BY <1>1, <2>1, <2>2 DEF CommitRealtime
<1>2. CASE CommitSbpn
  <2>0. UNCHANGED recvTask /\ mode = "sbpn"
    BY <1>2 DEF CommitSbpn
  <2>1. OneStream' /\ socks' \in [Sockets -> SocketSet] /\ ws' \in Sockets \union {0}
    <3>1. CASE sb.pending
      <4>1. ws' = 0 /\ socks' = (IF ws # 0 THEN Shut(socks, ws) ELSE socks)
        BY <1>2, <3>1 DEF CommitSbpn
      <4> QED BY <4>1, ForgetStream
    <3>2. CASE ~sb.pending
      BY <1>2, <3>2, SameStreams DEF CommitSbpn, RecognizerTypes
    <3> QED BY <3>1, <3>2
  <2>2. /\ task' \in [Turns -> {"none", "wait", "end"} \union Locking \union Asking]
        /\ \A t \in Turns : task'[t] \in {task[t], "begin", "end"}
    <3>1. task' = [t \in Turns |-> IF t = turn.id THEN "begin" ELSE IF sb.pending THEN "end" ELSE task[t]]
      BY <1>2 DEF CommitSbpn
    <3> QED BY <3>1 DEF RecognizerTypes, Asking
  <2>3. sb' \in [pending : BOOLEAN, degraded : BOOLEAN, streamed : BOOLEAN]
    BY <1>2 DEF CommitSbpn, RecognizerTypes
  <2>4. RecognizerTypes'
    BY <1>0, <2>0, <2>1, <2>2, <2>3 DEF RecognizerTypes
  <2>5. lock = 0
    BY <2>0 DEF Locked
  <2>6. Locked'
    BY <1>0, <2>0, <2>2, <2>5, Zero DEF Locked, Locking, Asking
  <2> QED BY <2>1, <2>4, <2>6
<1> QED BY <1>1, <1>2

\* The final's task: the lock, the request, the socket again.
LEMMA BaseRequest ==
  ASSUME Base, NEW t \in Turns, Locks(t) \/ Quiesced(t) \/ Transcribed(t) \/ NotTranscribed(t) \/ Resumes(t)
  PROVE  Base'
<1> USE DEF Base
<1>0. UNCHANGED <<mode, turn, sb>>
  BY DEF Locks, Quiesced, Transcribed, NotTranscribed, Resumes
<1>1. CASE Locks(t)
  <2>0. UNCHANGED <<phase, recvTask, force, finals>> /\ lock = 0 /\ lock' = t /\ ws' = 0 /\ task[t] = "wait"
    BY <1>1 DEF Locks, At
  <2>1. OneStream' /\ socks' \in [Sockets -> SocketSet]
    BY <1>1, <2>0, ForgetStream DEF Locks
  <2>2. /\ task' \in [Turns -> {"none", "wait", "end"} \union Locking \union Asking]
        /\ \A u \in Turns : task'[u] = IF u = t THEN "quiesce" ELSE task[u]
    BY <1>1, TaskTypes DEF Locks, Locking
  <2>3. RecognizerTypes'
    BY <1>0, <2>0, <2>1, <2>2, Zero DEF RecognizerTypes
  <2>4. \A u \in Turns : task[u] \notin Locking
    BY <2>0, Zero DEF Locked
  <2>5. mode \in {"batch", "chat"}
    BY <2>0 DEF Locked
  <2>6. Locked'
    BY <1>0, <2>0, <2>2, <2>4, <2>5, Zero DEF Locked, Locking, Asking
  <2> QED BY <2>1, <2>3, <2>6
<1>2. CASE Quiesced(t)
  <2>0. UNCHANGED <<phase, ws, socks, lock, force, finals>> /\ recvTask' = 0 /\ task' = [task EXCEPT ![t] = "post"] /\ task[t] = "quiesce"
    BY <1>2 DEF Quiesced, At
  <2>1. "post" \in Locking /\ "quiesce" \in Locking /\ "post" \notin Asking
    BY DEF Locking, Asking
  <2>2. lock # 0 => ws' = 0
    BY <2>0 DEF Locked
  <2>3. Locked'
    BY <1>0, <2>0, <2>1, <2>2, MovesOn
  <2>4. RecognizerTypes'
    BY <1>0, <2>0, <2>1, TaskTypes DEF RecognizerTypes
  <2> QED BY <2>0, <2>3, <2>4, SameStreams
<1>3. CASE Transcribed(t)
  <2>0. UNCHANGED <<ws, recvTask, socks, lock, force>> /\ Delivers(Chunks(t)) /\ task' = [task EXCEPT ![t] = "resume"] /\ task[t] = "post"
    BY <1>3 DEF Transcribed, At
  <2>1. "post" \in Locking /\ "resume" \in Locking /\ "resume" \notin Asking
    BY DEF Locking, Asking
  <2>2. (lock # 0 => ws' = 0) /\ lock # Recovery
    BY <2>0, <2>1, Zero DEF Locked
  <2>3. Locked'
    BY <1>0, <2>0, <2>1, <2>2, MovesOn
  <2>5. finals' \in [Turns -> Seq(SUBSET Chunkset)] /\ phase' \in {"idle", "speaking", "awaiting", "recovering"}
    BY <2>0, DeliversTypes, ItemTypes, Zero
  <2>4. RecognizerTypes'
    BY <1>0, <2>0, <2>1, <2>5, TaskTypes DEF RecognizerTypes
  <2> QED BY <2>0, <2>3, <2>4, SameStreams
<1>4. CASE NotTranscribed(t)
  <2> DEFINE point == IF mode = "chat" THEN "fallback" ELSE "resume"
  <2>0. UNCHANGED <<phase, ws, recvTask, socks, lock, force, finals>> /\ task' = [task EXCEPT ![t] = point] /\ task[t] = "post"
    BY <1>4 DEF NotTranscribed, At
  <2>1. "post" \in Locking /\ point \in Locking /\ point \notin Asking /\ (point = "fallback" => mode = "chat")
    BY DEF Locking, Asking
  <2> HIDE DEF point
  <2>2. lock # 0 => ws' = 0
    BY <2>0 DEF Locked
  <2>3. Locked'
    BY <1>0, <2>0, <2>1, <2>2, MovesOn
  <2>4. RecognizerTypes'
    BY <1>0, <2>0, <2>1, TaskTypes DEF RecognizerTypes
  <2> QED BY <2>0, <2>3, <2>4, SameStreams
<1>5. CASE Resumes(t)
  <2> DEFINE q == <<<<t, 1>>, <<t, 2>>, Sentinel>>
  <2>0. UNCHANGED <<phase, finals>> /\ lock' = 0 /\ task' = [task EXCEPT ![t] = "end"] /\ task[t] \in {"resume", "fallback"}
    BY <1>5 DEF Resumes
  <2>1. PICK o \in Opens : /\ ws' = o[1] /\ recvTask' = o[1]
                           /\ socks' = (IF At(t, "fallback") /\ o[1] # 0 THEN Sends(o[2], o[1], q) ELSE o[2])
                           /\ force' = ((At(t, "fallback") /\ o[1] # 0) \/ force)
    BY <1>5 DEF Resumes
  <2>2. q \in Seq(Chunkset)
    BY ItemTypes, Zero
  <2> HIDE DEF q
  <2>3. lock = t /\ ~IsOpen(ws)
    BY <2>0, Zero DEF Locked, Locking, IsOpen
  <2>4. OneStream' /\ ws' \in Sockets \union {0} /\ socks' \in [Sockets -> SocketSet]
    BY <2>1, <2>2, <2>3, OpenStream
  <2>5. /\ task' \in [Turns -> {"none", "wait", "end"} \union Locking \union Asking]
        /\ \A u \in Turns : task'[u] = IF u = t THEN "end" ELSE task[u]
    BY <2>0, TaskTypes
  <2>6. force' \in BOOLEAN
    BY <2>1 DEF RecognizerTypes, At
  <2>7. RecognizerTypes'
    BY <1>0, <2>0, <2>1, <2>4, <2>5, <2>6, Zero DEF RecognizerTypes
  <2>8. Locked'
    BY <1>0, <2>0, <2>3, <2>5, Zero DEF Locked, Locking, Asking
  <2> QED BY <2>4, <2>7, <2>8
<1> QED BY <1>1, <1>2, <1>3, <1>4, <1>5

\* SBPNClient's task.
LEMMA BaseSbpn ==
  ASSUME Base, NEW t \in Turns, Finalizes(t) \/ StreamFails(t) \/ RequestAnswered(t) \/ RequestFails(t)
  PROVE  Base'
<1> USE DEF Base
<1>0. UNCHANGED <<mode, turn, recvTask, lock, force>> /\ task[t] \in Asking
  BY DEF Finalizes, StreamFails, RequestAnswered, RequestFails, At, Asking
<1>1. mode = "sbpn" /\ lock = 0
  BY <1>0 DEF Locked
<1>2. "end" \notin Asking /\ "end" \notin Locking /\ "stream" \in Asking /\ "request" \in Asking
      /\ Asking \intersect Locking = {} /\ "fallback" \notin Asking /\ Recovery # 0
  BY Zero DEF Asking, Locking
<1>3. CASE Finalizes(t)
  <2>0. UNCHANGED <<phase, sb, finals>>
    BY <1>3 DEF Finalizes
  <2>1. PICK point \in Asking : task' = [task EXCEPT ![t] = point]
    BY <1>2, <1>3 DEF Finalizes
  <2>2. OneStream' /\ socks' \in [Sockets -> SocketSet] /\ ws' \in Sockets \union {0}
    <3>1. CASE IsOpen(ws) /\ socks' = Sends(socks, ws, <<Sentinel>>) /\ UNCHANGED ws
      BY <3>1, SendStream, ItemTypes DEF Alone, RecognizerTypes
    <3>2. CASE socks' = (IF ws # 0 THEN Shut(socks, ws) ELSE socks) /\ ws' = 0
      BY <3>2, ForgetStream
    <3> QED BY <1>3, <3>1, <3>2 DEF Finalizes
  <2>3. Locked'
    BY <1>0, <1>1, <1>2, <2>1, MovesOn
  <2>4. RecognizerTypes'
    BY <1>0, <2>0, <2>1, <2>2, TaskTypes DEF RecognizerTypes
  <2> QED BY <2>2, <2>3, <2>4
<1>4. CASE StreamFails(t)
  <2>0. UNCHANGED <<phase, sb, finals>> /\ task' = [task EXCEPT ![t] = "request"] /\ ws' = 0
    BY <1>4 DEF StreamFails
  <2>2. OneStream' /\ socks' \in [Sockets -> SocketSet] /\ ws' \in Sockets \union {0}
    BY <1>4, ForgetStream DEF StreamFails
  <2>3. Locked'
    BY <1>0, <1>1, <1>2, <2>0, MovesOn
  <2>4. RecognizerTypes'
    BY <1>0, <1>2, <2>0, <2>2, TaskTypes DEF RecognizerTypes
  <2> QED BY <2>2, <2>3, <2>4
<1>5. CASE RequestAnswered(t) \/ RequestFails(t)
  <2>0. UNCHANGED <<ws, socks>> /\ sb' = Reset /\ task' = [task EXCEPT ![t] = "end"]
    BY <1>5 DEF RequestAnswered, RequestFails
  <2>1. finals' \in [Turns -> Seq(SUBSET Chunkset)] /\ phase' \in {"idle", "speaking", "awaiting", "recovering"}
    <3>1. CASE RequestAnswered(t)
      BY <3>1, DeliversTypes, ItemTypes, Zero DEF RequestAnswered
    <3>2. CASE RequestFails(t)
      BY <3>2 DEF RequestFails, RecognizerTypes
    <3> QED BY <1>5, <3>1, <3>2
  <2>2. sb' \in [pending : BOOLEAN, degraded : BOOLEAN, streamed : BOOLEAN]
    BY <2>0 DEF Reset
  <2>3. Locked'
    BY <1>0, <1>1, <1>2, <2>0, MovesOn
  <2>4. RecognizerTypes'
    BY <1>0, <2>0, <2>1, <2>2, TaskTypes DEF RecognizerTypes
  <2> QED BY <2>0, <2>3, <2>4, SameStreams
<1> QED BY <1>3, <1>4, <1>5

\* The recovery closes the client's socket and ends its receiver.
LEMMA RecoverDoes ==
  ASSUME Base, RecoverLocks
  PROVE  OneStream' /\ socks' \in [Sockets -> SocketSet]
<1> USE DEF Base
<1> DEFINE v(s) == (IF s = ws THEN Shut(socks, ws) ELSE socks)[s]
           w(s) == [v(s) EXCEPT !.recv = IF s = recvTask THEN "end" ELSE v(s).recv]
<1>1. socks' = [s \in Sockets |-> w(s)] /\ ws' = 0
  BY DEF RecoverLocks
<1>2. ASSUME NEW s \in Sockets PROVE v(s) \in SocketSet /\ v(s).gen = "none" /\ v(s).out = <<>>
  <2>1. CASE s = ws
    BY <2>1, ShutDoes DEF RecognizerTypes
  <2>2. CASE s # ws
    BY <2>2 DEF RecognizerTypes, OneStream
  <2> QED BY <2>1, <2>2
<1> HIDE DEF v
<1>3. ASSUME NEW s \in Sockets PROVE w(s) \in SocketSet /\ w(s).gen = "none" /\ w(s).out = <<>>
  <2> DEFINE x == v(s)
             y == IF s = recvTask THEN "end" ELSE x.recv
  <2>1. x \in SocketSet /\ w(s) = [x EXCEPT !.recv = y] /\ x.gen = "none" /\ x.out = <<>>
    BY <1>2
  <2>2. y \in {"none", "run", "end"}
    BY <2>1 DEF SocketSet
  <2> DEFINE z == w(s)
  <2>3. z = [x EXCEPT !.recv = y]
    BY <2>1
  <2> HIDE DEF x, y, z
  <2>4. z \in SocketSet /\ z.gen = x.gen /\ z.out = x.out
    BY <2>1, <2>2, <2>3 DEF SocketSet
  <2> QED BY <2>1, <2>4 DEF z
<1> HIDE DEF w
<1>4. socks' \in [Sockets -> SocketSet] /\ \A s \in Sockets : socks'[s].gen = "none" /\ socks'[s].out = <<>>
  BY <1>1, <1>3
<1>5. \A s \in Sockets : Streams(socks'[s])
  BY <1>4 DEF Streams
<1>6. OneStream'
  BY <1>4, <1>5 DEF OneStream
<1> QED BY <1>4, <1>6

LEMMA BaseRecovers ==
  ASSUME Base, Recovers
  PROVE  Base'
<1> USE DEF Base
<1>1. CASE RecoverLocks
  <2>0. /\ UNCHANGED <<mode, phase, turn, task, force, sb, finals>> /\ phase = "recovering" /\ mode # "sbpn"
        /\ lock = 0 /\ lock' = Recovery /\ ws' = 0 /\ recvTask' = 0 /\ \A t \in Turns : task[t] # "wait"
    BY <1>1 DEF RecoverLocks, At
  <2>1. OneStream' /\ socks' \in [Sockets -> SocketSet]
    BY <1>1, RecoverDoes
  <2>2. \A t \in Turns : task[t] \notin Due /\ task[t] \notin Locking
    BY <2>0, Zero DEF Locked, Due, Locking, Asking
  <2>3. Locked'
    BY <2>0, <2>2 DEF Locked
  <2>4. RecognizerTypes'
    BY <2>0, <2>1, Zero DEF RecognizerTypes
  <2> QED BY <2>1, <2>3, <2>4
<1>2. CASE Recovered
  <2>0. UNCHANGED <<mode, turn, task, force, sb, finals>> /\ lock = Recovery /\ lock' = 0 /\ phase' = "idle"
    BY <1>2 DEF Recovered
  <2>1. PICK o \in Opens : ws' = o[1] /\ recvTask' = o[1] /\ socks' = o[2]
    BY <1>2 DEF Recovered
  <2>2. ~IsOpen(ws) /\ <<>> \in Seq(Chunkset)
    BY <2>0, Zero DEF Locked, IsOpen
  <2>3. OneStream' /\ ws' \in Sockets \union {0} /\ socks' \in [Sockets -> SocketSet]
    BY <2>1, <2>2, OpenStream
  <2>4. RecognizerTypes'
    BY <2>0, <2>1, <2>3, Zero DEF RecognizerTypes
  <2>5. Locked'
    BY <2>0, Zero DEF Locked
  <2> QED BY <2>3, <2>4, <2>5
<1>3. CASE RecoverSbpn
  <2>0. /\ UNCHANGED <<mode, turn, recvTask, lock, force, finals>> /\ mode = "sbpn" /\ ws' = 0 /\ sb' = Reset /\ phase' = "idle"
        /\ task' = [t \in Turns |-> IF task[t] = "none" THEN "none" ELSE "end"]
    BY <1>3 DEF RecoverSbpn
  <2>1. OneStream' /\ socks' \in [Sockets -> SocketSet]
    BY <1>3, <2>0, ForgetStream DEF RecoverSbpn
  <2>2. sb' \in [pending : BOOLEAN, degraded : BOOLEAN, streamed : BOOLEAN]
    BY <2>0 DEF Reset
  <2>3. /\ task' \in [Turns -> {"none", "wait", "end"} \union Locking \union Asking]
        /\ \A t \in Turns : task'[t] \in {"none", "end"}
    BY <2>0
  <2>4. RecognizerTypes'
    BY <2>0, <2>1, <2>2, <2>3 DEF RecognizerTypes
  <2>5. Locked'
    BY <2>0, <2>3, Zero DEF Locked, Locking, Asking
  <2> QED BY <2>1, <2>4, <2>5
<1> QED BY <1>1, <1>2, <1>3 DEF Recovers

\* Every step keeps the base.
LEMMA BaseNext == Base /\ [Next]_vars => Base'
<1> SUFFICES ASSUME Base, [Next]_vars PROVE Base'
  OBVIOUS
<1>1. CASE UNCHANGED vars
  <2>1. RecognizerTypes'
    BY <1>1 DEF vars, Base, RecognizerTypes
  <2>2. OneStream'
    BY <1>1, SameStreams DEF vars, Base
  <2>3. Locked'
    BY <1>1 DEF vars, Base, Locked
  <2> QED BY <2>1, <2>2, <2>3 DEF Base
<1>2. ASSUME NEW s \in Sockets, Server(s) \/ Receiver(s) \/ EngineFails(s) \/ Drops(s) PROVE Base'
  BY <1>2, BaseServer, BaseReceiver DEF Server, Receiver
<1>3. ASSUME NEW t \in Turns, Final(t) PROVE Base'
  BY <1>3, BaseRequest, BaseSbpn DEF Final
<1> QED BY <1>1, <1>2, <1>3, BaseCaller, BaseAppend, BaseCommit, BaseRecovers DEF Next

\* While a turn's request is with the engine the lock is its task's, so the
\* client has no socket and nothing generates.
THEOREM NoOverlapHolds == Spec => []NoOverlap
<1>1. Base => NoOverlap
  <2> SUFFICES ASSUME Base, NEW t \in Turns, At(t, "post"), NEW s \in Sockets PROVE socks[s].gen = "none"
    BY DEF NoOverlap
  <2>1. lock = t /\ ws = 0
    BY Zero DEF Base, Locked, Locking, At
  <2> QED BY <2>1, Zero DEF Base, OneStream
<1> QED BY <1>1, BaseInit, BaseNext, PTL DEF Spec

----------------------------------------------------------------------------
(* A transcript is of its turn.                                              *)

Turned == OneAnswer /\ StreamOfTurn /\ Flags

\* Without a socket there is nothing to say of it.
LEMMA Silent ==
  ASSUME ~IsOpen(ws)'
  PROVE  StreamOfTurn'
  BY DEF StreamOfTurn

\* A stream that was neither touched nor its turn's state.
LEMMA SameStream ==
  ASSUME StreamOfTurn, UNCHANGED <<mode, phase, turn, task, finals, ws>>,
         IsOpen(ws) => /\ socks'[ws].queue = socks[ws].queue /\ socks'[ws].heard = socks[ws].heard
                       /\ socks'[ws].st = socks[ws].st \/ socks'[ws].st # "open"
                       /\ socks'[ws].out = socks[ws].out \/ (~Answered(socks[ws]) /\ ~Answered(socks'[ws])),
         ~IsOpen(ws) => ws = 0 \/ socks'[ws].st # "open"
  PROVE  StreamOfTurn'
<1> SUFFICES ASSUME IsOpen(ws)' PROVE AskedOfTurn(socks[ws])' /\ HoldsTurn(socks[ws])'
  BY DEF StreamOfTurn
<1>1. IsOpen(ws)
  BY DEF IsOpen
<1>2. AskedOfTurn(socks[ws]) /\ HoldsTurn(socks[ws])
  BY <1>1 DEF StreamOfTurn
<1>3. /\ Asked(socks'[ws]) <=> Asked(socks[ws])
      /\ Content(socks'[ws]) = Content(socks[ws])
      /\ SentinelLast(socks'[ws]) <=> SentinelLast(socks[ws])
  BY <1>1 DEF Asked, Content, SentinelLast
<1>4. Answered(socks'[ws]) <=> Answered(socks[ws])
  BY <1>1 DEF Answered
<1>5. Said' = Said /\ Owed' = Owed
  BY DEF Said, Owed
<1>6. Answered(socks[ws]) => socks'[ws].out = socks[ws].out
  BY <1>1
<1>7. AskedOfTurn(socks[ws])'
  BY <1>1, <1>2, <1>3, <1>4, <1>5, <1>6 DEF AskedOfTurn
<1>8. HoldsTurn(socks[ws])'
  BY <1>1, <1>2, <1>3, <1>5 DEF HoldsTurn
<1> QED BY <1>7, <1>8

\* What the answers and the flags are about stays.
LEMMA SameTurn ==
  ASSUME OneAnswer, Flags, UNCHANGED <<mode, phase, turn, task, finals, sb>>, ws' \in {0, ws}
  PROVE  OneAnswer' /\ Flags'
<1>1. OneAnswer'
  BY DEF OneAnswer, Owed
<1>2. Flags'
  BY DEF Flags
<1> QED BY <1>1, <1>2

\* Nothing is asked before the turn is committed, nor of a stream while its task
\* is still to ask.
LEMMA NotAsked ==
  ASSUME Base, Turned, IsOpen(ws), phase \in {"idle", "speaking"} \/ (\E t \in Turns : task[t] \in {"begin", "wait"})
  PROVE  ~Asked(socks[ws]) /\ ~Answered(socks[ws])
<1> SUFFICES ASSUME Asked(socks[ws]) \/ Answered(socks[ws]) PROVE FALSE
  OBVIOUS
<1>1. Owed /\ mode # "batch" /\ (mode = "chat" => task[turn.id] = "end") /\ (mode = "sbpn" => task[turn.id] = "stream")
  BY DEF Turned, StreamOfTurn, AskedOfTurn
<1>2. PICK t \in Turns : task[t] \in {"begin", "wait"}
  BY <1>1 DEF Owed
<1>3. t = turn.id
  BY <1>2 DEF Turned, OneAnswer, Due, Asking
<1>4. mode \in {"batch", "chat", "sbpn"}
  BY <1>2 DEF Base, Locked, Locking, Asking
<1> QED BY <1>1, <1>2, <1>3, <1>4

LEMMA TurnedServer ==
  ASSUME Base, Turned, NEW s \in Sockets, Consumes(s) \/ SendsDone(s) \/ GenerationEnds(s) \/ EngineFails(s) \/ Drops(s)
  PROVE  Turned'
<1> USE DEF Base
<1>0. UNCHANGED <<mode, phase, turn, ws, recvTask, lock, task, force, sb, finals>>
  BY DEF Consumes, SendsDone, GenerationEnds, EngineFails, Drops
<1>1. OneAnswer' /\ Flags'
  BY <1>0, SameTurn DEF Turned
<1>2. Streams(socks[s]) /\ (socks[s].gen # "none" => s = ws /\ socks[s].st = "open")
  BY DEF OneStream
<1>3. CASE Consumes(s)
  <2> DEFINE v == socks[s]
             w == socks'[s]
  <2>1. /\ w.queue = Tail(v.queue) /\ w.heard = v.heard \union {Head(v.queue)} /\ w.st = v.st /\ w.out = v.out
        /\ v.queue # <<>> /\ Head(v.queue) # Sentinel /\ s = ws /\ v.st = "open" /\ v \in SocketSet
    BY <1>2, <1>3, ConsumesDoes DEF Consumes, RecognizerTypes
  <2>2. AskedOfTurn(v) /\ HoldsTurn(v)
    BY <2>1, Zero DEF Turned, StreamOfTurn, IsOpen
  <2>3. Items(v.queue) = Items(w.queue) \union {Head(v.queue)} /\ SentinelLast(w)
    <3> HIDE DEF v, w
    <3>1. v.queue \in Seq(Chunkset)
      BY <2>1 DEF SocketSet
    <3>2. Items(v.queue) = Items(w.queue) \union {Head(v.queue)}
      BY <2>1, <3>1, ItemTaken
    <3>3. SentinelLast(v)
      BY <2>2 DEF AskedOfTurn
    <3>4. \A i \in DOMAIN Tail(v.queue) : Tail(v.queue)[i] = Sentinel => i = Len(Tail(v.queue))
      BY <2>1, <3>3, SentinelTaken
    <3>5. SentinelLast(w)
      BY <2>1, <3>4 DEF SentinelLast
    <3> QED BY <3>2, <3>5
  <2>7. (Asked(w) <=> Asked(v)) /\ Content(w) = Content(v) /\ ~Answered(w) /\ ~Answered(v)
    BY <2>1, <2>2, <2>3 DEF AskedOfTurn, Answered, Asked, Content
  <2>8. phase # "idle" \/ mode \notin {"realtime", "sbpn"}
    BY <2>1, <2>2 DEF HoldsTurn
  <2>5. Said' = Said /\ Owed' = Owed
    BY <1>0 DEF Said, Owed
  <2>6. AskedOfTurn(socks[ws])' /\ HoldsTurn(socks[ws])'
    <3> HIDE DEF v, w
    <3>1. socks'[ws'] = w
      BY <1>0, <2>1 DEF w
    <3>2. AskedOfTurn(socks[ws])'
      BY <1>0, <2>2, <2>3, <2>5, <2>7, <3>1 DEF AskedOfTurn
    <3>3. HoldsTurn(socks[ws])'
      BY <1>0, <2>2, <2>5, <2>7, <2>8, <3>1 DEF HoldsTurn
    <3> QED BY <3>2, <3>3
  <2> QED BY <1>1, <2>6 DEF Turned, StreamOfTurn
<1>4. CASE SendsDone(s)
  <2> DEFINE v == socks[s]
             w == socks'[s]
             m == [kind |-> "done", heard |-> v.heard]
  <2>1. /\ w.queue = Tail(v.queue) /\ w.heard = {} /\ w.st = v.st /\ w.out = Append(v.out, m)
        /\ v.queue # <<>> /\ Head(v.queue) = Sentinel /\ s = ws /\ v.st = "open" /\ v \in SocketSet /\ v.out = <<>>
    BY <1>2, <1>4, SendsDoneDoes DEF SendsDone, RecognizerTypes, Streams
  <2>2. AskedOfTurn(v) /\ HoldsTurn(v)
    BY <2>1, Zero DEF Turned, StreamOfTurn, IsOpen
  <2>3. w.queue = <<>> /\ Items(v.queue) = {Sentinel}
    BY <2>1, <2>2, SentinelTaken DEF AskedOfTurn
  <2>4. Asked(v) /\ Content(v) = v.heard /\ ~Asked(w)
    BY <2>3, SMTT(30) DEF Asked, Content, Items
  <2>5. w.out # <<>> /\ w.out[1] = m
    <3>1. \A x : Append(<<>>, x) # <<>> /\ Append(<<>>, x)[1] = x
      OBVIOUS
    <3> QED BY <2>1, <3>1
  <2>6. Answered(w) /\ w.out[1].heard = Said
    BY <2>2, <2>4, <2>5 DEF Answered, AskedOfTurn
  <2>7. phase \notin {"idle", "speaking"} /\ \A t \in Turns : task[t] # "begin"
    <3>1. IsOpen(ws) /\ Asked(socks[ws])
      BY <2>1, <2>4, Zero DEF IsOpen
    <3> QED BY <3>1, NotAsked
  <2>8. Said' = Said /\ Owed' = Owed
    BY <1>0 DEF Said, Owed
  <2>9. SentinelLast(w)
    BY <2>3 DEF SentinelLast
  <2>10. AskedOfTurn(socks[ws])' /\ HoldsTurn(socks[ws])'
    <3>1. socks'[ws'] = w
      BY <1>0, <2>1
    <3> HIDE DEF v, w
    <3>2. AskedOfTurn(socks[ws])'
      BY <1>0, <2>1, <2>2, <2>3, <2>4, <2>6, <2>8, <2>9, <3>1 DEF AskedOfTurn
    <3>3. HoldsTurn(socks[ws])'
      BY <1>0, <2>7, <3>1 DEF HoldsTurn
    <3> QED BY <3>2, <3>3
  <2> QED BY <1>1, <2>10 DEF Turned, StreamOfTurn
<1>5. CASE GenerationEnds(s) \/ EngineFails(s) \/ Drops(s)
  <2>1. s # ws => ws = 0 \/ socks'[ws] = socks[ws]
    BY <1>0, <1>5, BaseServer, GenerationEndsDoes, EngineFailsDoes, ShutStream DEF Alone, RecognizerTypes, Drops
  <2>2. CASE s = ws /\ Drops(s)
    BY <1>0, <1>1, <2>2, ShutStream, Silent DEF Turned, IsOpen, Drops
  <2>3. CASE s = ws /\ GenerationEnds(s)
    <3>1. StreamOfTurn'
      BY <1>0, <2>3, GenerationEndsDoes, SameStream DEF Turned, IsOpen
    <3> QED BY <1>1, <3>1 DEF Turned
  <2>4. CASE s = ws /\ EngineFails(s)
    <3>1. /\ socks'[s].queue = socks[s].queue /\ socks'[s].heard = socks[s].heard /\ socks'[s].st = socks[s].st
          /\ socks'[s].out = Append(<<>>, [kind |-> "error", heard |-> {}]) /\ socks[s].out = <<>> /\ socks[s].st = "open"
      BY <1>2, <2>4, EngineFailsDoes DEF EngineFails, Streams
    <3>2. socks'[s].out[1].kind = "error"
      <4>1. \A x : Append(<<>>, x)[1] = x
        OBVIOUS
      <4> QED BY <3>1, <4>1
    <3>3. ~Answered(socks[s]) /\ ~Answered(socks'[s])
      BY <3>1, <3>2 DEF Answered
    <3>4. StreamOfTurn'
      BY <1>0, <2>4, <3>1, <3>3, SameStream DEF Turned, IsOpen
    <3> QED BY <1>1, <3>4 DEF Turned
  <2>5. CASE s # ws
    <3>1. StreamOfTurn'
      BY <1>0, <2>1, <2>5, SameStream DEF Turned, IsOpen
    <3> QED BY <1>1, <3>1 DEF Turned
  <2> QED BY <1>5, <2>2, <2>3, <2>4, <2>5
<1> QED BY <1>3, <1>4, <1>5

\* A turn that was spoken to its end was said in full.
LEMMA SaidAll == turn.part = 2 => Said = Chunks(turn.id)
<1> SUFFICES ASSUME turn.part = 2 PROVE Said = Chunks(turn.id)
  OBVIOUS
<1>1. 1 .. 2 = {1, 2}
  OBVIOUS
<1> QED BY <1>1 DEF Said, Chunks

\* The one transcript a turn is owed.
LEMMA DeliversAnswer ==
  ASSUME RecognizerTypes, OneAnswer, Owed, Delivers(Chunks(turn.id)), turn' = turn,
         \A t \in Turns : task'[t] \notin Due /\ (t > turn.id => task'[t] = "none")
  PROVE  OneAnswer' /\ phase' \in {"idle", "recovering"}
<1>1. turn.id \in Turns /\ finals[turn.id] = <<>> /\ phase \in {"awaiting", "recovering"} /\ finals \in [Turns -> Seq(SUBSET Chunkset)]
  BY DEF Owed, RecognizerTypes
<1>2. finals'[turn.id] = <<Chunks(turn.id)>> /\ \A t \in Turns : t # turn.id => finals'[t] = finals[t]
  <2>1. \A x : Append(<<>>, x) = <<x>>
    OBVIOUS
  <2> QED BY <1>1, <2>1 DEF Delivers
<1>3. phase' \in {"idle", "recovering"}
  BY <1>1 DEF Delivers
<1>4. \A t \in Turns : finals'[t] \in {<<>>, <<Chunks(t)>>} /\ (t > turn.id => finals'[t] = <<>>)
  <2> SUFFICES ASSUME NEW t \in Turns PROVE finals'[t] \in {<<>>, <<Chunks(t)>>} /\ (t > turn.id => finals'[t] = <<>>)
    OBVIOUS
  <2>1. CASE t = turn.id
    <3>1. ~(t > turn.id)
      BY <2>1, RecognizerAssumption DEF Turns
    <3> QED BY <1>2, <2>1, <3>1
  <2>2. CASE t # turn.id
    BY <1>2, <2>2 DEF OneAnswer
  <2> QED BY <2>1, <2>2
<1>5. OneAnswer'
  BY <1>1, <1>3, <1>4 DEF OneAnswer
<1> QED BY <1>3, <1>5

\* While the stream owes the transcript no task does, but SBPNClient's own.
LEMMA NoDue ==
  ASSUME Base, Turned, IsOpen(ws), Asked(socks[ws]) \/ Answered(socks[ws])
  PROVE  /\ Owed /\ mode # "batch" /\ \A t \in Turns : task[t] \in Due => mode = "sbpn" /\ t = turn.id /\ task[t] = "stream"
         /\ mode = "sbpn" => task[turn.id] = "stream"
<1>1. Owed /\ mode # "batch" /\ (mode = "chat" => task[turn.id] = "end") /\ (mode = "sbpn" => task[turn.id] = "stream")
  BY DEF Turned, StreamOfTurn, AskedOfTurn
<1>2. ASSUME NEW t \in Turns, task[t] \in Due PROVE mode = "sbpn" /\ t = turn.id /\ task[t] = "stream"
  <2>1. t = turn.id
    BY <1>2 DEF Turned, OneAnswer
  <2>2. task[t] # "end" /\ mode # "realtime"
    BY <1>2 DEF Due, Asking, Base, Locked, Locking
  <2>3. mode \in {"batch", "chat", "realtime", "sbpn"}
    BY RecognizerAssumption DEF Base, RecognizerTypes
  <2> QED BY <1>1, <2>1, <2>2, <2>3
<1> QED BY <1>1, <1>2

\* An empty stream holds nothing of the turn, and need not.
LEMMA EmptyStream ==
  ASSUME IsOpen(ws)', socks'[ws'].queue = <<>>, socks'[ws'].heard = {}, socks'[ws'].out = <<>>,
         mode' \in {"realtime", "sbpn"} => /\ phase' = "speaking" => Said' = {}
                                           /\ \A t \in Turns : task'[t] # "begin"
  PROVE  StreamOfTurn'
<1> DEFINE w == socks'[ws']
<1>1. Items(w.queue) = {}
  BY DEF Items
<1>2. ~Asked(w) /\ ~Answered(w) /\ Content(w) = {} /\ SentinelLast(w)
  BY <1>1 DEF Asked, Answered, Content, SentinelLast
<1> HIDE DEF w
<1>3. socks'[ws'] = w /\ w.queue = <<>> /\ w.heard = {}
  BY DEF w
<1>4. AskedOfTurn(socks[ws])'
  BY <1>2, <1>3 DEF AskedOfTurn
<1>5. HoldsTurn(socks[ws])'
  BY <1>2, <1>3 DEF HoldsTurn
<1> QED BY <1>4, <1>5 DEF StreamOfTurn

LEMMA TurnedReceiver ==
  ASSUME Base, Turned, NEW s \in Sockets, DoneRead(s) \/ DoneSbpn(s) \/ ReceiverEnds(s)
  PROVE  Turned'
<1>0. RecognizerTypes /\ OneAnswer /\ Flags /\ StreamOfTurn /\ Locked
  BY DEF Base, Turned
<1>1. CASE ReceiverEnds(s)
  <2>0. UNCHANGED <<mode, phase, turn, recvTask, lock, task, force, sb, finals>> /\ ws' = IF ws = s THEN 0 ELSE ws
    BY <1>1 DEF ReceiverEnds
  <2>1. OneAnswer' /\ Flags'
    BY <1>0, <2>0, SameTurn
  <2>2. StreamOfTurn'
    <3>1. CASE ws = s
      BY <2>0, <3>1, Silent DEF IsOpen
    <3>2. CASE ws # s
      <4>1. ws # 0 => socks'[ws] = socks[ws]
        BY <1>0, <1>1, <3>2, ReceiverEndsDoes DEF Alone, RecognizerTypes
      <4> QED BY <1>0, <2>0, <3>2, <4>1, SameStream DEF IsOpen
    <3> QED BY <3>1, <3>2
  <2> QED BY <2>1, <2>2 DEF Turned
<1>2. CASE DoneRead(s) \/ DoneSbpn(s)
  <2>0. UNCHANGED <<mode, turn, ws>> /\ Message(s, "done") /\ socks' = Rearmed(Read(s), s)
    BY <1>2 DEF DoneRead, DoneSbpn
  <2>1. /\ s = ws /\ socks[s].st = "open" /\ Answered(socks[s]) /\ Head(socks[s].out) = socks[s].out[1]
        /\ socks'[s].out = <<>> /\ socks'[s].queue = socks[s].queue /\ socks'[s].heard = socks[s].heard /\ socks'[s].st = "open"
    BY <2>0, ReadStream
  <2>2. IsOpen(ws) /\ IsOpen(ws)' /\ socks[s] = socks[ws] /\ socks'[s] = socks'[ws']
    BY <2>0, <2>1, Zero DEF IsOpen
  <2>3. Owed /\ socks[s].out[1].heard = Said /\ socks[s].queue = <<>> /\ socks[s].heard = {}
    BY <1>0, <2>1, <2>2 DEF StreamOfTurn, AskedOfTurn
  <2>4. Head(socks[s].out).heard = Chunks(turn.id) /\ phase \in {"awaiting", "recovering"}
    BY <2>1, <2>3, SaidAll DEF Owed
  <2>5. \A t \in Turns : task[t] \in Due => mode = "sbpn" /\ t = turn.id /\ task[t] = "stream"
    BY <2>1, <2>2, NoDue
  <2>6. CASE DoneRead(s)
    <3>1. UNCHANGED <<task, sb>> /\ mode # "sbpn"
      BY <2>6 DEF DoneRead
    <3>2. OneAnswer' /\ phase' \in {"idle", "awaiting", "recovering"}
      <4>1. CASE UNCHANGED <<finals, phase>>
        BY <1>0, <2>0, <2>4, <3>1, <4>1, SameTurn
      <4>2. CASE Delivers(Chunks(turn.id))
        <5>1. \A t \in Turns : task'[t] \notin Due /\ (t > turn.id => task'[t] = "none")
          BY <1>0, <2>5, <3>1 DEF OneAnswer
        <5> QED BY <1>0, <2>0, <2>3, <4>2, <5>1, DeliversAnswer
      <4> QED BY <2>4, <2>6, <4>1, <4>2 DEF DoneRead
    <3>3. Flags'
      BY <2>0, <3>1 DEF Flags
    <3>4. \A t \in Turns : task'[t] # "begin"
      BY <2>5, <3>1 DEF Due, Asking
    <3>5. StreamOfTurn'
      BY <2>1, <2>2, <2>3, <3>2, <3>4, EmptyStream
    <3> QED BY <3>2, <3>3, <3>5 DEF Turned
  <2>7. CASE DoneSbpn(s)
    <3>0. mode = "sbpn" /\ task[turn.id] = "stream" /\ turn.id \in Turns
      BY <2>1, <2>2, <2>3, <2>7, NoDue DEF DoneSbpn, Owed
    <3>1. Delivers(Chunks(turn.id)) /\ sb' = Reset /\ task' = [t \in Turns |-> IF At(t, "stream") THEN "end" ELSE task[t]]
      BY <2>4, <2>7, <3>0 DEF DoneSbpn, At
    <3>2. \A t \in Turns : task'[t] \notin Due /\ (t > turn.id => task'[t] = "none")
      BY <1>0, <2>5, <3>1 DEF OneAnswer, At, Due, Asking
    <3>3. OneAnswer' /\ phase' \in {"idle", "recovering"}
      BY <1>0, <2>0, <2>3, <3>1, <3>2, DeliversAnswer
    <3>4. Flags'
      BY <3>1, <3>2, <3>3 DEF Flags, Reset, Due, Asking
    <3>5. \A t \in Turns : task'[t] # "begin"
      BY <3>2 DEF Due, Asking
    <3>6. StreamOfTurn'
      BY <2>1, <2>2, <2>3, <3>3, <3>5, EmptyStream
    <3> QED BY <3>3, <3>4, <3>6 DEF Turned
  <2> QED BY <1>2, <2>6, <2>7
<1> QED BY <1>1, <1>2

\* A stream of which nothing was asked.
LEMMA QuietStream ==
  ASSUME NEW w, IsOpen(ws)' => socks'[ws'] = w /\ SentinelLast(w) /\ ~Asked(w) /\ ~Answered(w),
         IsOpen(ws)' /\ mode' \in {"realtime", "sbpn"} =>
           /\ phase' = "idle" => w.queue = <<>> /\ w.heard = {}
           /\ phase' = "speaking" \/ (\E t \in Turns : task'[t] = "begin") => Content(w) = Said'
  PROVE  StreamOfTurn'
<1> SUFFICES ASSUME IsOpen(ws)' PROVE AskedOfTurn(socks[ws])' /\ HoldsTurn(socks[ws])'
  BY DEF StreamOfTurn
<1>1. AskedOfTurn(socks[ws])'
  BY DEF AskedOfTurn
<1>2. HoldsTurn(socks[ws])'
  BY DEF HoldsTurn
<1> QED BY <1>1, <1>2

\* An idle turn owes nothing.
LEMMA IdleTurn ==
  ASSUME OneAnswer, phase \in {"idle", "speaking"}
  PROVE  \A t \in Turns : task[t] \notin Due
  BY DEF OneAnswer, Owed

LEMMA TurnedCaller ==
  ASSUME Base, Turned, TurnStarts \/ FinalTimeout \/ FalseStart \/ CommitTask
  PROVE  Turned'
<1>0. RecognizerTypes /\ OneAnswer /\ Flags /\ StreamOfTurn /\ Locked
  BY DEF Base, Turned
<1>1. UNCHANGED <<mode, ws, socks, sb, finals>> /\ turn.id \in 0 .. MaxTurns
  BY <1>0 DEF TurnStarts, FinalTimeout, FalseStart, CommitTask, RecognizerTypes
<1>2. CASE TurnStarts
  <2>0. phase = "idle" /\ phase' = "speaking" /\ task' = task /\ turn'.id = turn.id + 1 /\ turn'.part = 0 /\ turn.id < MaxTurns
    BY <1>2 DEF TurnStarts
  <2>1. \A t \in Turns : task[t] \notin Due
    BY <1>0, <2>0, IdleTurn
  <2>2. turn'.id \in Turns /\ turn'.id > turn.id /\ \A t \in Turns : t > turn'.id => t > turn.id
    BY <1>1, <2>0, RecognizerAssumption DEF Turns
  <2>3. OneAnswer'
    BY <1>0, <1>1, <2>0, <2>1, <2>2 DEF OneAnswer
  <2>4. Flags'
    BY <1>0, <1>1, <2>0, <2>1 DEF Flags, Reset, Due, Asking
  <2>5. Said' = {}
    BY <2>0 DEF Said
  <2>6. StreamOfTurn'
    <3> DEFINE w == socks[ws]
    <3>1. IsOpen(ws)' => IsOpen(ws) /\ socks'[ws'] = w
      BY <1>1 DEF IsOpen
    <3>2. IsOpen(ws) => ~Asked(w) /\ ~Answered(w)
      BY <2>0, NotAsked
    <3>3. IsOpen(ws) => SentinelLast(w) /\ HoldsTurn(w)
      BY <1>0 DEF StreamOfTurn, AskedOfTurn
    <3>4. w.queue = <<>> /\ w.heard = {} => Content(w) = {}
      BY DEF Content, Items
    <3>5. IsOpen(ws) /\ mode \in {"realtime", "sbpn"} => Content(w) = {}
      BY <2>0, <3>3, <3>4 DEF HoldsTurn
    <3> HIDE DEF w
    <3> QED BY <1>1, <2>0, <2>5, <3>1, <3>2, <3>3, <3>5, QuietStream
  <2> QED BY <2>3, <2>4, <2>6 DEF Turned
<1>3. CASE FinalTimeout
  <2>0. phase = "awaiting" /\ phase' = "recovering" /\ UNCHANGED <<turn, task>>
    BY <1>3 DEF FinalTimeout
  <2>1. Owed' = Owed /\ Said' = Said
    BY <1>1, <2>0 DEF Owed, Said
  <2>2. OneAnswer'
    BY <1>0, <1>1, <2>0, <2>1 DEF OneAnswer
  <2>3. Flags'
    BY <1>0, <1>1, <2>0 DEF Flags
  <2>4. StreamOfTurn'
    <3> SUFFICES ASSUME IsOpen(ws)' PROVE AskedOfTurn(socks[ws])' /\ HoldsTurn(socks[ws])'
      BY DEF StreamOfTurn
    <3>1. AskedOfTurn(socks[ws]) /\ HoldsTurn(socks[ws])
      BY <1>0, <1>1 DEF StreamOfTurn, IsOpen
    <3>2. AskedOfTurn(socks[ws])'
      BY <1>1, <2>0, <2>1, <3>1 DEF AskedOfTurn
    <3>3. HoldsTurn(socks[ws])'
      BY <1>1, <2>0, <2>1, <3>1 DEF HoldsTurn
    <3> QED BY <3>2, <3>3
  <2> QED BY <2>2, <2>3, <2>4 DEF Turned
<1>4. CASE FalseStart
  <2>0. phase = "idle" /\ phase' = "recovering" /\ UNCHANGED <<turn, task>> /\ turn.id \in Turns
    BY <1>1, <1>4 DEF FalseStart, Turns
  <2>1. \A t \in Turns : task[t] \notin Due
    BY <1>0, <2>0, IdleTurn
  <2>2. OneAnswer'
    BY <1>0, <1>1, <2>0, <2>1 DEF OneAnswer
  <2>3. Flags'
    BY <1>0, <1>1, <2>0 DEF Flags
  <2>4. StreamOfTurn'
    <3> DEFINE w == socks[ws]
    <3>1. IsOpen(ws)' => IsOpen(ws) /\ socks'[ws'] = w
      BY <1>1 DEF IsOpen
    <3>2. IsOpen(ws) => ~Asked(w) /\ ~Answered(w)
      BY <2>0, NotAsked
    <3>3. IsOpen(ws) => SentinelLast(w)
      BY <1>0 DEF StreamOfTurn, AskedOfTurn
    <3>4. \A t \in Turns : task'[t] # "begin"
      BY <2>0, <2>1 DEF Due, Asking
    <3> HIDE DEF w
    <3> QED BY <2>0, <3>1, <3>2, <3>3, <3>4, QuietStream
  <2> QED BY <2>2, <2>3, <2>4 DEF Turned
<1>5. CASE CommitTask
  <2>0. mode \in {"batch", "chat"} /\ phase = "speaking" /\ phase' = "awaiting" /\ turn.part = 2 /\ UNCHANGED turn
    BY <1>5 DEF CommitTask, Commits
  <2>1. \A u \in Turns : task'[u] = IF u = turn.id THEN "wait" ELSE task[u]
    BY <1>0, <1>5, TaskTypes DEF CommitTask
  <2>2. \A t \in Turns : task[t] \notin Due
    BY <1>0, <2>0, IdleTurn
  <2>3. turn.id \in Turns /\ finals[turn.id] = <<>>
    BY <1>0, <2>0 DEF OneAnswer
  <2>4. Owed'
    BY <1>1, <2>0, <2>3 DEF Owed
  <2>5. \A t \in Turns : t > turn.id => t # turn.id
    BY <2>3, RecognizerAssumption DEF Turns
  <2>6. OneAnswer'
    BY <1>0, <1>1, <2>0, <2>1, <2>2, <2>3, <2>4, <2>5 DEF OneAnswer
  <2>7. Flags'
    BY <1>1, <2>0 DEF Flags
  <2>8. StreamOfTurn'
    <3> DEFINE w == socks[ws]
    <3>1. IsOpen(ws)' => IsOpen(ws) /\ socks'[ws'] = w
      BY <1>1 DEF IsOpen
    <3>2. IsOpen(ws) => ~Asked(w) /\ ~Answered(w)
      BY <2>0, NotAsked
    <3>3. IsOpen(ws) => SentinelLast(w)
      BY <1>0 DEF StreamOfTurn, AskedOfTurn
    <3> HIDE DEF w
    <3> QED BY <1>1, <2>0, <3>1, <3>2, <3>3, QuietStream
  <2> QED BY <2>6, <2>7, <2>8 DEF Turned
<1> QED BY <1>2, <1>3, <1>4, <1>5

\* A stream that was sent one more item.
LEMMA OneMore ==
  ASSUME NEW v, NEW w, v.queue \in Seq(Chunkset), ~Asked(v), ~Answered(v), NEW x \in Chunkset, w.queue = v.queue \o <<x>>,
         w.heard = v.heard, w.out = v.out
  PROVE  /\ SentinelLast(w) /\ ~Answered(w) /\ (Asked(w) <=> x = Sentinel)
         /\ x # Sentinel => Content(w) = Content(v) \union {x}
         /\ x = Sentinel => Content(w) = Content(v)
<1>1. /\ Items(w.queue) = Items(v.queue) \union {x}
      /\ \A i \in DOMAIN w.queue : \/ i \in DOMAIN v.queue /\ w.queue[i] = v.queue[i]
                                   \/ i = Len(w.queue) /\ w.queue[i] = x
  BY ItemSent
<1>2. \A i \in DOMAIN v.queue : v.queue[i] # Sentinel
  BY DEF Asked, Items
<1>3. SentinelLast(w)
  BY <1>1, <1>2 DEF SentinelLast
<1>4. Sentinel \notin Items(v.queue)
  BY DEF Asked
<1> QED BY <1>1, <1>3, <1>4 DEF Asked, Answered, Content

\* A new stream that was sent a whole turn.
LEMMA WholeTurn ==
  ASSUME NEW t \in Turns, NEW w, w.heard = {}, w.out = <<>>, w.queue = <<>> \o <<<<t, 1>>, <<t, 2>>, Sentinel>>
  PROVE  SentinelLast(w) /\ Asked(w) /\ ~Answered(w) /\ Content(w) = Chunks(t)
<1> DEFINE a == <<t, 1>>
           b == <<t, 2>>
           q == <<a, b, Sentinel>>
<1>1. a # Sentinel /\ b # Sentinel
  BY Zero DEF Sentinel
<1>2. w.queue = q
  <2> HIDE DEF a, b
  <2>1. \A x, y, z : <<>> \o <<x, y, z>> = <<x, y, z>>
    OBVIOUS
  <2> QED BY <2>1 DEF a, b
<1> HIDE DEF a, b
<1>3. DOMAIN q = {1, 2, 3} /\ Len(q) = 3 /\ q[1] = a /\ q[2] = b /\ q[3] = Sentinel
  <2>1. DOMAIN q = 1 .. 3 /\ Len(q) = 3 /\ q[1] = a /\ q[2] = b /\ q[3] = Sentinel
    OBVIOUS
  <2>2. 1 .. 3 = {1, 2, 3}
    OBVIOUS
  <2> QED BY <2>1, <2>2
<1> HIDE DEF q
<1>4. Items(q) = {a, b, Sentinel}
  BY <1>3 DEF Items
<1>5. SentinelLast(w)
  BY <1>1, <1>2, <1>3 DEF SentinelLast
<1>6. Content(w) = {a, b}
  BY <1>1, <1>2, <1>4 DEF Content
<1> QED BY <1>2, <1>4, <1>5, <1>6 DEF Asked, Answered, Chunks, a, b

\* What is said grows by the chunk.
LEMMA SaidMore ==
  ASSUME RecognizerTypes, Speaks
  PROVE  Said' = Said \union {Chunk} /\ turn'.id = turn.id /\ turn'.part = turn.part + 1 /\ turn.part \in {0, 1}
<1>1. turn \in [id : 0 .. MaxTurns, part : 0 .. 2, typed : BOOLEAN] /\ turn.part \in {0, 1}
  BY DEF RecognizerTypes, Speaks
<1>2. turn'.id = turn.id /\ turn'.part = turn.part + 1
  BY <1>1 DEF Speaks
<1>3. 1 .. (turn.part + 1) = (1 .. turn.part) \union {turn.part + 1}
  BY <1>1
<1> QED BY <1>1, <1>2, <1>3 DEF Said, Chunk

\* A stream that was asked for the turn.
LEMMA AskedStream ==
  ASSUME NEW w, IsOpen(ws)' => socks'[ws'] = w, SentinelLast(w), ~Answered(w), Content(w) = Said', Owed',
         mode' # "batch", mode' = "chat" => task'[turn'.id] = "end", mode' = "sbpn" => task'[turn'.id] = "stream"
  PROVE  StreamOfTurn'
<1> SUFFICES ASSUME IsOpen(ws)' PROVE AskedOfTurn(socks[ws])' /\ HoldsTurn(socks[ws])'
  BY DEF StreamOfTurn
<1>1. AskedOfTurn(socks[ws])'
  BY DEF AskedOfTurn
<1>2. HoldsTurn(socks[ws])'
  BY DEF HoldsTurn, Owed
<1> QED BY <1>1, <1>2

\* What a spoken chunk leaves of the turn.
LEMMA SpokenTurn ==
  ASSUME RecognizerTypes, OneAnswer, Speaks, UNCHANGED <<phase, task, finals>>
  PROVE  OneAnswer' /\ phase = "speaking" /\ phase' = "speaking" /\ \A t \in Turns : task'[t] \notin Due
<1>1. turn'.id = turn.id /\ phase = "speaking"
  BY SaidMore DEF Speaks
<1>2. \A t \in Turns : task[t] \notin Due
  BY <1>1, IdleTurn
<1>3. OneAnswer'
  BY <1>1, <1>2 DEF OneAnswer
<1> QED BY <1>1, <1>2, <1>3

\* The chunk is added to a stream that holds what was said before.
LEMMA ChunkSent ==
  ASSUME Base, Turned, Speaks, IsOpen(ws), socks' = Sends(socks, ws, <<Chunk>>), UNCHANGED <<mode, phase, task, finals, ws>>
  PROVE  StreamOfTurn'
<1> DEFINE v == socks[ws]
           w == socks'[ws]
<1>0. RecognizerTypes /\ ws \in Sockets /\ v \in SocketSet /\ phase = "speaking" /\ turn.part < 2
  BY DEF Base, RecognizerTypes, IsOpen, Speaks
<1>1. Sent(socks, ws, <<Chunk>>, socks')
  BY <1>0, SendsDoes, ItemTypes DEF RecognizerTypes
<1>2. w.queue = v.queue \o <<Chunk>> /\ w.heard = v.heard /\ w.out = v.out
  BY <1>1 DEF Sent
<1>3. ~Asked(v) /\ ~Answered(v)
  BY <1>0, NotAsked
<1>4. v.queue \in Seq(Chunkset) /\ Chunk \in Chunkset /\ Chunk # Sentinel
  BY <1>0, ItemTypes DEF SocketSet
<1>7. HoldsTurn(v)
  BY DEF Turned, StreamOfTurn
<1> HIDE DEF v, w
<1>5. SentinelLast(w) /\ ~Asked(w) /\ ~Answered(w) /\ Content(w) = Content(v) \union {Chunk}
  BY <1>2, <1>3, <1>4, OneMore
<1>6. mode \in {"realtime", "sbpn"} => Content(w) = Said'
  BY <1>0, <1>5, <1>7, SaidMore DEF HoldsTurn
<1>8. socks'[ws'] = w
  BY DEF w
<1> QED BY <1>0, <1>5, <1>6, <1>8, QuietStream

LEMMA TurnedAppend ==
  ASSUME Base, Turned, Connect \/ AppendAudio \/ AppendSbpn
  PROVE  Turned'
<1>0. RecognizerTypes /\ OneAnswer /\ Flags /\ StreamOfTurn /\ Locked
  BY DEF Base, Turned
<1>1. UNCHANGED <<mode, phase, task, finals>>
  BY DEF Connect, AppendAudio, AppendSbpn
<1>2. CASE Connect
  <2>0. phase = "idle" /\ ws = 0 /\ UNCHANGED <<turn, sb>>
    BY <1>2 DEF Connect
  <2>1. PICK o \in Opens : ws' = o[1] /\ socks' = o[2] /\ o[1] # 0
    BY <1>2 DEF Connect
  <2>2. ~IsOpen(ws) /\ <<>> \in Seq(Chunkset)
    BY <2>0 DEF IsOpen
  <2>3. socks'[ws'].st = "open" /\ socks'[ws'].heard = {} /\ socks'[ws'].out = <<>> /\ socks'[ws'].queue = <<>>
    BY <1>0, <2>1, <2>2, OpenStream DEF Base
  <2>4. OneAnswer'
    BY <1>0, <1>1, <2>0 DEF OneAnswer, Owed
  <2>5. \A t \in Turns : task[t] \notin Due
    BY <1>0, <2>0, IdleTurn
  <2>6. Flags'
    BY <1>0, <1>1, <2>0, <2>5 DEF Flags, Reset, Due, Asking
  <2>7. \A t \in Turns : task'[t] # "begin"
    BY <1>1, <2>5 DEF Due, Asking
  <2>8. StreamOfTurn'
    BY <1>1, <2>0, <2>1, <2>3, <2>7, EmptyStream DEF IsOpen
  <2> QED BY <2>4, <2>6, <2>8 DEF Turned
<1>3. CASE AppendAudio
  <2>0. mode # "sbpn" /\ Speaks
    BY <1>3 DEF AppendAudio
  <2>1. OneAnswer'
    BY <1>0, <1>1, <2>0, SpokenTurn
  <2>2. Flags'
    BY <1>1, <2>0 DEF Flags
  <2>3. StreamOfTurn'
    <3>1. CASE IsOpen(ws) /\ socks' = Sends(socks, ws, <<Chunk>>) /\ UNCHANGED ws
      BY <1>1, <2>0, <3>1, ChunkSent
    <3>2. CASE ws' = 0 \/ (~IsOpen(ws) /\ UNCHANGED <<socks, ws>>)
      BY <3>2, Silent DEF IsOpen
    <3> QED BY <1>3, <3>1, <3>2 DEF AppendAudio
  <2> QED BY <2>1, <2>2, <2>3 DEF Turned
<1>4. CASE AppendSbpn
  <2>0. mode = "sbpn" /\ Speaks /\ phase = "speaking"
    BY <1>4 DEF AppendSbpn, Speaks
  <2>1. OneAnswer' /\ \A t \in Turns : task'[t] \notin Due
    BY <1>0, <1>1, <2>0, SpokenTurn
  <2>2. ~sb.pending /\ (turn.part = 0 => sb = Reset) /\ (turn.part > 0 => sb.streamed \/ sb.degraded) /\ (sb.degraded => ws = 0)
    BY <1>0, <2>0 DEF Flags
  <2>3. turn.part \in {0, 1} /\ turn'.part = turn.part + 1 /\ Said' = Said \union {Chunk}
    BY <1>0, <2>0, SaidMore
  <2>4. sb \in [pending : BOOLEAN, degraded : BOOLEAN, streamed : BOOLEAN]
    BY <1>0 DEF RecognizerTypes
  <2>5. \A t \in Turns : task'[t] # "request"
    BY <2>1 DEF Due, Asking
  <2>6. ASSUME ~sb'.pending, sb'.streamed \/ sb'.degraded, sb'.degraded => ws' = 0 PROVE Flags'
    BY <1>1, <2>0, <2>3, <2>5, <2>6 DEF Flags
  <2>7. CASE sb.degraded /\ UNCHANGED <<ws, socks, sb, recvTask>>
    <3>1. Flags'
      BY <2>2, <2>6, <2>7
    <3>2. StreamOfTurn'
      BY <2>2, <2>7, Silent DEF IsOpen
    <3> QED BY <2>1, <3>1, <3>2 DEF Turned
  <2>8. CASE /\ IsOpen(ws) /\ ~sb.degraded
             /\ socks' = Sends(socks, ws, <<Chunk>>) /\ sb' = [sb EXCEPT !.streamed = TRUE]
             /\ UNCHANGED <<ws, recvTask>>
    <3>1. ~sb'.pending /\ sb'.streamed /\ ~sb'.degraded
      BY <2>2, <2>4, <2>8
    <3>2. StreamOfTurn'
      BY <1>1, <2>0, <2>8, ChunkSent
    <3> QED BY <2>1, <2>6, <3>1, <3>2 DEF Turned
  <2>9. CASE /\ ~IsOpen(ws) /\ ~sb.streamed /\ ~sb.degraded /\ Unused # {}
             /\ ws' = Fresh /\ recvTask' = Fresh
             /\ socks' = Sends([socks EXCEPT ![Fresh] = Opened], Fresh, <<Chunk>>)
             /\ sb' = [sb EXCEPT !.streamed = TRUE]
    <3>1. ~sb'.pending /\ sb'.streamed /\ ~sb'.degraded
      BY <2>2, <2>4, <2>9
    <3>2. turn.part = 0 /\ Said = {}
      <4>1. turn.part = 0
        BY <2>2, <2>3, <2>9
      <4> QED BY <4>1 DEF Said
    <3> DEFINE w == socks'[ws']
    <3>3. w.queue = Opened.queue \o <<Chunk>> /\ w.heard = Opened.heard /\ w.out = Opened.out
      <4> DEFINE S == [socks EXCEPT ![Fresh] = Opened]
      <4>1. Fresh \in Sockets /\ <<Chunk>> \in Seq(Chunkset) /\ socks \in [Sockets -> SocketSet]
        BY <1>0, <2>9, <2>3, FreshIs, ItemTypes DEF RecognizerTypes
      <4>2. S \in [Sockets -> SocketSet] /\ S[Fresh] = Opened
        BY <4>1, OpenedIs
      <4>3. socks' = Sends(S, Fresh, <<Chunk>>) /\ ws' = Fresh
        BY <2>9
      <4> HIDE DEF S
      <4>4. Sent(S, Fresh, <<Chunk>>, socks')
        BY <4>1, <4>2, <4>3, SendsDoes
      <4> QED BY <4>2, <4>3, <4>4 DEF Sent
    <3>4. Chunk \in Chunkset /\ Chunk # Sentinel
      BY <1>0, <2>3, ItemTypes
    <3>5. Opened.queue \in Seq(Chunkset) /\ ~Asked(Opened) /\ ~Answered(Opened) /\ Content(Opened) = {}
      BY OpenedIs DEF SocketSet, Asked, Answered, Content, Items
    <3>6. socks'[ws'] = w
      OBVIOUS
    <3> HIDE DEF w
    <3>7. SentinelLast(w) /\ ~Asked(w) /\ ~Answered(w) /\ Content(w) = Content(Opened) \union {Chunk}
      BY <3>3, <3>4, <3>5, OneMore
    <3>8. Content(w) = Said'
      BY <2>3, <3>2, <3>5, <3>7
    <3>9. StreamOfTurn'
      BY <1>1, <2>0, <3>6, <3>7, <3>8, QuietStream
    <3> QED BY <2>1, <2>6, <3>1, <3>9 DEF Turned
  <2>10. CASE sb' = [sb EXCEPT !.degraded = TRUE] /\ ws' = 0
    <3>1. ~sb'.pending /\ sb'.degraded
      BY <2>2, <2>4, <2>10
    <3>2. StreamOfTurn'
      BY <2>10, Silent DEF IsOpen
    <3> QED BY <2>1, <2>6, <2>10, <3>1, <3>2 DEF Turned
  <2> QED BY <1>4, <2>2, <2>7, <2>8, <2>9, <2>10 DEF AppendSbpn
<1> QED BY <1>2, <1>3, <1>4

\* The sentinel is sent to a stream that holds the turn.
LEMMA SentinelSent ==
  ASSUME Base, Turned, IsOpen(ws), socks' = Sends(socks, ws, <<Sentinel>>), UNCHANGED <<turn, ws>>,
         mode \in {"realtime", "sbpn"}, phase = "speaking" \/ (\E t \in Turns : task[t] = "begin"),
         Owed', mode' = mode, mode = "sbpn" => task'[turn.id] = "stream"
  PROVE  StreamOfTurn'
<1> DEFINE v == socks[ws]
           w == socks'[ws]
<1>0. RecognizerTypes /\ ws \in Sockets /\ v \in SocketSet
  BY DEF Base, RecognizerTypes, IsOpen
<1>1. Sent(socks, ws, <<Sentinel>>, socks')
  BY <1>0, SendsDoes, ItemTypes DEF RecognizerTypes
<1>2. w.queue = v.queue \o <<Sentinel>> /\ w.heard = v.heard /\ w.out = v.out
  BY <1>1 DEF Sent
<1>3. ~Asked(v) /\ ~Answered(v)
  BY NotAsked
<1>4. v.queue \in Seq(Chunkset) /\ Sentinel \in Chunkset
  BY <1>0, ItemTypes DEF SocketSet
<1>5. Content(v) = Said
  BY DEF Turned, StreamOfTurn, HoldsTurn
<1>6. Said' = Said
  BY DEF Said
<1>7. socks'[ws'] = w
  OBVIOUS
<1> HIDE DEF v, w
<1>8. SentinelLast(w) /\ ~Answered(w) /\ Content(w) = Said'
  BY <1>2, <1>3, <1>4, <1>5, <1>6, OneMore
<1> QED BY <1>7, <1>8, AskedStream

LEMMA TurnedCommit ==
  ASSUME Base, Turned, CommitRealtime \/ CommitSbpn
  PROVE  Turned'
<1>0. RecognizerTypes /\ OneAnswer /\ Flags /\ StreamOfTurn /\ Locked
  BY DEF Base, Turned
<1>1. UNCHANGED <<mode, turn, finals>> /\ phase = "speaking" /\ phase' = "awaiting" /\ turn.part = 2
  BY DEF CommitRealtime, CommitSbpn, Commits
<1>2. turn.id \in Turns /\ finals[turn.id] = <<>> /\ \A t \in Turns : t > turn.id => t # turn.id
  BY <1>0, <1>1, RecognizerAssumption DEF OneAnswer, Turns
<1>3. Owed' /\ \A t \in Turns : task[t] \notin Due
  BY <1>0, <1>1, <1>2, IdleTurn DEF Owed
<1>4. CASE CommitRealtime
  <2>0. UNCHANGED task /\ mode = "realtime"
    BY <1>4 DEF CommitRealtime
  <2>1. OneAnswer'
    BY <1>0, <1>1, <1>2, <1>3, <2>0 DEF OneAnswer
  <2>2. Flags'
    BY <1>1, <2>0 DEF Flags
  <2>3. StreamOfTurn'
    <3>1. CASE IsOpen(ws) /\ socks' = Sends(socks, ws, <<Sentinel>>) /\ UNCHANGED ws
      BY <1>1, <1>3, <2>0, <3>1, SentinelSent
    <3>2. CASE ~IsOpen(ws)
      <4> DEFINE q == <<<<turn.id, 1>>, <<turn.id, 2>>, Sentinel>>
                 w == socks'[ws']
      <4>1. PICK o \in Opens : ws' = o[1] /\ socks' = IF o[1] = 0 THEN socks ELSE Sends(o[2], o[1], q)
        BY <1>4, <3>2 DEF CommitRealtime
      <4>2. q \in Seq(Chunkset)
        BY <1>0, ItemTypes DEF RecognizerTypes
      <4>3. CASE o[1] = 0
        BY <4>1, <4>3, Silent DEF IsOpen
      <4>4. CASE o[1] # 0
        <5>1. o[1] \in Sockets /\ o[2] \in [Sockets -> SocketSet] /\ o[2][o[1]] = Opened
          BY <1>0, <4>4, OpensDoes
        <5>2. Sent(o[2], o[1], q, socks')
          <6> HIDE DEF q
          <6> QED BY <4>1, <4>2, <4>4, <5>1, SendsDoes
        <5>3. w.queue = <<>> \o q /\ w.heard = {} /\ w.out = <<>>
          BY <4>1, <5>1, <5>2, OpenedIs DEF Sent
        <5>4. SentinelLast(w) /\ ~Answered(w) /\ Content(w) = Chunks(turn.id)
          BY <1>2, <5>3, WholeTurn
        <5>5. Said' = Chunks(turn.id)
          BY <1>1, SaidAll DEF Said
        <5>6. socks'[ws'] = w
          OBVIOUS
        <5> HIDE DEF w
        <5> QED BY <1>1, <1>3, <2>0, <5>4, <5>5, <5>6, AskedStream
      <4> QED BY <4>3, <4>4
    <3> QED BY <1>4, <3>1, <3>2 DEF CommitRealtime
  <2> QED BY <2>1, <2>2, <2>3 DEF Turned
<1>5. CASE CommitSbpn
  <2>0. mode = "sbpn" /\ ~sb.pending /\ (sb.degraded => ws = 0)
    BY <1>0, <1>1, <1>5 DEF CommitSbpn, Flags
  <2>1. /\ UNCHANGED <<socks, ws>> /\ sb' = [sb EXCEPT !.pending = TRUE]
        /\ task' = [t \in Turns |-> IF t = turn.id THEN "begin" ELSE task[t]]
    BY <1>5, <2>0 DEF CommitSbpn
  <2>2. sb'.degraded = sb.degraded
    BY <1>0, <2>1 DEF RecognizerTypes
  <2>3. OneAnswer'
    BY <1>0, <1>1, <1>2, <1>3, <2>1 DEF OneAnswer
  <2>4. Flags'
    BY <1>1, <1>3, <2>0, <2>1, <2>2 DEF Flags, Due, Asking
  <2>5. StreamOfTurn'
    <3> DEFINE w == socks[ws]
    <3>1. IsOpen(ws)' => IsOpen(ws) /\ socks'[ws'] = w
      BY <2>1 DEF IsOpen
    <3>2. IsOpen(ws) => ~Asked(w) /\ ~Answered(w)
      BY <1>1, NotAsked
    <3>3. IsOpen(ws) => SentinelLast(w) /\ Content(w) = Said
      BY <1>0, <1>1, <2>0 DEF StreamOfTurn, AskedOfTurn, HoldsTurn
    <3>4. Said' = Said
      BY <1>1 DEF Said
    <3> HIDE DEF w
    <3> QED BY <1>1, <3>1, <3>2, <3>3, <3>4, QuietStream
  <2> QED BY <2>3, <2>4, <2>5 DEF Turned
<1> QED BY <1>4, <1>5

\* A task that is owed the turn's transcript and goes on owing it.
LEMMA StillOwed ==
  ASSUME RecognizerTypes, OneAnswer, NEW t \in Turns, task[t] \in Due, NEW point \in Due \union {"end", "resume"},
         point \in {"none", "wait", "end"} \union Locking \union Asking,
         task' = [task EXCEPT ![t] = point], UNCHANGED <<phase, turn, finals>>
  PROVE  OneAnswer' /\ Owed' /\ t = turn.id
<1>1. t = turn.id /\ Owed
  BY DEF OneAnswer
<1>2. \A u \in Turns : task'[u] = IF u = t THEN point ELSE task[u]
  BY TaskTypes
<1>3. Owed' = Owed
  BY DEF Owed
<1>4. \A u \in Turns : u > turn.id => u # t
  BY <1>1, RecognizerAssumption DEF Turns
<1>5. phase # "speaking"
  BY <1>1 DEF Owed
<1>6. OneAnswer'
  BY <1>1, <1>2, <1>3, <1>4, <1>5 DEF OneAnswer
<1> QED BY <1>1, <1>3, <1>6

\* A task that delivers the turn's transcript.
LEMMA TaskDelivers ==
  ASSUME RecognizerTypes, OneAnswer, NEW t \in Turns, task[t] \in Due, NEW point \in {"end", "resume"},
         task' = [task EXCEPT ![t] = point], turn' = turn, Delivers(Chunks(t))
  PROVE  OneAnswer' /\ phase' \in {"idle", "recovering"} /\ \A u \in Turns : task'[u] \notin Due
<1>1. t = turn.id /\ Owed
  BY DEF OneAnswer
<1>2. \A u \in Turns : task'[u] = IF u = t THEN point ELSE task[u]
  BY TaskTypes DEF Locking
<1>3. \A u \in Turns : u > turn.id => u # t
  BY <1>1, RecognizerAssumption DEF Turns
<1>4. \A u \in Turns : task'[u] \notin Due /\ (u > turn.id => task'[u] = "none")
  BY <1>1, <1>2, <1>3 DEF OneAnswer, Due, Asking
<1> QED BY <1>1, <1>4, DeliversAnswer

LEMMA TurnedRequest ==
  ASSUME Base, Turned, NEW t \in Turns, Locks(t) \/ Quiesced(t) \/ Transcribed(t) \/ NotTranscribed(t) \/ Resumes(t)
  PROVE  Turned'
<1>0. RecognizerTypes /\ OneAnswer /\ Flags /\ StreamOfTurn /\ Locked
  BY DEF Base, Turned
<1>1. UNCHANGED <<mode, turn, sb>> /\ task[t] \in Locking \union {"wait"}
  BY DEF Locks, Quiesced, Transcribed, NotTranscribed, Resumes, At, Locking
<1>2. mode \in {"batch", "chat"}
  BY <1>0, <1>1 DEF Locked
<1>3. Flags'
  BY <1>1, <1>2 DEF Flags
<1>4. CASE Locks(t) \/ Quiesced(t) \/ NotTranscribed(t)
  <2>1. \E point \in {"quiesce", "post", "fallback", "resume"} : task' = [task EXCEPT ![t] = point]
    BY <1>4 DEF Locks, Quiesced, NotTranscribed
  <2>2. UNCHANGED <<phase, finals>> /\ task[t] \in Due
    BY <1>4 DEF Locks, Quiesced, NotTranscribed, At, Due
  <2>3. OneAnswer'
    BY <1>0, <1>1, <2>1, <2>2, StillOwed DEF Due, Locking
  <2>4. ws' = 0
    <3>1. CASE Locks(t)
      BY <3>1 DEF Locks
    <3>2. CASE Quiesced(t) \/ NotTranscribed(t)
      BY <1>0, <3>2, Zero DEF Quiesced, NotTranscribed, At, Locked, Locking
    <3> QED BY <1>4, <3>1, <3>2
  <2>5. StreamOfTurn'
    BY <2>4, Silent DEF IsOpen
  <2> QED BY <1>3, <2>3, <2>5 DEF Turned
<1>5. CASE Transcribed(t)
  <2>1. task' = [task EXCEPT ![t] = "resume"] /\ Delivers(Chunks(t)) /\ ws' = ws /\ task[t] = "post"
    BY <1>5 DEF Transcribed, At
  <2>2. task[t] \in Due /\ ws = 0
    BY <1>0, <2>1, Zero DEF Due, Locked, Locking
  <2>3. OneAnswer'
    BY <1>0, <1>1, <2>1, <2>2, TaskDelivers
  <2>4. StreamOfTurn'
    BY <2>1, <2>2, Silent DEF IsOpen
  <2> QED BY <1>3, <2>3, <2>4 DEF Turned
<1>6. CASE Resumes(t)
  <2> DEFINE q == <<<<t, 1>>, <<t, 2>>, Sentinel>>
             w == socks'[ws']
  <2>0. UNCHANGED <<phase, finals>> /\ task' = [task EXCEPT ![t] = "end"] /\ task[t] \in {"resume", "fallback"}
    BY <1>6 DEF Resumes
  <2>1. PICK o \in Opens : /\ ws' = o[1]
                           /\ socks' = (IF At(t, "fallback") /\ o[1] # 0 THEN Sends(o[2], o[1], q) ELSE o[2])
    BY <1>6 DEF Resumes
  <2>2. \A u \in Turns : task'[u] = IF u = t THEN "end" ELSE task[u]
    BY <1>0, <2>0, TaskTypes
  <2>3. q \in Seq(Chunkset)
    BY <1>0, ItemTypes, Zero
  <2>4. ~IsOpen(ws)
    BY <1>0, <2>0, Zero DEF Locked, Locking, IsOpen
  <2>5. CASE o[1] = 0 \/ task[t] = "resume"
    <3>1. OneAnswer'
      <4>1. "end" \notin Due /\ Owed' = Owed
        BY <1>1, <2>0 DEF Due, Asking, Owed
      <4> QED BY <1>0, <1>1, <2>0, <2>2, <4>1 DEF OneAnswer
    <3>2. StreamOfTurn'
      <4>1. CASE o[1] = 0
        BY <2>1, <4>1, Silent DEF IsOpen
      <4>2. CASE o[1] # 0 /\ task[t] = "resume"
        <5>1. socks' = o[2] /\ o[1] # 0
          BY <2>1, <4>2 DEF At
        <5>2. w.st = "open" /\ w.heard = {} /\ w.out = <<>> /\ w.queue = <<>>
          <6> HIDE DEF q
          <6> QED BY <1>0, <2>1, <2>3, <2>4, <5>1, OpenStream DEF Base
        <5> QED BY <1>1, <1>2, <2>1, <5>1, <5>2, EmptyStream DEF IsOpen
      <4> QED BY <2>5, <4>1, <4>2
    <3> QED BY <1>3, <3>1, <3>2 DEF Turned
  <2>6. CASE o[1] # 0 /\ task[t] = "fallback"
    <3>1. task[t] \in Due /\ mode = "chat"
      BY <1>0, <2>6 DEF Due, Locked
    <3>2. OneAnswer' /\ Owed' /\ t = turn.id
      BY <1>0, <1>1, <2>0, <3>1, StillOwed
    <3>3. o[1] \in Sockets /\ o[2] \in [Sockets -> SocketSet] /\ o[2][o[1]] = Opened
      BY <1>0, <2>6, OpensDoes
    <3>4. Sent(o[2], o[1], q, socks')
      <4>1. socks' = Sends(o[2], o[1], q)
        BY <2>1, <2>6 DEF At
      <4> HIDE DEF q
      <4> QED BY <2>3, <3>3, <4>1, SendsDoes
    <3>5. w.queue = <<>> \o q /\ w.heard = {} /\ w.out = <<>>
      BY <2>1, <3>3, <3>4, OpenedIs DEF Sent
    <3>6. SentinelLast(w) /\ ~Answered(w) /\ Content(w) = Chunks(t)
      BY <3>5, WholeTurn
    <3>7. Said' = Chunks(t)
      BY <1>1, <3>2, SaidAll DEF Said, Owed
    <3>8. socks'[ws'] = w /\ task'[turn'.id] = "end"
      BY <1>1, <2>2, <3>2
    <3> HIDE DEF w
    <3>9. StreamOfTurn'
      BY <1>1, <3>1, <3>2, <3>6, <3>7, <3>8, AskedStream
    <3> QED BY <1>3, <3>2, <3>9 DEF Turned
  <2> QED BY <2>0, <2>5, <2>6
<1> QED BY <1>4, <1>5, <1>6

LEMMA TurnedSbpn ==
  ASSUME Base, Turned, NEW t \in Turns, Finalizes(t) \/ StreamFails(t) \/ RequestAnswered(t) \/ RequestFails(t)
  PROVE  Turned'
<1>0. RecognizerTypes /\ OneAnswer /\ Flags /\ StreamOfTurn /\ Locked
  BY DEF Base, Turned
<1>1. UNCHANGED <<mode, turn>> /\ task[t] \in Asking /\ task[t] \in Due
  BY DEF Finalizes, StreamFails, RequestAnswered, RequestFails, At, Asking, Due
<1>2. mode = "sbpn" /\ t = turn.id /\ Owed /\ phase \notin {"idle", "speaking"}
  BY <1>0, <1>1 DEF Locked, OneAnswer, Owed
<1>3. CASE Finalizes(t) \/ StreamFails(t)
  <2>0. UNCHANGED <<phase, sb, finals>>
    BY <1>3 DEF Finalizes, StreamFails
  <2>1. CASE ws' = 0 /\ task' = [task EXCEPT ![t] = "request"]
    <3>1. OneAnswer'
      BY <1>0, <1>1, <2>0, <2>1, StillOwed DEF Due, Asking
    <3>2. Flags'
      BY <1>1, <1>2, <2>0, <2>1 DEF Flags
    <3> QED BY <2>1, <3>1, <3>2, Silent DEF Turned, IsOpen
  <2>2. CASE /\ Finalizes(t) /\ IsOpen(ws) /\ ~sb.degraded /\ socks' = Sends(socks, ws, <<Sentinel>>) /\ UNCHANGED ws
             /\ task' = [task EXCEPT ![t] = "stream"]
    <3>1. OneAnswer' /\ Owed'
      BY <1>0, <1>1, <2>0, <2>2, StillOwed DEF Due, Asking
    <3>2. \A u \in Turns : task'[u] = IF u = t THEN "stream" ELSE task[u]
      BY <1>0, <2>2, TaskTypes DEF Asking
    <3>3. Flags'
      BY <1>0, <1>1, <1>2, <2>0, <2>2, <3>2 DEF Flags
    <3>4. StreamOfTurn'
      <4>1. task[t] = "begin"
        BY <2>2 DEF Finalizes, At
      <4> QED BY <1>1, <1>2, <2>2, <3>1, <3>2, <4>1, SentinelSent
    <3> QED BY <3>1, <3>3, <3>4 DEF Turned
  <2> QED BY <1>3, <2>1, <2>2 DEF Finalizes, StreamFails
<1>4. CASE RequestAnswered(t) \/ RequestFails(t)
  <2>0. UNCHANGED <<ws, socks>> /\ sb' = Reset /\ task' = [task EXCEPT ![t] = "end"] /\ task[t] = "request"
    BY <1>4 DEF RequestAnswered, RequestFails, At
  <2>1. ws = 0
    BY <1>0, <1>2, <2>0 DEF Flags
  <2>2. StreamOfTurn'
    BY <2>0, <2>1, Silent DEF IsOpen
  <2>3. CASE RequestAnswered(t)
    <3>1. OneAnswer' /\ phase' \in {"idle", "recovering"}
      BY <1>0, <1>1, <2>0, <2>3, TaskDelivers DEF RequestAnswered
    <3>2. Flags'
      BY <1>1, <2>0, <2>1, <3>1 DEF Flags, Reset
    <3> QED BY <2>2, <3>1, <3>2 DEF Turned
  <2>4. CASE RequestFails(t)
    <3>0. UNCHANGED finals /\ phase' = "recovering"
      BY <1>2, <2>4 DEF RequestFails, Owed
    <3>1. \A u \in Turns : task'[u] = IF u = t THEN "end" ELSE task[u]
      BY <1>0, <2>0, TaskTypes
    <3>2. \A u \in Turns : (u > turn.id => u # t) /\ task'[u] \notin Due
      BY <1>0, <1>2, <3>1, RecognizerAssumption DEF OneAnswer, Turns, Due, Asking
    <3>3. OneAnswer'
      BY <1>0, <1>1, <1>2, <3>0, <3>1, <3>2 DEF OneAnswer, Owed
    <3>4. Flags'
      BY <1>1, <2>0, <2>1, <3>0 DEF Flags, Reset
    <3> QED BY <2>2, <3>3, <3>4 DEF Turned
  <2> QED BY <1>4, <2>3, <2>4
<1> QED BY <1>3, <1>4

LEMMA TurnedRecovers ==
  ASSUME Base, Turned, Recovers
  PROVE  Turned'
<1>0. RecognizerTypes /\ OneAnswer /\ Flags /\ StreamOfTurn /\ Locked
  BY DEF Base, Turned
<1>1. CASE RecoverLocks
  <2>0. UNCHANGED <<mode, phase, turn, task, force, sb, finals>> /\ ws' = 0
    BY <1>1 DEF RecoverLocks
  <2>1. OneAnswer' /\ Flags'
    BY <1>0, <2>0, SameTurn
  <2> QED BY <2>0, <2>1, Silent DEF Turned, IsOpen
<1>2. CASE Recovered
  <2>0. UNCHANGED <<mode, turn, task, force, sb, finals>> /\ lock = Recovery /\ phase' = "idle"
    BY <1>2 DEF Recovered
  <2>1. PICK o \in Opens : ws' = o[1] /\ socks' = o[2]
    BY <1>2 DEF Recovered
  <2>2. (\A t \in Turns : task[t] \notin Due) /\ mode # "sbpn" /\ ~IsOpen(ws)
    BY <1>0, <2>0, Zero DEF Locked, IsOpen
  <2>3. OneAnswer'
    BY <1>0, <2>0, <2>2 DEF OneAnswer
  <2>4. Flags'
    BY <2>0, <2>2 DEF Flags
  <2>5. StreamOfTurn'
    <3>1. CASE o[1] = 0
      BY <2>1, <3>1, Silent DEF IsOpen
    <3>2. CASE o[1] # 0
      <4>1. <<>> \in Seq(Chunkset)
        OBVIOUS
      <4>2. socks'[ws'].st = "open" /\ socks'[ws'].heard = {} /\ socks'[ws'].out = <<>> /\ socks'[ws'].queue = <<>>
        BY <1>0, <2>1, <2>2, <3>2, <4>1, OpenStream DEF Base
      <4>3. \A t \in Turns : task'[t] # "begin"
        BY <2>0, <2>2 DEF Due, Asking
      <4> QED BY <2>0, <2>1, <3>2, <4>2, <4>3, EmptyStream DEF IsOpen
    <3> QED BY <3>1, <3>2
  <2> QED BY <2>3, <2>4, <2>5 DEF Turned
<1>3. CASE RecoverSbpn
  <2>0. /\ UNCHANGED <<mode, turn, finals>> /\ ws' = 0 /\ sb' = Reset /\ phase' = "idle"
        /\ task' = [t \in Turns |-> IF task[t] = "none" THEN "none" ELSE "end"]
    BY <1>3 DEF RecoverSbpn
  <2>1. OneAnswer'
    BY <1>0, <2>0 DEF OneAnswer, Due, Asking
  <2>2. Flags'
    BY <2>0 DEF Flags
  <2> QED BY <2>0, <2>1, <2>2, Silent DEF Turned, IsOpen
<1> QED BY <1>1, <1>2, <1>3 DEF Recovers

\* Init establishes the invariant.
LEMMA RecognizerInvInit == Init => RecognizerInv
<1> SUFFICES ASSUME Init PROVE RecognizerInv
  OBVIOUS
<1>1. Base
  BY BaseInit
<1>2. OneAnswer
  BY Zero DEF Init, OneAnswer, Due, Asking
<1>3. StreamOfTurn
  BY DEF Init, StreamOfTurn, IsOpen
<1>4. Flags
  BY DEF Init, Flags, Reset
<1> QED BY <1>1, <1>2, <1>3, <1>4 DEF RecognizerInv, FinalInv, Base

\* Every step keeps it: typed text excepts the rest of the call.
LEMMA RecognizerInvNext == RecognizerInv /\ [Next]_vars => RecognizerInv'
<1> SUFFICES ASSUME RecognizerInv, [Next]_vars PROVE RecognizerInv'
  OBVIOUS
<1>1. Base /\ Base'
  BY BaseNext DEF RecognizerInv, Base
<1>2. ASSUME ~turn'.typed PROVE Turned'
  <2>1. ~turn.typed /\ ~Types
    <3>1. turn \in [id : 0 .. MaxTurns, part : 0 .. 2, typed : BOOLEAN]
      BY <1>1 DEF Base, RecognizerTypes
    <3>2. ~Types
      BY <1>2, <3>1 DEF Types
    <3>3. turn'.typed = turn.typed
      <4>1. CASE TurnStarts
        BY <4>1 DEF TurnStarts
      <4>2. CASE Speaks
        BY <3>1, <4>2 DEF Speaks
      <4>3. CASE UNCHANGED turn
        BY <4>3
      <4>4. TurnStarts \/ Speaks \/ UNCHANGED turn
        BY <3>2 DEF Next, vars, Connect, AppendAudio, AppendSbpn, CommitTask, CommitRealtime, CommitSbpn, FinalTimeout, FalseStart,
          Recovers, RecoverLocks, Recovered, RecoverSbpn, Server, Receiver, EngineFails, Drops, Consumes, SendsDone, GenerationEnds,
          DoneRead, DoneSbpn, ReceiverEnds, Final, Locks, Quiesced, Transcribed, NotTranscribed, Resumes, Finalizes, StreamFails,
          RequestAnswered, RequestFails
      <4> QED BY <4>1, <4>2, <4>3, <4>4
    <3> QED BY <1>2, <3>2, <3>3
  <2>2. Turned
    BY <2>1 DEF RecognizerInv, FinalInv, Turned
  <2>3. CASE UNCHANGED vars
    <3>1. OneAnswer' /\ Flags'
      BY <2>2, <2>3, SameTurn DEF vars, Turned
    <3>2. StreamOfTurn'
      BY <2>2, <2>3, SameStream DEF vars, Turned, IsOpen
    <3> QED BY <3>1, <3>2 DEF Turned
  <2>4. ASSUME NEW s \in Sockets, Server(s) \/ Receiver(s) \/ EngineFails(s) \/ Drops(s) PROVE Turned'
    BY <1>1, <2>2, <2>4, TurnedServer, TurnedReceiver DEF Server, Receiver
  <2>5. ASSUME NEW t \in Turns, Final(t) PROVE Turned'
    BY <1>1, <2>2, <2>5, TurnedRequest, TurnedSbpn DEF Final
  <2> QED BY <1>1, <2>1, <2>2, <2>3, <2>4, <2>5, TurnedCaller, TurnedAppend, TurnedCommit, TurnedRecovers DEF Next
<1> QED BY <1>1, <1>2 DEF RecognizerInv, FinalInv, Base, Turned

\* RecognizerInv holds in every reachable state.
THEOREM RecognizerInvariance == Spec => []RecognizerInv
  BY RecognizerInvInit, RecognizerInvNext, PTL DEF Spec

\* Unless the caller typed while a transcript was due, a turn gets at most one
\* transcript, of its own two chunks, in every mode: the stream, the batch or
\* chat request and the fallback never both answer, and what a stream was sent
\* of another turn is never part of it.
THEOREM FinalIsTurnHolds == Spec => []FinalIsTurn
<1>1. RecognizerInv => FinalIsTurn
  <2> SUFFICES ASSUME RecognizerInv, ~turn.typed, NEW t \in Turns
               PROVE  Len(finals[t]) <= 1 /\ \A i \in DOMAIN finals[t] : finals[t][i] = Chunks(t)
    BY DEF FinalIsTurn
  <2>1. finals[t] \in {<<>>, <<Chunks(t)>>}
    BY DEF RecognizerInv, FinalInv, OneAnswer
  <2>2. \A x : Len(<<x>>) = 1 /\ DOMAIN <<x>> = {1} /\ <<x>>[1] = x
    OBVIOUS
  <2>3. Len(<<>>) = 0 /\ DOMAIN <<>> = {}
    OBVIOUS
  <2>4. 0 <= 1 /\ 1 <= 1
    OBVIOUS
  <2>5. CASE finals[t] = <<>>
    BY <2>3, <2>4, <2>5, Zenon
  <2>6. CASE finals[t] = <<Chunks(t)>>
    <3> DEFINE x == Chunks(t)
    <3>1. finals[t] = <<x>>
      BY <2>6
    <3> HIDE DEF x
    <3>2. Len(finals[t]) <= 1 /\ \A i \in DOMAIN finals[t] : finals[t][i] = x
      BY <2>2, <2>4, <3>1, Zenon
    <3> QED BY <3>2 DEF x
  <2> QED BY <2>1, <2>5, <2>6, Zenon
<1> QED BY <1>1, RecognizerInvariance, PTL

----------------------------------------------------------------------------
(* The call job: the state of its parts.                                     *)

Ops == {<<"start">>} \union {Words[i] : i \in DOMAIN Words}
Statuses == {"disabled", "processing", "failed", "available"}
WorkerSet == [op : Ops \union {<<>>}, at : {"idle", "dead", "resolve", "open", "event", "lock", "post"}, attempt : {1, 2}]
RecSet == [at : {"none", "starting", "publish", "done"}, status : Statuses, egress : BOOLEAN, reconcile : BOOLEAN, dirty : BOOLEAN]
UsageSet == [at : {"off", "sleep", "flush", "final", "second", "closed"}, revision : Nat, last : Int, sent : Nat]
SrvSet == [session : {"none", "open", "ended"}, messages : Seq(Ops), status : Statuses \union {"none"},
           reconcile : BOOLEAN, egress : {"none", "running", "stopped"}, usage : Int]
TransferSet == [at : {"no", "mark", "post", "event", "dial", "remove", "release", "over"}, mark : {1, 2}, late : Nat]

\* The types of the records and of the queue; every phase of the cleanup.
JobTypes ==
  /\ conf \in Confs /\ pending \in Seq(Ops) /\ worker \in WorkerSet /\ rec \in RecSet
  /\ usage \in UsageSet /\ srv \in SrvSet /\ transfer \in TransferSet
  /\ session \in BOOLEAN /\ ended \in BOOLEAN /\ pipeline \in BOOLEAN
  /\ stop \in {"none", "asked", "done"}
  /\ spoken \in 0..conf.words

Before == {"connect", "caller", "claim", "outbound", "load", "publish", "init"}
Ending == {"store", "usage", "finish", "done"}

Starting == \E i \in DOMAIN pending : pending[i] = <<"start">>

\* Until the pipeline is started nothing is queued, opened, said or transferred.
Building ==
  /\ pc \in Before \/ ~pipeline =>
       pending = <<>> /\ worker.at = "idle" /\ ~session /\ transfer.at = "no" /\ leg = "none" /\ spoken = 0
  /\ pc \in Before => slot # "freed" /\ srv.messages = <<>>
  /\ pc \in {"init", "start", "talk"} => pipeline

\* The session is opened once, by the first operation of the queue, and the
\* recording with it; usage is reported by then.
Opening ==
  /\ \A i \in DOMAIN pending : pending[i] = <<"start">> => i = 1
  /\ Starting => worker.at = "idle"
  /\ Starting \/ worker.at \in {"resolve", "open"} => ~session
  /\ worker.at \in {"resolve", "open"} \/ session => conf.service
  /\ conf.service /\ (Starting \/ worker.at \in {"resolve", "open"} \/ session) => usage.at # "off"
  /\ session <=> rec.at # "none"
  /\ srv.session = "open" => session \/ "session" \in lost

\* What the phases of close know.
Closing ==
  /\ closing # "no" => pc \in Ending /\ ended
  /\ closing \notin {"no", "closed"} => pc = "store"
  /\ pc \in {"finish", "done"} => closing = "closed" \/ ~pipeline
  /\ pc = "usage" => closing = "closed"
  /\ closing \notin {"no", "drain"} => pending = <<>> /\ worker.at \in {"idle", "dead"}
  /\ closing \notin {"no", "drain", "recording"} => rec.at \in {"none", "done"}
  /\ closing \in {"flag", "stop", "finalize", "final", "dirty", "again", "end"} => session
  /\ closing = "closed" /\ session => srv.session # "open" \/ "session" \in lost
  /\ srv.session = "ended" => closing = "closed"

\* An egress that runs is known and not yet stopped, or its answer was lost.
Egress ==
  /\ srv.egress = "running" => "egress" \in lost \/ (rec.egress /\ stop # "done")
  /\ rec.egress => rec.at \in {"publish", "done"}
  /\ stop # "none" => rec.egress
  /\ rec.egress /\ ended => stop # "none"
  /\ closing \in {"finalize", "final", "dirty", "again", "end", "closed"} => stop # "asked"

\* The recording status at the service is the last one, or is known to differ.
Status ==
  rec.at = "done" /\ closing \notin {"flag", "final"} => (srv.status = rec.status /\ srv.reconcile = rec.reconcile) \/ rec.dirty

\* Usage reports have rising revisions, and the last is sent by the close.
Billing ==
  /\ usage.at \in {"final", "second", "closed"} <=> (pc = "usage" \/ (pc \in {"finish", "done"} /\ closing = "closed"))
  /\ pc \in {"finish", "done"} /\ closing = "closed" => usage.at = "closed"
  /\ usage.at \in {"off", "sleep", "flush"} => usage.sent <= usage.revision /\ srv.usage <= usage.revision
  /\ usage.at \in {"final", "second"} => usage.sent = usage.revision + 1 /\ srv.usage <= usage.revision + 1
  /\ usage.at = "closed" /\ session => srv.usage = usage.revision + 1 \/ "usage" \in lost

\* The colleague's leg rings only while the transfer dials or takes it back.
Leg == leg = "out" => transfer.at \in {"dial", "remove"} \/ "leg" \in lost

\* A snapshot begins before the store is closed: only the two requests of the one
\* that was under way can come after the session's end.
Overdue ==
  /\ srv.session # "ended" \/ transfer.at = "post" => transfer.late = 0
  /\ transfer.at = "event" => transfer.late <= 1
  /\ transfer.late <= 2

\* Whose the reservation is in every phase, and that a heartbeat has one.
Lease ==
  /\ Browser => resv = "none" /\ beat = "none" /\ pc \notin {"caller", "claim", "outbound", "publish", "beat", "release", "tasks"}
  /\ pc \in Before => resv # "cleared"
  /\ pc \in {"connect", "caller"} => resv = "none"
  /\ resv \in {"none", "ours", "cleared"}
  /\ resv = "cleared" => halt /\ (slot = "freed" \/ "slot" \in lost \/ transfer.at = "release")
  /\ transfer.at = "release" => resv = "cleared"
  /\ resv = "ours" /\ pc \notin Trying \union {"beat", "release"} => slot = "freed" \/ "slot" \in lost
  /\ beat \in {"sleep", "flight"} => halt \/ (resv = "ours" /\ slot # "freed")
  /\ pc \notin Trying \union {"beat"} => beat \in {"none", "over"}

\* A claimed call is finished.
Claimed == pc = "done" /\ claim => call \in {"failed", "completed"} \/ "outbound" \in lost

CallInv == Building /\ Opening /\ Closing /\ Egress /\ Status /\ Billing /\ Leg /\ Overdue /\ Lease /\ Claimed

\* The order of the transcript: what is written was said before what is being
\* written, and that before what is queued.
Earlier(x, y) == \E a, b \in DOMAIN Words : a < b /\ Words[a] = x /\ Words[b] = y
Uttered(x, n) == \E a \in DOMAIN Words : a <= n /\ x = Words[a]
Writing == worker.at \in {"lock", "post"}
Written ==
  /\ \A i \in DOMAIN pending : pending[i] # <<"start">> => Uttered(pending[i], spoken)
  /\ Writing => Uttered(worker.op, spoken)
  /\ \A i, j \in DOMAIN pending : i < j /\ pending[i] # <<"start">> => Earlier(pending[i], pending[j])
  /\ Writing => \A i \in DOMAIN pending : Earlier(worker.op, pending[i])
  /\ \A k \in DOMAIN srv.messages : Uttered(srv.messages[k], spoken)
  /\ Writing => \A k \in DOMAIN srv.messages : srv.messages[k] = worker.op \/ Earlier(srv.messages[k], worker.op)
  /\ \A k \in DOMAIN srv.messages, i \in DOMAIN pending : Earlier(srv.messages[k], pending[i])
  /\ \A i, j \in DOMAIN srv.messages : i < j => Earlier(srv.messages[i], srv.messages[j])

\* What a write queue holds after an operation was taken from it or added.
LEMMA Tailed ==
  ASSUME NEW S, NEW s \in Seq(S), s # <<>>
  PROVE  /\ Tail(s) \in Seq(S) /\ Head(s) \in S /\ Head(s) = s[1]
         /\ \A i \in DOMAIN Tail(s) : i + 1 \in DOMAIN s /\ Tail(s)[i] = s[i + 1] /\ i + 1 # 1 /\ i >= 1
  OBVIOUS

LEMMA Added ==
  ASSUME NEW S, NEW s \in Seq(S), NEW x \in S
  PROVE  /\ Append(s, x) \in Seq(S)
         /\ \A i \in DOMAIN Append(s, x) :
              \/ i \in DOMAIN s /\ Append(s, x)[i] = s[i]
              \/ i = Len(s) + 1 /\ i \notin DOMAIN s /\ Append(s, x)[i] = x
         /\ \A i \in DOMAIN s : i \in DOMAIN Append(s, x) /\ Append(s, x)[i] = s[i]
  OBVIOUS

\* Every word is an operation of the queue and none is its first.
LEMMA WordsAre ==
  /\ DOMAIN Words = {1, 2, 3} /\ Len(Words) = 3
  /\ \A i \in DOMAIN Words : Words[i] \in Ops /\ Words[i] # <<"start">>
  BY DEF Words, Ops

LEMMA WordIs ==
  ASSUME JobTypes, spoken < conf.words
  PROVE  /\ spoken + 1 \in DOMAIN Words /\ spoken + 1 \in 0..conf.words
         /\ Words[spoken + 1] \in Ops /\ Words[spoken + 1] # <<"start">>
         /\ Words[spoken + 1][1] = "assistant" => spoken = 1
  <1>1. conf \in Confs /\ conf.words \in 0..3 /\ spoken \in 0..conf.words
    BY JobAssumption, WordsAre DEF JobTypes
  <1>2. spoken + 1 \in {1, 2, 3}
    BY <1>1
  <1> QED BY <1>1, <1>2, WordsAre DEF Words

\* What _spawn and the queue's worker do to the queue.
LEMMA Spawned ==
  ASSUME JobTypes, NEW op \in Ops, Spawn(op)
  PROVE  /\ pending' \in Seq(Ops)
         /\ \A i \in DOMAIN pending' :
              \/ i \in DOMAIN pending /\ pending'[i] = pending[i]
              \/ i = Len(pending) + 1 /\ i \notin DOMAIN pending /\ pending'[i] = op
         /\ \A i \in DOMAIN pending : i \in DOMAIN pending' /\ pending'[i] = pending[i]
         /\ closing # "no" => pending' = pending
  BY Added DEF Spawn, JobTypes

LEMMA Taken ==
  ASSUME JobTypes, Takes
  PROVE  /\ pending' \in Seq(Ops) /\ Head(pending) \in Ops /\ Head(pending) = pending[1]
         /\ \A i \in DOMAIN pending' : i + 1 \in DOMAIN pending /\ pending'[i] = pending[i + 1] /\ i + 1 # 1 /\ i >= 1
         /\ 1 \in DOMAIN pending
  <1>1. pending \in Seq(Ops) /\ pending # <<>> /\ pending' = Tail(pending)
    BY DEF JobTypes, Takes
  <1>2. 1 \in DOMAIN pending
    BY <1>1
  <1> QED BY <1>1, <1>2, Tailed

\* What a snapshot counts, and what follows it.
LEMMA Counted ==
  ASSUME JobTypes, NEW done \in BOOLEAN
  PROVE  /\ TakenLate(done) \in Nat /\ TakenLate(done) \in {transfer.late, transfer.late + 1}
         /\ srv.session # "ended" => TakenLate(done) = transfer.late
  <1>1. transfer.late \in Nat
    BY DEF JobTypes, TransferSet
  <1> QED BY <1>1 DEF TakenLate

LEMMA Followed ==
  ASSUME JobTypes, NEW n \in Nat, Follows(n)
  PROVE  /\ transfer' \in TransferSet /\ transfer'.late = n
         /\ \/ transfer'.at = "dial" /\ leg' = "out" /\ UNCHANGED <<resv, halt>>
            \/ /\ transfer'.at \in {"release", "over"} /\ leg' = leg
               /\ transfer'.at = "release" <=> leg = "up" /\ resv = "ours"
               /\ leg = "up" => ReleaseSlot
               /\ leg # "up" => UNCHANGED <<resv, halt>>
  <1>1. transfer \in TransferSet
    BY DEF JobTypes
  <1>2. \A at \in {"dial", "release", "over"} :
          LET t == [transfer EXCEPT !.at = at, !.late = n] IN t \in TransferSet /\ t.at = at /\ t.late = n
    BY <1>1 DEF TransferSet
  <1>3. CASE transfer.mark = 1 BY <1>2, <1>3 DEF Follows
  <1>4. CASE transfer.mark # 1 /\ leg = "up" /\ resv = "ours" BY <1>2, <1>4 DEF Follows
  <1>5. CASE transfer.mark # 1 /\ leg = "up" /\ resv # "ours" BY <1>2, <1>5 DEF Follows
  <1>6. CASE transfer.mark # 1 /\ leg # "up" BY <1>2, <1>6 DEF Follows
  <1> QED BY <1>3, <1>4, <1>5, <1>6

LEMMA Analysed ==
  ASSUME JobTypes, AnalysisPosted
  PROVE  /\ transfer' \in TransferSet /\ transfer'.at = "event"
         /\ transfer'.late \in {transfer.late, transfer.late + 1}
         /\ srv.session # "ended" => transfer'.late = transfer.late
  <1>1. PICK done \in BOOLEAN : transfer' = [transfer EXCEPT !.at = "event", !.late = TakenLate(done)]
    BY DEF AnalysisPosted, Takeable
  <1>2. \A n \in Nat :
          LET t == [transfer EXCEPT !.at = "event", !.late = n] IN t \in TransferSet /\ t.at = "event" /\ t.late = n
    BY DEF JobTypes, TransferSet
  <1> QED BY <1>1, <1>2, Counted

----------------------------------------------------------------------------
(* The steps of the job and CallInv                                         *)

LEMMA SetupKept ==
  ASSUME JobTypes, CallInv, Setup
  PROVE  CallInv'
  <1> USE DEF JobTypes, CallInv, Building, Opening, Closing, Egress, Status, Billing, Leg, Overdue, Lease, Claimed,
       WorkerSet, RecSet, UsageSet, SrvSet, TransferSet, Starting, Browser, Before, Ending, Trying, mvars, pvars
  <1>1. CASE Connects BY <1>1 DEF Connects, Step
  <1>2. CASE CallerJoins BY <1>2 DEF CallerJoins, Step
  <1>3. CASE ClaimSlot BY <1>3 DEF ClaimSlot, Leave, Outcomes
  <1>4. CASE ClaimCall BY <1>4 DEF ClaimCall, Leave, Outcomes
  <1>5. CASE WrongCall BY <1>5 DEF WrongCall, Leave, Outcomes
  <1>6. CASE LoadAgent
    <2>1. pc' = "init" => pipeline'
      BY <1>6 DEF LoadAgent, Leave
    <2> QED BY <1>6, <2>1 DEF LoadAgent, Leave
  <1>7. CASE PublishTrack BY <1>7 DEF PublishTrack, Step
  <1>8. CASE StartPipeline
    <2>1. <<"start">> \in Ops /\ Spawn(<<"start">>)
      BY <1>8 DEF Ops, StartPipeline
    <2>2. \A i \in DOMAIN pending' : i = 1
      BY <2>1, Spawned, <1>8 DEF StartPipeline, Step
    <2>3. /\ usage'.sent = usage.sent /\ usage'.revision = usage.revision
          /\ usage'.at \in {"off", "sleep", "flush"} /\ (conf.service => usage'.at = "sleep")
          /\ usage.at \in {"off", "sleep", "flush"}
      BY <1>8 DEF StartPipeline, Step
    <2>4. pipeline
      BY <1>8 DEF StartPipeline, Step
    <2> QED BY <1>8, <2>2, <2>3, <2>4 DEF StartPipeline, Step
  <1>9. CASE Ready BY <1>9 DEF Ready, Step
  <1>10. CASE TalkOver BY <1>10 DEF TalkOver, Leave
  <1> QED BY <1>1, <1>2, <1>3, <1>4, <1>5, <1>6, <1>7, <1>8, <1>9, <1>10 DEF Setup

LEMMA TalkingKept ==
  ASSUME JobTypes, CallInv, Breaks \/ CallerLeaves \/ EndCall \/ Says \/ Uses \/ Recalls \/ TransferAsked \/ Beats \/ BeatDone \/ Over
  PROVE  CallInv'
  <1> USE DEF JobTypes, CallInv, Building, Opening, Closing, Egress, Status, Billing, Leg, Overdue, Lease, Claimed,
       WorkerSet, RecSet, UsageSet, SrvSet, TransferSet, Starting, Browser, Before, Ending, Trying, mvars, pvars
  <1>1. CASE Breaks BY <1>1 DEF Breaks, Leave
  <1>2. CASE CallerLeaves BY <1>2 DEF CallerLeaves
  <1>3. CASE EndCall BY <1>3 DEF EndCall
  <1>4. CASE Says
    <2>1. Words[spoken + 1] \in Ops /\ Words[spoken + 1] # <<"start">> /\ Spawn(Words[spoken + 1])
      BY <1>4, WordIs DEF Says
    <2>2. /\ \A i \in DOMAIN pending' : pending'[i] = <<"start">> => i \in DOMAIN pending /\ pending[i] = <<"start">>
          /\ closing # "no" => pending' = pending
      BY <2>1, Spawned
    <2>3. Building'
      BY <1>4, <2>2 DEF Says
    <2>6. (\A i \in DOMAIN pending' : pending'[i] = <<"start">> => i = 1) /\ (Starting' => Starting)
      BY <2>2
    <2>7. Opening'
      <3> HIDE DEF Starting
      <3> QED BY <1>4, <2>6 DEF Says
    <2>8. Closing'
      BY <1>4, <2>2 DEF Says
    <2>4. Egress' /\ Status' /\ Billing'
      BY <1>4 DEF Says
    <2>5. Leg' /\ Overdue' /\ Lease' /\ Claimed'
      BY <1>4 DEF Says
    <2> QED BY <2>3, <2>4, <2>5, <2>7, <2>8
  <1>5. CASE Uses
    <2>1. CASE Observes BY <1>5, <2>1 DEF Uses, Observes, jvars
    <2>2. CASE Flushes BY <1>5, <2>2 DEF Uses, Flushes, jvars
    <2> QED BY <1>5, <2>1, <2>2 DEF Uses
  <1>6. CASE Recalls BY <1>6 DEF Recalls, jvars
  <1>7. CASE TransferAsked BY <1>7 DEF TransferAsked
  <1>8. CASE Beats BY <1>8 DEF Beats
  <1>9. CASE BeatDone BY <1>9 DEF BeatDone
  <1>10. CASE Over BY <1>10 DEF Over, jvars
  <1> QED BY <1>1, <1>2, <1>3, <1>4, <1>5, <1>6, <1>7, <1>8, <1>9, <1>10

LEMMA TransferringKept ==
  ASSUME JobTypes, CallInv, Transferring
  PROVE  CallInv'
  <1> USE DEF JobTypes, CallInv, Building, Opening, Closing, Egress, Status, Billing, Leg, Overdue, Lease, Claimed,
       WorkerSet, RecSet, UsageSet, SrvSet, TransferSet, Starting, Browser, Before, Ending, Trying, mvars, pvars
  <1>1. CASE Marks
    <2>1. CASE transfer' = [transfer EXCEPT !.at = "post"] /\ session /\ closing # "closed" /\ UNCHANGED <<resv, halt, leg>>
      BY <1>1, <2>1 DEF Marks
    <2>2. CASE Follows(transfer.late)
      <3>1. transfer.late \in Nat
        OBVIOUS
      <3> QED BY <1>1, <2>2, <3>1, Followed DEF Marks, ReleaseSlot
    <2> QED BY <1>1, <2>1, <2>2 DEF Marks
  <1>2. CASE Marked
    <2>1. PICK done \in BOOLEAN : Follows(TakenLate(done))
      BY <1>2 DEF Marked, Takeable
    <2> DEFINE n == TakenLate(done)
    <2>2. n \in Nat /\ n \in {transfer.late, transfer.late + 1} /\ (srv.session # "ended" => n = transfer.late)
      BY Counted
    <2>3. Follows(n)
      BY <2>1
    <2> HIDE DEF n
    <2> QED BY <1>2, <2>2, <2>3, Followed DEF Marked, ReleaseSlot
  <1>3. CASE DialAnswered BY <1>3 DEF DialAnswered
  <1>4. CASE DialFails BY <1>4 DEF DialFails
  <1>5. CASE LegRemoved BY <1>5 DEF LegRemoved, Outcomes
  <1>6. CASE TransferReleased BY <1>6 DEF TransferReleased, Released, Outcomes
  <1>7. CASE AnalysisPosted
    <2>1. /\ transfer.at = "post" /\ transfer'.at = "event" /\ transfer.late \in Nat
          /\ transfer'.late \in {transfer.late, transfer.late + 1}
          /\ srv.session # "ended" => transfer'.late = transfer.late
      BY <1>7, Analysed DEF AnalysisPosted
    <2>2. UNCHANGED <<conf, mvars, pvars, pc, failure, gone, missed, pipeline, spoken, resv, halt, beat, slot, claim, call, leg>>
      BY <1>7 DEF AnalysisPosted
    <2>3. Building' /\ Opening' /\ Closing'
      BY <2>1, <2>2
    <2>4. Egress' /\ Status' /\ Billing'
      BY <2>2
    <2>5. Leg' /\ Lease' /\ Claimed'
      BY <2>1, <2>2
    <2>6. Overdue'
      BY <2>1, <2>2
    <2> QED BY <2>3, <2>4, <2>5, <2>6
  <1> QED BY <1>1, <1>2, <1>3, <1>4, <1>5, <1>6, <1>7 DEF Transferring

LEMMA CleanupKept ==
  ASSUME JobTypes, CallInv, Cleanup
  PROVE  CallInv'
  <1> USE DEF JobTypes, CallInv, Building, Opening, Closing, Egress, Status, Billing, Leg, Overdue, Lease, Claimed,
       WorkerSet, RecSet, UsageSet, SrvSet, TransferSet, Starting, Browser, Before, Ending, Trying, mvars, pvars
  <1>1. CASE StopBeating BY <1>1 DEF StopBeating, Step
  <1>2. CASE CleanupReleases BY <1>2 DEF CleanupReleases, Step, Released, Outcomes
  <1>3. CASE StopInput BY <1>3 DEF StopInput, Step
  <1>4. CASE ClosePipeline BY <1>4 DEF ClosePipeline, Step, MarkDisconnected, StopTask
  <1>5. CASE CancelAttempt
    <2>1. /\ \A i \in DOMAIN pending' : pending'[i] = <<"start">> => i \in DOMAIN pending /\ pending[i] = <<"start">>
          /\ closing # "no" => pending' = pending
          /\ ~pipeline => pending' = pending /\ spoken' = spoken
      <3>1. CASE UNCHANGED <<spoken, pending>> BY <3>1
      <3>2. CASE spoken < conf.words /\ Words[spoken + 1][1] = "assistant" /\ Spawn(Words[spoken + 1])
        <4>1. Words[spoken + 1] \in Ops /\ Words[spoken + 1] # <<"start">> /\ spoken # 0
          BY <3>2, WordIs
        <4> QED BY <3>2, <4>1, Spawned
      <3> QED BY <1>5, <3>1, <3>2 DEF CancelAttempt
    <2>2. Building'
      BY <1>5, <2>1 DEF CancelAttempt, Step
    <2>6. (\A i \in DOMAIN pending' : pending'[i] = <<"start">> => i = 1) /\ (Starting' => Starting)
      BY <2>1
    <2>7. Opening'
      <3> HIDE DEF Starting
      <3> QED BY <1>5, <2>6 DEF CancelAttempt, Step
    <2>8. Closing'
      BY <1>5, <2>1 DEF CancelAttempt, Step
    <2>4. Egress' /\ Status' /\ Billing'
      BY <1>5 DEF CancelAttempt, Step
    <2>5. Leg' /\ Overdue' /\ Lease' /\ Claimed'
      BY <1>5 DEF CancelAttempt, Step
    <2> QED BY <2>2, <2>4, <2>5, <2>7, <2>8
  <1>6. CASE CloseStore BY <1>6 DEF CloseStore, Step, CloseBegins, MarkDisconnected, StopTask
  <1>7. CASE CloseUsage BY <1>7 DEF CloseUsage, Step, UsageCloses, Billed, Outcomes
  <1>8. CASE PipelineClosed BY <1>8 DEF PipelineClosed, Step
  <1>9. CASE FinishCall BY <1>9 DEF FinishCall, Step, Outcomes
  <1> QED BY <1>1, <1>2, <1>3, <1>4, <1>5, <1>6, <1>7, <1>8, <1>9 DEF Cleanup

LEMMA PersistingKept ==
  ASSUME JobTypes, CallInv, Takes \/ AgentResolved \/ SessionOpened \/ StartedEvent \/ Posted \/ OperationTimeout \/ AddMessage(transfer.at \in {"post", "event"}), UNCHANGED <<conf, mvars, jvars>>
  PROVE  CallInv'
  <1> USE DEF JobTypes, CallInv, Building, Opening, Closing, Egress, Status, Billing, Leg, Overdue, Lease, Claimed,
       WorkerSet, RecSet, UsageSet, SrvSet, TransferSet, Starting, Browser, Before, Ending, Trying, mvars, pvars, jvars
  <1>1. CASE Takes
    <2>1. /\ Head(pending) = pending[1] /\ 1 \in DOMAIN pending
          /\ \A i \in DOMAIN pending' : pending'[i] # <<"start">>
      BY <1>1, Taken
    <2>2. pc \notin Before /\ pipeline /\ closing \in {"no", "drain"}
      BY <1>1 DEF Takes
    <2>3. worker'.at \in {"idle", "resolve", "lock"} /\ (worker'.at = "resolve" => Starting /\ conf.service)
      BY <1>1, <2>1 DEF Takes, Resting
    <2> QED BY <1>1, <2>1, <2>2, <2>3, SMTT(30) DEF Takes
  <1>2. CASE AgentResolved BY <1>2 DEF AgentResolved, Resting
  <1>3. CASE SessionOpened BY <1>3 DEF SessionOpened, Resting, Outcomes
  <1>4. CASE StartedEvent BY <1>4 DEF StartedEvent, Resting
  <1>5. CASE Posted BY <1>5 DEF Posted, Resting, Outcomes
  <1>6. CASE OperationTimeout
    <2>1. /\ srv'.session \in {srv.session, "open"} /\ srv'.egress = srv.egress /\ srv'.status = srv.status
          /\ srv'.reconcile = srv.reconcile /\ srv'.usage = srv.usage
          /\ srv'.session # srv.session => "session" \in lost' /\ worker.at = "open"
          /\ worker'.at = "idle" /\ lost \subseteq lost' /\ pc \notin Before /\ pipeline
          /\ closing \in {"no", "drain"}
      BY <1>6 DEF OperationTimeout, Abandons, Resting
    <2>2. srv'.session # "ended"
      BY <2>1
    <2> QED BY <1>6, <2>1, <2>2 DEF OperationTimeout
  <1>7. CASE AddMessage(transfer.at \in {"post", "event"}) BY <1>7 DEF AddMessage, Resting
  <1> QED BY <1>1, <1>2, <1>3, <1>4, <1>5, <1>6, <1>7

LEMMA ClosingKept ==
  ASSUME JobTypes, CallInv, Closes, UNCHANGED <<conf, mvars, jvars>>
  PROVE  CallInv'
  <1> USE DEF JobTypes, CallInv, Building, Opening, Closing, Egress, Status, Billing, Leg, Overdue, Lease, Claimed,
       WorkerSet, RecSet, UsageSet, SrvSet, TransferSet, Starting, Browser, Before, Ending, Trying, mvars, pvars, jvars
  <1>1. CASE Drained BY <1>1 DEF Drained
  <1>2. CASE DrainTimeout BY <1>2 DEF DrainTimeout, Abandons, Resting
  <1>3. CASE RecordingAwaited BY <1>3 DEF RecordingAwaited
  <1>4. CASE RecordingTimeout BY <1>4 DEF RecordingTimeout, Told, Outcomes
  <1>5. CASE StopAwaited BY <1>5 DEF StopAwaited
  <1>6. CASE Finalized BY <1>6 DEF Finalized
  <1>7. CASE Checked BY <1>7 DEF Checked
  <1>8. CASE EndPosted BY <1>8 DEF EndPosted, Outcomes
  <1>9. CASE ClosePublishes("flag", "stop") BY <1>9 DEF ClosePublishes, Told, Outcomes
  <1>10. CASE ClosePublishes("final", "dirty") BY <1>10 DEF ClosePublishes, Told, Outcomes
  <1>11. CASE ClosePublishes("again", "end") BY <1>11 DEF ClosePublishes, Told, Outcomes
  <1> QED BY <1>1, <1>2, <1>3, <1>4, <1>5, <1>6, <1>7, <1>8, <1>9, <1>10, <1>11 DEF Closes

LEMMA RecordingKept ==
  ASSUME JobTypes, CallInv, Records, UNCHANGED <<conf, mvars, jvars>>
  PROVE  CallInv'
  <1> USE DEF JobTypes, CallInv, Building, Opening, Closing, Egress, Status, Billing, Leg, Overdue, Lease, Claimed,
       WorkerSet, RecSet, UsageSet, SrvSet, TransferSet, Starting, Browser, Before, Ending, Trying, mvars, pvars, jvars
  <1>1. CASE RecordingStarted BY <1>1 DEF RecordingStarted, StopTask
  <1>2. CASE RecordingNotStarted BY <1>2 DEF RecordingNotStarted
  <1>3. CASE RecordingPublished BY <1>3 DEF RecordingPublished, Told, Outcomes
  <1>4. CASE StopAnswered BY <1>4 DEF StopAnswered, Outcomes
  <1> QED BY <1>1, <1>2, <1>3, <1>4 DEF Records

LEMMA BillingKept ==
  ASSUME JobTypes, CallInv, Flushed \/ FinalFlushed, UNCHANGED <<conf, mvars, jvars>>
  PROVE  CallInv'
  <1> USE DEF JobTypes, CallInv, Building, Opening, Closing, Egress, Status, Billing, Leg, Overdue, Lease, Claimed,
       WorkerSet, RecSet, UsageSet, SrvSet, TransferSet, Starting, Browser, Before, Ending, Trying, mvars, pvars, jvars
  <1>1. CASE Flushed BY <1>1 DEF Flushed, Billed, Outcomes
  <1>2. CASE FinalFlushed BY <1>2 DEF FinalFlushed, Billed, Outcomes
  <1> QED BY <1>1, <1>2

----------------------------------------------------------------------------
(* The steps of the job and JobTypes                                        *)

LEMMA BilledIs ==
  ASSUME JobTypes, NEW o \in Outcomes
  PROVE  Billed(o) \in SrvSet
  <1>1. srv \in SrvSet /\ usage.sent \in Int /\ srv.usage \in Int
    BY DEF JobTypes, SrvSet, UsageSet
  <1>2. \A n \in Int : [srv EXCEPT !.usage = n] \in SrvSet
    BY <1>1 DEF SrvSet
  <1>3. Billed(o) = [srv EXCEPT !.usage = IF o.done /\ usage.sent > srv.usage THEN usage.sent ELSE srv.usage]
    BY <1>1 DEF Billed, SrvSet
  <1> QED BY <1>1, <1>2, <1>3

LEMMA UsesTyped ==
  ASSUME JobTypes, Uses
  PROVE  usage' \in UsageSet
  <1>1. CASE Observes
    <2>1. usage \in UsageSet /\ usage.revision + 1 \in Nat /\ usage' = [usage EXCEPT !.revision = usage.revision + 1]
      BY <1>1 DEF JobTypes, UsageSet, Observes
    <2> QED BY <2>1 DEF UsageSet
  <1>2. CASE Flushes
    <2>1. usage \in UsageSet /\ usage.revision \in Nat /\ usage' = [usage EXCEPT !.at = "flush", !.sent = usage.revision]
      BY <1>2 DEF JobTypes, UsageSet, Flushes
    <2> QED BY <2>1 DEF UsageSet
  <1> QED BY <1>1, <1>2 DEF Uses

LEMMA ClosesTyped ==
  ASSUME JobTypes, UsageCloses
  PROVE  usage' \in UsageSet /\ srv' \in SrvSet
  <1>1. srv' \in SrvSet BY BilledIs DEF JobTypes, UsageCloses
  <1>2. usage \in UsageSet /\ usage.revision + 1 \in Nat
    BY DEF JobTypes, UsageSet
  <1>3. [usage EXCEPT !.at = "final", !.sent = usage.revision + 1] \in UsageSet
    BY <1>2 DEF UsageSet
  <1>4. [usage EXCEPT !.at = "closed"] \in UsageSet
    BY <1>2 DEF UsageSet
  <1> QED BY <1>1, <1>3, <1>4 DEF UsageCloses

LEMMA FlushTyped ==
  ASSUME JobTypes, Flushed \/ FinalFlushed
  PROVE  usage' \in UsageSet /\ srv' \in SrvSet
  <1>1. srv' \in SrvSet BY BilledIs DEF Flushed, FinalFlushed
  <1>2. usage \in UsageSet /\ usage.sent \in Int /\ usage.last \in Int
    BY DEF JobTypes, UsageSet
  <1>3. PICK at \in {"sleep", "closed", "second"}, l \in {usage.sent, usage.last} : usage' = [usage EXCEPT !.at = at, !.last = l]
    <2>1. CASE Flushed
      <3>1. PICK o \in Outcomes : usage' = [usage EXCEPT !.at = "sleep", !.last = IF o.ok THEN usage.sent ELSE @]
        BY <2>1 DEF Flushed
      <3> QED BY <1>2, <3>1 DEF UsageSet
    <2>2. CASE FinalFlushed
      <3>1. PICK o \in Outcomes : usage' = [usage EXCEPT !.at = IF o.ok \/ usage.at = "second" THEN "closed" ELSE "second", !.last = IF o.ok THEN usage.sent ELSE @]
        BY <2>2 DEF FinalFlushed
      <3> QED BY <1>2, <3>1 DEF UsageSet
    <2> QED BY <2>1, <2>2
  <1>4. l \in Int BY <1>2, <1>3
  <1> QED BY <1>1, <1>2, <1>3, <1>4 DEF UsageSet

LEMMA OutcomeIs == \A o \in Outcomes : o.ok \in BOOLEAN
  <1>1. Outcomes \subseteq [done : BOOLEAN, ok : BOOLEAN]
    BY DEF Outcomes
  <1>2. \A o \in [done : BOOLEAN, ok : BOOLEAN] : o.ok \in BOOLEAN
    OBVIOUS
  <1> QED BY <1>1, <1>2

LEMMA StoredIs ==
  ASSUME NEW m \in Seq(Ops), NEW key \in Ops
  PROVE  Stored(m, key) \in Seq(Ops)
  BY DEF Stored

LEMMA KeyIs ==
  ASSUME JobTypes, Written, worker.at = "post"
  PROVE  Key(worker) \in Ops
  BY WordsAre DEF Key, Written, Writing, Uttered

LEMMA SetupTyped ==
  ASSUME JobTypes, Setup
  PROVE  JobTypes'
  <1> USE DEF mvars, pvars
  <1>1. CASE Connects BY <1>1 DEF JobTypes, Connects, Step
  <1>2. CASE CallerJoins BY <1>2 DEF JobTypes, CallerJoins, Step
  <1>3. CASE ClaimSlot BY <1>3 DEF JobTypes, ClaimSlot, Leave, Outcomes
  <1>4. CASE ClaimCall BY <1>4 DEF JobTypes, ClaimCall, Leave, Outcomes
  <1>5. CASE WrongCall BY <1>5 DEF JobTypes, WrongCall, Leave, Outcomes
  <1>6. CASE LoadAgent
    <2>1. pipeline' \in BOOLEAN
      BY <1>6 DEF LoadAgent, Leave, Browser, JobTypes
    <2> QED BY <1>6, <2>1 DEF JobTypes, LoadAgent, Leave
  <1>7. CASE PublishTrack BY <1>7 DEF JobTypes, PublishTrack, Step
  <1>8. CASE StartPipeline
    <2>1. pending' \in Seq(Ops)
      BY <1>8, Spawned DEF Ops, StartPipeline
    <2>2. usage' \in UsageSet
      BY <1>8, <2>1 DEF JobTypes, StartPipeline, Step, Spawn, UsageSet, Statuses
    <2> QED BY <1>8, <2>1, <2>2 DEF JobTypes, StartPipeline, Step, Spawn
  <1>9. CASE Ready BY <1>9 DEF JobTypes, Ready, Step
  <1>10. CASE TalkOver BY <1>10 DEF JobTypes, TalkOver, Leave
  <1> QED BY <1>1, <1>2, <1>3, <1>4, <1>5, <1>6, <1>7, <1>8, <1>9, <1>10 DEF Setup

LEMMA TalkingTyped ==
  ASSUME JobTypes, Breaks \/ CallerLeaves \/ EndCall \/ Says \/ Uses \/ Recalls \/ TransferAsked \/ Beats \/ BeatDone \/ Over
  PROVE  JobTypes'
  <1> USE DEF mvars, pvars
  <1>1. CASE Breaks BY <1>1 DEF JobTypes, Breaks, Leave
  <1>2. CASE CallerLeaves BY <1>2 DEF JobTypes, CallerLeaves
  <1>3. CASE EndCall BY <1>3 DEF JobTypes, EndCall
  <1>4. CASE Says
    <2>1. pending' \in Seq(Ops) /\ spoken + 1 \in 0..conf.words
      BY <1>4, WordIs, Spawned DEF Says
    <2> QED BY <1>4, <2>1 DEF JobTypes, Says, Spawn
  <1>5. CASE Uses
    <2>1. usage' \in UsageSet
      BY <1>5, UsesTyped
    <2> QED BY <1>5, <2>1 DEF JobTypes, Uses, Observes, Flushes, jvars
  <1>6. CASE Recalls BY <1>6 DEF JobTypes, Recalls, jvars
  <1>7. CASE TransferAsked
    <2>1. transfer' \in TransferSet
      BY <1>7 DEF JobTypes, TransferAsked, TransferSet, Statuses
    <2> QED BY <1>7, <2>1 DEF JobTypes, TransferAsked
  <1>8. CASE Beats BY <1>8 DEF JobTypes, Beats
  <1>9. CASE BeatDone BY <1>9 DEF JobTypes, BeatDone
  <1>10. CASE Over BY <1>10 DEF JobTypes, Over, jvars
  <1> QED BY <1>1, <1>2, <1>3, <1>4, <1>5, <1>6, <1>7, <1>8, <1>9, <1>10

LEMMA TransferringTyped ==
  ASSUME JobTypes, Transferring
  PROVE  JobTypes'
  <1> USE DEF mvars, pvars
  <1>1. CASE Marks
    <2>1. transfer' \in TransferSet
      <3>1. transfer.late \in Nat /\ [transfer EXCEPT !.at = "post"] \in TransferSet
        BY DEF JobTypes, TransferSet
      <3> QED BY <1>1, <3>1, Followed DEF Marks
    <2> QED BY <1>1, <2>1 DEF JobTypes, Marks, Follows, ReleaseSlot
  <1>2. CASE Marked
    <2>1. transfer' \in TransferSet
      <3>1. PICK done \in BOOLEAN : Follows(TakenLate(done))
        BY <1>2 DEF Marked, Takeable
      <3> DEFINE n == TakenLate(done)
      <3>2. n \in Nat /\ Follows(n)
        BY <3>1, Counted
      <3> HIDE DEF n
      <3> QED BY <3>2, Followed
    <2> QED BY <1>2, <2>1 DEF JobTypes, Marked, Follows, ReleaseSlot
  <1>3. CASE DialAnswered
    <2>1. transfer' \in TransferSet
      BY <1>3 DEF JobTypes, DialAnswered, TransferSet, Statuses
    <2> QED BY <1>3, <2>1 DEF JobTypes, DialAnswered
  <1>4. CASE DialFails
    <2>1. transfer' \in TransferSet
      BY <1>4 DEF JobTypes, DialFails, TransferSet, Statuses
    <2> QED BY <1>4, <2>1 DEF JobTypes, DialFails
  <1>5. CASE LegRemoved
    <2>1. transfer' \in TransferSet
      BY <1>5 DEF JobTypes, LegRemoved, Outcomes, TransferSet, Statuses
    <2> QED BY <1>5, <2>1 DEF JobTypes, LegRemoved, Outcomes
  <1>6. CASE TransferReleased
    <2>1. transfer' \in TransferSet
      BY <1>6 DEF JobTypes, TransferReleased, Released, Outcomes, TransferSet, Statuses
    <2> QED BY <1>6, <2>1 DEF JobTypes, TransferReleased, Released, Outcomes
  <1>7. CASE AnalysisPosted
    <2>1. transfer' \in TransferSet
      BY <1>7, Analysed
    <2> QED BY <1>7, <2>1 DEF JobTypes, AnalysisPosted
  <1> QED BY <1>1, <1>2, <1>3, <1>4, <1>5, <1>6, <1>7 DEF Transferring

LEMMA CleanupTyped ==
  ASSUME JobTypes, Cleanup
  PROVE  JobTypes'
  <1> USE DEF mvars, pvars
  <1>1. CASE StopBeating BY <1>1 DEF JobTypes, StopBeating, Step
  <1>2. CASE CleanupReleases BY <1>2 DEF JobTypes, CleanupReleases, Step, Released, Outcomes
  <1>3. CASE StopInput BY <1>3 DEF JobTypes, StopInput, Step
  <1>4. CASE ClosePipeline BY <1>4 DEF JobTypes, ClosePipeline, Step, MarkDisconnected, StopTask
  <1>5. CASE CancelAttempt
    <2>1. pending' \in Seq(Ops) /\ spoken' \in 0..conf.words
      BY <1>5, WordIs, Spawned DEF CancelAttempt, JobTypes
    <2> QED BY <1>5, <2>1 DEF JobTypes, CancelAttempt, Step, Spawn
  <1>6. CASE CloseStore BY <1>6 DEF JobTypes, CloseStore, Step, CloseBegins, MarkDisconnected, StopTask
  <1>7. CASE CloseUsage
    <2>1. usage' \in UsageSet /\ srv' \in SrvSet
      BY <1>7, ClosesTyped DEF CloseUsage
    <2> QED BY <1>7, <2>1 DEF JobTypes, CloseUsage, Step, UsageCloses, Billed, Outcomes
  <1>8. CASE PipelineClosed BY <1>8 DEF JobTypes, PipelineClosed, Step
  <1>9. CASE FinishCall BY <1>9 DEF JobTypes, FinishCall, Step, Outcomes
  <1> QED BY <1>1, <1>2, <1>3, <1>4, <1>5, <1>6, <1>7, <1>8, <1>9 DEF Cleanup

LEMMA PersistingTyped ==
  ASSUME JobTypes, Written, Takes \/ AgentResolved \/ SessionOpened \/ StartedEvent \/ Posted \/ OperationTimeout \/ AddMessage(transfer.at \in {"post", "event"}), UNCHANGED <<conf, mvars, jvars>>
  PROVE  JobTypes'
  <1> USE DEF mvars, pvars, jvars
  <1>1. CASE Takes
    <2>1. pending' \in Seq(Ops) /\ Head(pending) \in Ops
      BY <1>1, Taken DEF Takes
    <2>2. worker' \in WorkerSet
      BY <1>1, <2>1 DEF JobTypes, Takes, Resting, WorkerSet, Statuses
    <2> QED BY <1>1, <2>1, <2>2 DEF JobTypes, Takes, Resting
  <1>2. CASE AgentResolved
    <2>1. worker' \in WorkerSet
      BY <1>2 DEF JobTypes, AgentResolved, Resting, WorkerSet, Statuses
    <2> QED BY <1>2, <2>1 DEF JobTypes, AgentResolved, Resting
  <1>3. CASE SessionOpened
    <2>1. session' \in BOOLEAN
      BY <1>3, OutcomeIs DEF SessionOpened
    <2>2. worker' \in WorkerSet
      BY <1>3, <2>1 DEF JobTypes, SessionOpened, Resting, Outcomes, WorkerSet, Statuses
    <2>3. srv' \in SrvSet
      BY <1>3, <2>1 DEF JobTypes, SessionOpened, Resting, Outcomes, SrvSet, Statuses
    <2>4. rec' \in RecSet
      BY <1>3, <2>1 DEF JobTypes, SessionOpened, Resting, Outcomes, RecSet, Statuses
    <2> QED BY <1>3, <2>1, <2>2, <2>3, <2>4 DEF JobTypes, SessionOpened, Resting, Outcomes
  <1>4. CASE StartedEvent
    <2>1. worker' \in WorkerSet
      BY <1>4 DEF JobTypes, StartedEvent, Resting, WorkerSet, Statuses
    <2> QED BY <1>4, <2>1 DEF JobTypes, StartedEvent, Resting
  <1>5. CASE Posted
    <2>1. Stored(srv.messages, Key(worker)) \in Seq(Ops)
      BY <1>5, StoredIs, KeyIs DEF Posted, JobTypes, SrvSet
    <2>2. worker' \in WorkerSet
      BY <1>5, <2>1 DEF JobTypes, Posted, Resting, Outcomes, WorkerSet, Statuses
    <2>3. srv' \in SrvSet
      BY <1>5, <2>1 DEF JobTypes, Posted, Resting, Outcomes, SrvSet, Statuses
    <2> QED BY <1>5, <2>1, <2>2, <2>3 DEF JobTypes, Posted, Resting, Outcomes
  <1>6. CASE OperationTimeout
    <2>1. worker.at = "post" => Stored(srv.messages, Key(worker)) \in Seq(Ops)
      BY <1>6, StoredIs, KeyIs DEF JobTypes, SrvSet
    <2>2. worker' \in WorkerSet
      BY <1>6, <2>1 DEF JobTypes, OperationTimeout, Abandons, Resting, WorkerSet, Statuses
    <2>3. srv' \in SrvSet
      BY <1>6, <2>1 DEF JobTypes, OperationTimeout, Abandons, Resting, SrvSet, Statuses
    <2> QED BY <1>6, <2>1, <2>2, <2>3 DEF JobTypes, OperationTimeout, Abandons, Resting
  <1>7. CASE AddMessage(transfer.at \in {"post", "event"})
    <2>1. worker' \in WorkerSet
      BY <1>7 DEF JobTypes, AddMessage, Resting, WorkerSet, Statuses
    <2> QED BY <1>7, <2>1 DEF JobTypes, AddMessage, Resting
  <1> QED BY <1>1, <1>2, <1>3, <1>4, <1>5, <1>6, <1>7

\* The recording's status is told once more while the store closes.
LEMMA Publishes ==
  ASSUME JobTypes, NEW from, NEW next, ClosePublishes(from, next)
  PROVE  srv' \in SrvSet /\ rec' \in RecSet
  <1>1. srv \in SrvSet /\ rec \in RecSet
    BY DEF JobTypes
  <1>2. PICK o \in Outcomes : srv' = Told(rec, o) /\ rec' = [rec EXCEPT !.dirty = ~o.ok]
    BY DEF ClosePublishes
  <1>3. (o.done = TRUE \/ o.done = FALSE) /\ (o.ok = TRUE \/ o.ok = FALSE)
    <2>1. o = [done |-> TRUE, ok |-> TRUE] \/ o = [done |-> TRUE, ok |-> FALSE] \/ o = [done |-> FALSE, ok |-> FALSE]
      BY <1>2 DEF Outcomes
    <2> QED BY <2>1
  <1>4. rec.status \in Statuses /\ rec.reconcile \in BOOLEAN
    BY <1>1 DEF RecSet
  <1>5. srv' \in SrvSet
    BY <1>1, <1>2, <1>3, <1>4, ZenonT(60) DEF Told, SrvSet
  <1>6. rec' \in RecSet
    BY <1>1, <1>2, <1>3 DEF RecSet
  <1> QED BY <1>5, <1>6

LEMMA ClosingTyped ==
  ASSUME JobTypes, Written, Closes, UNCHANGED <<conf, mvars, jvars>>
  PROVE  JobTypes'
  <1> USE DEF mvars, pvars, jvars
  <1>1. CASE Drained BY <1>1 DEF JobTypes, Drained
  <1>2. CASE DrainTimeout
    <2>1. worker.at = "post" => Stored(srv.messages, Key(worker)) \in Seq(Ops)
      BY <1>2, StoredIs, KeyIs DEF JobTypes, SrvSet
    <2>2. worker' \in WorkerSet
      BY <1>2, <2>1 DEF JobTypes, DrainTimeout, Abandons, Resting, WorkerSet, Statuses
    <2>3. srv' \in SrvSet
      BY <1>2, <2>1 DEF JobTypes, DrainTimeout, Abandons, Resting, SrvSet, Statuses
    <2> QED BY <1>2, <2>1, <2>2, <2>3 DEF JobTypes, DrainTimeout, Abandons, Resting
  <1>3. CASE RecordingAwaited BY <1>3 DEF JobTypes, RecordingAwaited
  <1>4. CASE RecordingTimeout
    <2>1. srv' \in SrvSet
      BY <1>4, ZenonT(60) DEF JobTypes, RecordingTimeout, Told, Outcomes, SrvSet, Statuses, RecSet
    <2>2. rec' \in RecSet
      BY <1>4 DEF JobTypes, RecordingTimeout, Told, Outcomes, RecSet, Statuses
    <2> QED BY <1>4, <2>1, <2>2 DEF JobTypes, RecordingTimeout, Told, Outcomes
  <1>5. CASE StopAwaited BY <1>5 DEF JobTypes, StopAwaited
  <1>6. CASE Finalized
    <2>1. rec' \in RecSet
      BY <1>6 DEF JobTypes, Finalized, RecSet, Statuses
    <2> QED BY <1>6, <2>1 DEF JobTypes, Finalized
  <1>7. CASE Checked BY <1>7 DEF JobTypes, Checked
  <1>8. CASE EndPosted
    <2>1. srv' \in SrvSet
      BY <1>8 DEF JobTypes, EndPosted, Outcomes, SrvSet, Statuses
    <2> QED BY <1>8, <2>1 DEF JobTypes, EndPosted, Outcomes
  <1>9. CASE ClosePublishes("flag", "stop") BY <1>9, Publishes DEF JobTypes, ClosePublishes
  <1>10. CASE ClosePublishes("final", "dirty") BY <1>10, Publishes DEF JobTypes, ClosePublishes
  <1>11. CASE ClosePublishes("again", "end") BY <1>11, Publishes DEF JobTypes, ClosePublishes
  <1> QED BY <1>1, <1>2, <1>3, <1>4, <1>5, <1>6, <1>7, <1>8, <1>9, <1>10, <1>11 DEF Closes

LEMMA RecordingTyped ==
  ASSUME JobTypes, Records, UNCHANGED <<conf, mvars, jvars>>
  PROVE  JobTypes'
  <1> USE DEF mvars, pvars, jvars
  <1>1. CASE RecordingStarted
    <2>1. srv' \in SrvSet
      BY <1>1 DEF JobTypes, RecordingStarted, StopTask, SrvSet, Statuses
    <2>2. rec' \in RecSet
      BY <1>1 DEF JobTypes, RecordingStarted, StopTask, RecSet, Statuses
    <2> QED BY <1>1, <2>1, <2>2 DEF JobTypes, RecordingStarted, StopTask
  <1>2. CASE RecordingNotStarted
    <2>1. srv' \in SrvSet
      BY <1>2 DEF JobTypes, RecordingNotStarted, SrvSet, Statuses
    <2>2. rec' \in RecSet
      BY <1>2 DEF JobTypes, RecordingNotStarted, RecSet, Statuses
    <2> QED BY <1>2, <2>1, <2>2 DEF JobTypes, RecordingNotStarted
  <1>3. CASE RecordingPublished
    <2>1. srv' \in SrvSet
      BY <1>3 DEF JobTypes, RecordingPublished, Told, Outcomes, SrvSet, Statuses, RecSet
    <2>2. rec' \in RecSet
      BY <1>3 DEF JobTypes, RecordingPublished, Told, Outcomes, RecSet, Statuses
    <2> QED BY <1>3, <2>1, <2>2 DEF JobTypes, RecordingPublished, Told, Outcomes
  <1>4. CASE StopAnswered
    <2>1. srv' \in SrvSet
      BY <1>4 DEF JobTypes, StopAnswered, Outcomes, SrvSet, Statuses
    <2> QED BY <1>4, <2>1 DEF JobTypes, StopAnswered, Outcomes
  <1> QED BY <1>1, <1>2, <1>3, <1>4 DEF Records

LEMMA BillingTyped ==
  ASSUME JobTypes, Flushed \/ FinalFlushed, UNCHANGED <<conf, mvars, jvars>>
  PROVE  JobTypes'
  <1> USE DEF mvars, pvars, jvars
  <1>1. CASE Flushed
    <2>1. usage' \in UsageSet /\ srv' \in SrvSet
      BY <1>1, FlushTyped
    <2> QED BY <1>1, <2>1 DEF JobTypes, Flushed, Billed, Outcomes
  <1>2. CASE FinalFlushed
    <2>1. usage' \in UsageSet /\ srv' \in SrvSet
      BY <1>2, FlushTyped
    <2> QED BY <1>2, <2>1 DEF JobTypes, FinalFlushed, Billed, Outcomes
  <1> QED BY <1>1, <1>2

\* A step that writes and says nothing, and takes up no other operation.
----------------------------------------------------------------------------
(* The steps of the job and the order of the transcript                     *)

LEMMA Unwritten ==
  ASSUME Written, pending' \in {pending, <<>>}, spoken' = spoken, srv'.messages = srv.messages,
         Writing' => Writing /\ worker'.op = worker.op
  PROVE  Written'
  <1>1. DOMAIN pending' \subseteq DOMAIN pending /\ \A i \in DOMAIN pending' : pending'[i] = pending[i]
    OBVIOUS
  <1> QED BY <1>1 DEF Written, Uttered, Earlier

LEMMA TakesWrites ==
  ASSUME JobTypes, Written, Takes, UNCHANGED <<conf, mvars, jvars>>
  PROVE  Written'
  <1>1. /\ Head(pending) = pending[1] /\ 1 \in DOMAIN pending
        /\ \A i \in DOMAIN pending' : i + 1 \in DOMAIN pending /\ pending'[i] = pending[i + 1] /\ i >= 1 /\ i \in Int
    BY Taken DEF JobTypes, Takes
  <1>2. spoken' = spoken /\ srv' = srv
    BY DEF Takes, jvars
  <1>3. Writing' => worker'.op = pending[1] /\ pending[1] # <<"start">>
    BY <1>1 DEF Takes, Resting, Writing
  <1>4. \A i \in DOMAIN pending' : 1 < i + 1
    BY <1>1
  <1>5. \A i, j \in DOMAIN pending' : i < j => i + 1 < j + 1
    BY <1>1
  <1> QED BY <1>1, <1>2, <1>3, <1>4, <1>5 DEF Written, Uttered, Earlier

\* The next words are later than all that were said.
LEMMA SpokenWrites ==
  ASSUME JobTypes, Written, spoken < conf.words, Spawn(Words[spoken + 1]), spoken' = spoken + 1, UNCHANGED <<conf, worker, srv>>
  PROVE  Written'
  <1> DEFINE w == Words[spoken + 1]
  <1>1. spoken + 1 \in DOMAIN Words /\ w \in Ops /\ w # <<"start">> /\ spoken \in Int
    BY WordIs DEF JobTypes
  <1>2. \A x : Uttered(x, spoken) => Earlier(x, w)
    BY <1>1, WordsAre DEF Uttered, Earlier
  <1>3. Uttered(w, spoken + 1) /\ \A x : Uttered(x, spoken) => Uttered(x, spoken + 1)
    BY <1>1, WordsAre DEF Uttered
  <1>4. /\ \A i \in DOMAIN pending' :
              \/ i \in DOMAIN pending /\ pending'[i] = pending[i]
              \/ i = Len(pending) + 1 /\ i \notin DOMAIN pending /\ pending'[i] = w
        /\ \A i \in DOMAIN pending : i \in 1..Len(pending)
        /\ Len(pending) \in Nat
    BY <1>1, Spawned DEF JobTypes
  <1>5. \A i, j \in DOMAIN pending' : i < j => i \in DOMAIN pending
    BY <1>4
  <1> HIDE DEF w
  <1>6. Writing' = Writing /\ worker' = worker /\ srv' = srv
    BY DEF Writing
  <1> QED BY <1>2, <1>3, <1>4, <1>5, <1>6 DEF Written

LEMMA StartWrites ==
  ASSUME JobTypes, CallInv, Written, StartPipeline
  PROVE  Written'
  <1>1. /\ \A i \in DOMAIN pending' : pending'[i] = <<"start">> /\ i = 1
    <2>1. <<"start">> \in Ops /\ Spawn(<<"start">>) /\ pending = <<>>
      BY DEF Ops, StartPipeline, Step, CallInv, Building, Before
    <2> QED BY <2>1, Spawned
  <1>2. DOMAIN srv'.messages = {} /\ ~Writing'
    BY DEF StartPipeline, Step, CallInv, Building, Before, Writing
  <1> QED BY <1>1, <1>2 DEF Written

\* A message whose key is known to the service changes nothing.
LEMMA PostWrites ==
  ASSUME JobTypes, Written, worker.at = "post", pending' \in {pending, <<>>}, spoken' = spoken,
         srv'.messages \in {srv.messages, Stored(srv.messages, Key(worker))},
         Writing' => worker'.op = worker.op
  PROVE  Written'
  <1>1. Writing /\ Key(worker) = worker.op /\ srv.messages \in Seq(Ops) /\ worker.op \in Ops
    BY KeyIs DEF Writing, Key, JobTypes, SrvSet
  <1>2. CASE srv'.messages = srv.messages
    BY <1>1, <1>2, Unwritten
  <1>3. DOMAIN pending' \subseteq DOMAIN pending /\ \A i \in DOMAIN pending' : pending'[i] = pending[i]
    OBVIOUS
  <1>4. CASE srv'.messages = Append(srv.messages, worker.op) /\ \A k \in DOMAIN srv.messages : srv.messages[k] # worker.op
    <2>1. /\ \A i \in DOMAIN srv'.messages :
               \/ i \in DOMAIN srv.messages /\ srv'.messages[i] = srv.messages[i]
               \/ i = Len(srv.messages) + 1 /\ i \notin DOMAIN srv.messages /\ srv'.messages[i] = worker.op
          /\ \A i \in DOMAIN srv.messages : i \in 1..Len(srv.messages)
          /\ Len(srv.messages) \in Nat
      BY <1>1, <1>4, Added
    <2>2. \A i, j \in DOMAIN srv'.messages : i < j => i \in DOMAIN srv.messages
      BY <2>1
    <2>3. \A k \in DOMAIN srv.messages : Earlier(srv.messages[k], worker.op)
      BY <1>1, <1>4 DEF Written
    <2> QED BY <1>1, <1>3, <2>1, <2>2, <2>3 DEF Written
  <1> QED BY <1>1, <1>2, <1>4 DEF Stored

LEMMA SetupWrites ==
  ASSUME JobTypes, CallInv, Written, Setup
  PROVE  Written'
  <1> USE DEF mvars, pvars
  <1>1. CASE Connects BY <1>1, Unwritten DEF Connects, Step, Writing, JobTypes, SrvSet, WorkerSet
  <1>2. CASE CallerJoins BY <1>2, Unwritten DEF CallerJoins, Step, Writing, JobTypes, SrvSet, WorkerSet
  <1>3. CASE ClaimSlot BY <1>3, Unwritten DEF ClaimSlot, Leave, Outcomes, Writing, JobTypes, SrvSet, WorkerSet
  <1>4. CASE ClaimCall BY <1>4, Unwritten DEF ClaimCall, Leave, Outcomes, Writing, JobTypes, SrvSet, WorkerSet
  <1>5. CASE WrongCall BY <1>5, Unwritten DEF WrongCall, Leave, Outcomes, Writing, JobTypes, SrvSet, WorkerSet
  <1>6. CASE LoadAgent BY <1>6, Unwritten DEF LoadAgent, Leave, Writing, JobTypes, SrvSet, WorkerSet
  <1>7. CASE PublishTrack BY <1>7, Unwritten DEF PublishTrack, Step, Writing, JobTypes, SrvSet, WorkerSet
  <1>8. CASE StartPipeline BY <1>8, StartWrites
  <1>9. CASE Ready BY <1>9, Unwritten DEF Ready, Step, Writing, JobTypes, SrvSet, WorkerSet
  <1>10. CASE TalkOver BY <1>10, Unwritten DEF TalkOver, Leave, Writing, JobTypes, SrvSet, WorkerSet
  <1> QED BY <1>1, <1>2, <1>3, <1>4, <1>5, <1>6, <1>7, <1>8, <1>9, <1>10 DEF Setup

LEMMA TalkingWrites ==
  ASSUME JobTypes, Written, Breaks \/ CallerLeaves \/ EndCall \/ Says \/ Uses \/ Recalls \/ TransferAsked \/ Beats \/ BeatDone \/ Over
  PROVE  Written'
  <1> USE DEF mvars, pvars
  <1>1. CASE Breaks BY <1>1, Unwritten DEF Breaks, Leave, Writing, JobTypes, SrvSet, WorkerSet
  <1>2. CASE CallerLeaves BY <1>2, Unwritten DEF CallerLeaves, Writing, JobTypes, SrvSet, WorkerSet
  <1>3. CASE EndCall BY <1>3, Unwritten DEF EndCall, Writing, JobTypes, SrvSet, WorkerSet
  <1>4. CASE Says BY <1>4, SpokenWrites DEF Says
  <1>5. CASE Uses BY <1>5, Unwritten DEF Uses, Observes, Flushes, jvars, Writing, JobTypes, SrvSet, WorkerSet
  <1>6. CASE Recalls BY <1>6, Unwritten DEF Recalls, jvars, Writing, JobTypes, SrvSet, WorkerSet
  <1>7. CASE TransferAsked BY <1>7, Unwritten DEF TransferAsked, Writing, JobTypes, SrvSet, WorkerSet
  <1>8. CASE Beats BY <1>8, Unwritten DEF Beats, Writing, JobTypes, SrvSet, WorkerSet
  <1>9. CASE BeatDone BY <1>9, Unwritten DEF BeatDone, Writing, JobTypes, SrvSet, WorkerSet
  <1>10. CASE Over BY <1>10, Unwritten DEF Over, jvars, Writing, JobTypes, SrvSet, WorkerSet
  <1> QED BY <1>1, <1>2, <1>3, <1>4, <1>5, <1>6, <1>7, <1>8, <1>9, <1>10

LEMMA TransferringWrites ==
  ASSUME JobTypes, Written, Transferring
  PROVE  Written'
  <1> USE DEF mvars, pvars
  <1>1. CASE Marks BY <1>1, Unwritten DEF Marks, Follows, ReleaseSlot, Writing, JobTypes, SrvSet, WorkerSet
  <1>2. CASE Marked BY <1>2, Unwritten DEF Marked, Follows, ReleaseSlot, Writing, JobTypes, SrvSet, WorkerSet
  <1>3. CASE DialAnswered BY <1>3, Unwritten DEF DialAnswered, Writing, JobTypes, SrvSet, WorkerSet
  <1>4. CASE DialFails BY <1>4, Unwritten DEF DialFails, Writing, JobTypes, SrvSet, WorkerSet
  <1>5. CASE LegRemoved BY <1>5, Unwritten DEF LegRemoved, Outcomes, Writing, JobTypes, SrvSet, WorkerSet
  <1>6. CASE TransferReleased BY <1>6, Unwritten DEF TransferReleased, Released, Outcomes, Writing, JobTypes, SrvSet, WorkerSet
  <1>7. CASE AnalysisPosted BY <1>7, Unwritten DEF AnalysisPosted, Writing, JobTypes, SrvSet, WorkerSet
  <1> QED BY <1>1, <1>2, <1>3, <1>4, <1>5, <1>6, <1>7 DEF Transferring

LEMMA CleanupWrites ==
  ASSUME JobTypes, Written, Cleanup
  PROVE  Written'
  <1> USE DEF mvars, pvars
  <1>1. CASE StopBeating BY <1>1, Unwritten DEF StopBeating, Step, Writing, JobTypes, SrvSet, WorkerSet
  <1>2. CASE CleanupReleases BY <1>2, Unwritten DEF CleanupReleases, Step, Released, Outcomes, Writing, JobTypes, SrvSet, WorkerSet
  <1>3. CASE StopInput BY <1>3, Unwritten DEF StopInput, Step, Writing, JobTypes, SrvSet, WorkerSet
  <1>4. CASE ClosePipeline BY <1>4, Unwritten DEF ClosePipeline, Step, MarkDisconnected, StopTask, Writing, JobTypes, SrvSet, WorkerSet
  <1>5. CASE CancelAttempt
    <2>1. CASE UNCHANGED <<spoken, pending>>
      BY <1>5, <2>1, Unwritten DEF CancelAttempt, Writing
    <2>2. CASE spoken < conf.words /\ spoken' = spoken + 1 /\ Spawn(Words[spoken + 1])
      BY <1>5, <2>2, SpokenWrites DEF CancelAttempt
    <2> QED BY <1>5, <2>1, <2>2 DEF CancelAttempt
  <1>6. CASE CloseStore BY <1>6, Unwritten DEF CloseStore, Step, CloseBegins, MarkDisconnected, StopTask, Writing, JobTypes, SrvSet, WorkerSet
  <1>7. CASE CloseUsage BY <1>7, Unwritten DEF CloseUsage, Step, UsageCloses, Billed, Outcomes, Writing, JobTypes, SrvSet, WorkerSet
  <1>8. CASE PipelineClosed BY <1>8, Unwritten DEF PipelineClosed, Step, Writing, JobTypes, SrvSet, WorkerSet
  <1>9. CASE FinishCall BY <1>9, Unwritten DEF FinishCall, Step, Outcomes, Writing, JobTypes, SrvSet, WorkerSet
  <1> QED BY <1>1, <1>2, <1>3, <1>4, <1>5, <1>6, <1>7, <1>8, <1>9 DEF Cleanup

LEMMA PersistingWrites ==
  ASSUME JobTypes, Written, Takes \/ AgentResolved \/ SessionOpened \/ StartedEvent \/ Posted \/ OperationTimeout \/ AddMessage(transfer.at \in {"post", "event"}), UNCHANGED <<conf, mvars, jvars>>
  PROVE  Written'
  <1> USE DEF mvars, pvars, jvars
  <1>1. CASE Takes BY <1>1, TakesWrites
  <1>2. CASE AgentResolved BY <1>2, Unwritten DEF AgentResolved, Resting, Writing, JobTypes, SrvSet, WorkerSet
  <1>3. CASE SessionOpened BY <1>3, Unwritten DEF SessionOpened, Resting, Outcomes, Writing, JobTypes, SrvSet, WorkerSet
  <1>4. CASE StartedEvent BY <1>4, Unwritten DEF StartedEvent, Resting, Writing, JobTypes, SrvSet, WorkerSet
  <1>5. CASE Posted
    <2>1. /\ srv'.messages \in {srv.messages, Stored(srv.messages, Key(worker))} /\ worker.at = "post"
          /\ pending' = pending /\ spoken' = spoken /\ (Writing' => worker'.op = worker.op)
      BY <1>5 DEF Posted, Resting, Writing, JobTypes, SrvSet, WorkerSet, jvars
    <2> QED BY <2>1, PostWrites
  <1>6. CASE OperationTimeout
    <2>1. CASE worker.at = "post"
      <3>1. /\ srv'.messages \in {srv.messages, Stored(srv.messages, Key(worker))} /\ ~Writing'
            /\ pending' \in {pending, <<>>} /\ spoken' = spoken
        BY <1>6 DEF OperationTimeout, Abandons, Resting, Writing, JobTypes, SrvSet, jvars
      <3> QED BY <2>1, <3>1, PostWrites
    <2>2. CASE worker.at # "post"
      <3>1. srv'.messages = srv.messages /\ ~Writing' /\ pending' \in {pending, <<>>} /\ spoken' = spoken
        BY <1>6, <2>2 DEF OperationTimeout, Abandons, Resting, Writing, JobTypes, SrvSet, jvars
      <3> QED BY <3>1, Unwritten
    <2> QED BY <2>1, <2>2
  <1>7. CASE AddMessage(transfer.at \in {"post", "event"}) BY <1>7, Unwritten DEF AddMessage, Resting, Writing, JobTypes, SrvSet, WorkerSet
  <1> QED BY <1>1, <1>2, <1>3, <1>4, <1>5, <1>6, <1>7

LEMMA ClosingWrites ==
  ASSUME JobTypes, Written, Closes, UNCHANGED <<conf, mvars, jvars>>
  PROVE  Written'
  <1> USE DEF mvars, pvars, jvars
  <1>1. CASE Drained BY <1>1, Unwritten DEF Drained, Writing, JobTypes, SrvSet, WorkerSet
  <1>2. CASE DrainTimeout
    <2>1. CASE worker.at = "post"
      <3>1. /\ srv'.messages \in {srv.messages, Stored(srv.messages, Key(worker))} /\ ~Writing'
            /\ pending' \in {pending, <<>>} /\ spoken' = spoken
        BY <1>2 DEF DrainTimeout, Abandons, Resting, Writing, JobTypes, SrvSet, jvars
      <3> QED BY <2>1, <3>1, PostWrites
    <2>2. CASE worker.at # "post"
      <3>1. srv'.messages = srv.messages /\ ~Writing' /\ pending' \in {pending, <<>>} /\ spoken' = spoken
        BY <1>2, <2>2 DEF DrainTimeout, Abandons, Resting, Writing, JobTypes, SrvSet, jvars
      <3> QED BY <3>1, Unwritten
    <2> QED BY <2>1, <2>2
  <1>3. CASE RecordingAwaited BY <1>3, Unwritten DEF RecordingAwaited, Writing, JobTypes, SrvSet, WorkerSet
  <1>4. CASE RecordingTimeout BY <1>4, Unwritten DEF RecordingTimeout, Told, Outcomes, Writing, JobTypes, SrvSet, WorkerSet
  <1>5. CASE StopAwaited BY <1>5, Unwritten DEF StopAwaited, Writing, JobTypes, SrvSet, WorkerSet
  <1>6. CASE Finalized BY <1>6, Unwritten DEF Finalized, Writing, JobTypes, SrvSet, WorkerSet
  <1>7. CASE Checked BY <1>7, Unwritten DEF Checked, Writing, JobTypes, SrvSet, WorkerSet
  <1>8. CASE EndPosted BY <1>8, Unwritten DEF EndPosted, Outcomes, Writing, JobTypes, SrvSet, WorkerSet
  <1>9. CASE ClosePublishes("flag", "stop") BY <1>9, Unwritten DEF ClosePublishes, Told, Outcomes, Writing, JobTypes, SrvSet, WorkerSet
  <1>10. CASE ClosePublishes("final", "dirty") BY <1>10, Unwritten DEF ClosePublishes, Told, Outcomes, Writing, JobTypes, SrvSet, WorkerSet
  <1>11. CASE ClosePublishes("again", "end") BY <1>11, Unwritten DEF ClosePublishes, Told, Outcomes, Writing, JobTypes, SrvSet, WorkerSet
  <1> QED BY <1>1, <1>2, <1>3, <1>4, <1>5, <1>6, <1>7, <1>8, <1>9, <1>10, <1>11 DEF Closes

LEMMA RecordingWrites ==
  ASSUME JobTypes, Written, Records, UNCHANGED <<conf, mvars, jvars>>
  PROVE  Written'
  <1> USE DEF mvars, pvars, jvars
  <1>1. CASE RecordingStarted BY <1>1, Unwritten DEF RecordingStarted, StopTask, Writing, JobTypes, SrvSet, WorkerSet
  <1>2. CASE RecordingNotStarted BY <1>2, Unwritten DEF RecordingNotStarted, Writing, JobTypes, SrvSet, WorkerSet
  <1>3. CASE RecordingPublished BY <1>3, Unwritten DEF RecordingPublished, Told, Outcomes, Writing, JobTypes, SrvSet, WorkerSet
  <1>4. CASE StopAnswered BY <1>4, Unwritten DEF StopAnswered, Outcomes, Writing, JobTypes, SrvSet, WorkerSet
  <1> QED BY <1>1, <1>2, <1>3, <1>4 DEF Records

LEMMA BillingWrites ==
  ASSUME JobTypes, Written, Flushed \/ FinalFlushed, UNCHANGED <<conf, mvars, jvars>>
  PROVE  Written'
  <1> USE DEF mvars, pvars, jvars
  <1>1. CASE Flushed BY <1>1, Unwritten DEF Flushed, Billed, Outcomes, Writing, JobTypes, SrvSet, WorkerSet
  <1>2. CASE FinalFlushed BY <1>2, Unwritten DEF FinalFlushed, Billed, Outcomes, Writing, JobTypes, SrvSet, WorkerSet
  <1> QED BY <1>1, <1>2

\* The inductive invariant of a call.
JobInv == JobTypes /\ CallInv /\ Written

----------------------------------------------------------------------------
(* The call job                                                             *)

LEMMA JobStarts == JobInit => JobInv
  <1> SUFFICES ASSUME JobInit PROVE JobInv
    OBVIOUS
  <1> USE DEF JobInit, StoreInit, Resting
  <1>1. JobTypes
    <2>1. spoken \in 0..conf.words
      BY JobAssumption, WordsAre
    <2>2. worker \in WorkerSet BY DEF WorkerSet
    <2>3. rec \in RecSet BY DEF RecSet, Statuses
    <2>4. usage \in UsageSet BY DEF UsageSet
    <2>5. srv \in SrvSet BY DEF SrvSet, Statuses
    <2>6. transfer \in TransferSet BY DEF TransferSet
    <2>7. pending \in Seq(Ops) /\ conf \in Confs
      OBVIOUS
    <2> HIDE DEF JobInit, StoreInit
    <2>8. session \in BOOLEAN /\ ended \in BOOLEAN /\ pipeline \in BOOLEAN /\ stop \in {"none", "asked", "done"}
      BY DEF JobInit, StoreInit
    <2> QED BY <2>1, <2>2, <2>3, <2>4, <2>5, <2>6, <2>7, <2>8 DEF JobTypes
  <1>2. CallInv
    BY DEF CallInv, Building, Opening, Closing, Egress, Status, Billing, Leg, Overdue, Lease, Claimed, Starting, Before, Ending, Trying
  <1>3. Written
    BY DEF Written, Writing
  <1> QED BY <1>1, <1>2, <1>3 DEF JobInv

LEMMA JobSteps == JobInv /\ [JobNext]_jobVars => JobInv'
  <1> SUFFICES ASSUME JobInv, [JobNext]_jobVars PROVE JobInv'
    OBVIOUS
  <1> USE DEF JobInv
  <1>1. CASE Setup BY <1>1, SetupKept, SetupTyped, SetupWrites
  <1>2. CASE Breaks \/ CallerLeaves \/ EndCall \/ Says \/ Uses \/ Recalls \/ TransferAsked \/ Beats \/ BeatDone \/ Over
    BY <1>2, TalkingKept, TalkingTyped, TalkingWrites
  <1>3. CASE Transferring BY <1>3, TransferringKept, TransferringTyped, TransferringWrites
  <1>4. CASE Cleanup BY <1>4, CleanupKept, CleanupTyped, CleanupWrites
  <1>5. CASE Storing
    <2>1. CASE Persists \/ AddMessage(transfer.at \in {"post", "event"})
      BY <1>5, <2>1, PersistingKept, PersistingTyped, PersistingWrites DEF Storing, Persists
    <2>2. CASE Closes BY <1>5, <2>2, ClosingKept, ClosingTyped, ClosingWrites DEF Storing
    <2>3. CASE FinalFlushed BY <1>5, <2>3, BillingKept, BillingTyped, BillingWrites DEF Storing
    <2> QED BY <1>5, <2>1, <2>2, <2>3 DEF Storing
  <1>6. CASE Recording BY <1>6, RecordingKept, RecordingTyped, RecordingWrites DEF Recording
  <1>7. CASE Reporting BY <1>7, BillingKept, BillingTyped, BillingWrites DEF Reporting
  <1>8. CASE UNCHANGED jobVars
    <2>1. Written' BY <1>8, Unwritten DEF jobVars, pvars, jvars, Writing
    <2>2. JobTypes' BY <1>8 DEF jobVars, pvars, jvars, JobTypes
    <2>3. CallInv'
      BY <1>8 DEF jobVars, pvars, jvars, CallInv, Building, Opening, Closing, Egress, Status, Billing, Leg, Overdue, Lease, Claimed, Starting, Browser
    <2> QED BY <2>1, <2>2, <2>3
  <1> QED BY <1>1, <1>2, <1>3, <1>4, <1>5, <1>6, <1>7, <1>8 DEF JobNext

\* In every reachable state of a call, for any configurations and bounds, the
\* queue, the session, the recording, the billing and the lease agree on how far
\* the call is, and a transfer, which close does not stop, owes its leg and at
\* most the two requests of one snapshot (livekit_worker.py:788,
\* pipeline.py:3021, conversation_persist.py:350, 440).
THEOREM JobInvariance == JobSpec => []JobInv
  <1> QED BY JobStarts, JobSteps, PTL DEF JobSpec

\* However a call ends, no service that answered is left believing in it: the
\* reservation is released, the claimed call finished, the session ended, the
\* egress stopped, the last usage and status told; a leg still rings only while
\* the transfer that close leaves behind dials or takes it back
\* (livekit_worker.py:788, pipeline.py:3021, conversation_persist.py:440).
THEOREM SettledHolds == JobSpec => []Settled
  <1>1. JobInv => Settled
    BY DEF JobInv, JobTypes, CallInv, Settled, Building, Opening, Closing, Egress, Status, Billing, Leg, Overdue, Lease, Claimed,
       Ending, Trying, WorkerSet, RecSet, UsageSet, SrvSet, TransferSet
  <1> QED BY <1>1, JobInvariance, PTL

\* A stored message is one of Words, and two of them are in their order.
LEMMA OrderedIs == JobInv => Ordered
  <1>1. \A a \in DOMAIN Words : SubSeq(Words[a], 1, 2) = Words[a]
    BY WordsAre DEF Words
  <1> QED BY <1>1 DEF JobInv, Written, Earlier, Ordered

\* The end is posted when the queue and the recording are over;
\* a heartbeat that was not told to stop has its reservation.
LEMMA SealedIs ==
  ASSUME JobInv, [JobNext]_jobVars
  PROVE  Sealed
  <1>1. srv.session = "ended" => closing = "closed" /\ worker.at \in {"idle", "dead"} /\ rec.at \in {"none", "done"}
    BY DEF JobInv, CallInv, Closing
  <1>2. beat = "sleep" /\ ~halt => resv = "ours" /\ slot # "freed"
    BY DEF JobInv, CallInv, Lease
  <1>3. srv \in SrvSet
    BY DEF JobInv, JobTypes
  <1>4. CASE Setup
    BY <1>1, <1>2, <1>3, <1>4 DEF Sealed, SrvSet, Connects, Step, CallerJoins, ClaimSlot, Leave, Outcomes, ClaimCall, WrongCall, LoadAgent, PublishTrack, StartPipeline, Spawn, Ready, TalkOver, Setup, jvars, pvars
  <1>5. CASE Breaks \/ CallerLeaves \/ EndCall \/ Says \/ Uses \/ Recalls \/ TransferAsked \/ Beats \/ BeatDone \/ Over
    BY <1>1, <1>2, <1>3, <1>5 DEF Sealed, SrvSet, Breaks, Leave, CallerLeaves, EndCall, Says, Spawn, Uses, Observes, Flushes, jvars, Recalls, TransferAsked, Beats, BeatDone, Over, pvars
  <1>6. CASE Transferring
    BY <1>1, <1>2, <1>3, <1>6 DEF Sealed, SrvSet, Marks, AnalysisPosted, Marked, Follows, ReleaseSlot, DialAnswered, DialFails, LegRemoved, Outcomes, TransferReleased, Released, Transferring, jvars, pvars
  <1>7. CASE Cleanup
    BY <1>1, <1>2, <1>3, <1>7 DEF Sealed, SrvSet, StopBeating, Step, CleanupReleases, Released, Outcomes, StopInput, ClosePipeline, MarkDisconnected, StopTask, CancelAttempt, Spawn, CloseStore, CloseBegins, CloseUsage, UsageCloses, Billed, PipelineClosed, FinishCall, Cleanup, jvars, pvars
  <1>8. CASE (Takes \/ AgentResolved \/ SessionOpened \/ StartedEvent \/ Posted \/ OperationTimeout \/ AddMessage(transfer.at \in {"post", "event"})) /\ UNCHANGED jvars
    BY <1>1, <1>2, <1>3, <1>8 DEF Sealed, SrvSet, Takes, AgentResolved, SessionOpened, Outcomes, StartedEvent, Posted, OperationTimeout, Abandons, AddMessage, jvars, pvars
  <1>9. CASE (Closes) /\ UNCHANGED jvars
    BY <1>1, <1>2, <1>3, <1>9 DEF Sealed, SrvSet, Drained, DrainTimeout, Abandons, RecordingAwaited, RecordingTimeout, Told, Outcomes, StopAwaited, Finalized, Checked, EndPosted, ClosePublishes, Closes, jvars, pvars
  <1>10. CASE (Records) /\ UNCHANGED jvars
    BY <1>1, <1>2, <1>3, <1>10 DEF Sealed, SrvSet, RecordingStarted, StopTask, RecordingNotStarted, RecordingPublished, Told, Outcomes, StopAnswered, Records, jvars, pvars
  <1>11. CASE (Flushed \/ FinalFlushed) /\ UNCHANGED jvars
    BY <1>1, <1>2, <1>3, <1>11 DEF Sealed, SrvSet, Flushed, Billed, Outcomes, FinalFlushed, jvars, pvars
  <1>12. CASE UNCHANGED jobVars
    BY <1>12 DEF Sealed, jobVars, pvars, jvars
  <1> QED BY <1>4, <1>5, <1>6, <1>7, <1>8, <1>9, <1>10, <1>11, <1>12 DEF JobNext, Storing, Recording, Reporting, Persists

\* The transcript is stored in the order it was spoken and without repeats,
\* after the end of the session the queue and the recording write nothing and a
\* transfer at most the two requests of its snapshot, and no heartbeat renews a
\* released reservation (conversation_persist.py:313, 350, 468, livekit_worker.py:546).
THEOREM EndIsLastHolds == JobSpec => EndIsLast
  <1>1. JobInv => Ordered /\ transfer.late <= 2
    BY OrderedIs DEF JobInv, CallInv, Overdue
  <1> QED BY <1>1, JobStarts, JobSteps, SealedIs, PTL DEF JobSpec, EndIsLast

----------------------------------------------------------------------------
(* The conversation memory.                                                  *)

MessageSet == [of : Nat, kind : {"user", "request", "reply", "answer"}, cut : BOOLEAN]
TurnSet == [id : Nat, messages : Seq(MessageSet), closed : BOOLEAN, answered : BOOLEAN, interrupted : BOOLEAN, listening : BOOLEAN]

\* A turn's messages are its own, a tool's call and its reply among them
\* together; no id is twice in the list, and what follows the latest turn was
\* added by a tool and is not closed.
Sound(t) ==
  /\ \A m \in Range(t.messages) : m.of = t.id
  /\ (\E m \in Range(t.messages) : m.kind = "request") <=> (\E m \in Range(t.messages) : m.kind = "reply")
Exchanges(ts, c) ==
  /\ ts \in Seq(TurnSet)
  /\ \A i \in DOMAIN ts : ts[i].id <= c /\ Sound(ts[i])
  /\ \A i, j \in DOMAIN ts : ts[i].id = ts[j].id => i = j
  /\ \A i, j \in DOMAIN ts : ts[i].id = c /\ i < j => ~ts[j].closed

\* A summary is of earlier turns and covers a call with its reply.
Summarised ==
  /\ cur \in Nat /\ idle \in BOOLEAN /\ summary \subseteq MessageSet
  /\ \A m \in summary : m.of < cur
  /\ \A m \in summary : m.kind = "request" => \E r \in summary : r.of = m.of /\ r.kind = "reply"

\* A summary is written while nobody speaks, of all but the latest turn.
Snapshots ==
  \A c \in compact :
    /\ c.ids \in Seq(Nat) /\ DOMAIN c.shown = DOMAIN c.ids
    /\ \A i \in DOMAIN c.ids : c.ids[i] # cur
    /\ c.covers = summary \union UNION {Range(c.shown[i].of) : i \in DOMAIN c.shown}

MemoryInv == Exchanges(turns, cur) /\ Summarised /\ Snapshots /\ Whole

----------------------------------------------------------------------------
(* What the turns retain                                                     *)

\* A list of turns whose messages are those of another and some of one turn.
Gains(ts, us, id) == \A m \in Retained(us) : m \in Retained(ts) \/ m.of = id

\* A message is retained in one of the turns.
LEMMA RetainedIs ==
  ASSUME NEW ts, NEW m
  PROVE  m \in Retained(ts) <=> \E i \in DOMAIN ts : m \in Range(ts[i].messages)
  BY DEF Retained

\* What a turn holds once a message, or a call with its reply, was added.
LEMMA Prepended ==
  ASSUME NEW S, NEW s \in Seq(S), NEW x \in S
  PROVE  <<x>> \o s \in Seq(S) /\ Range(<<x>> \o s) = Range(s) \union {x}
  <1>1. /\ <<x>> \in Seq(S) /\ Len(<<x>>) = 1 /\ <<x>>[1] = x
    OBVIOUS
  <1> DEFINE u == <<x>> \o s
  <1>2. /\ u \in Seq(S) /\ Len(u) = 1 + Len(s) /\ DOMAIN u = 1..(1 + Len(s)) /\ DOMAIN s = 1..Len(s) /\ Len(s) \in Nat
        /\ \A i \in DOMAIN u : u[i] = IF i <= 1 THEN x ELSE s[i - 1]
    BY <1>1, ConcatProperties, LenProperties
  <1> HIDE DEF u
  <1>3. \A i \in DOMAIN s : i + 1 \in DOMAIN u /\ u[i + 1] = s[i]
    BY <1>2
  <1>4. 1 \in DOMAIN u /\ u[1] = x
    BY <1>2
  <1>5. \A i \in DOMAIN u : u[i] = x \/ (i - 1 \in DOMAIN s /\ u[i] = s[i - 1])
    BY <1>2
  <1>6. Range(u) = Range(s) \union {x}
    BY <1>3, <1>4, <1>5 DEF Range
  <1> QED BY <1>2, <1>6 DEF u

LEMMA Appended ==
  ASSUME NEW S, NEW s \in Seq(S), NEW x \in S
  PROVE  Append(s, x) \in Seq(S) /\ Range(Append(s, x)) = Range(s) \union {x}
  <1> DEFINE u == Append(s, x)
  <1>1. /\ u \in Seq(S) /\ DOMAIN u = 1..(Len(s) + 1) /\ DOMAIN s = 1..Len(s) /\ Len(s) \in Nat
        /\ \A i \in DOMAIN s : i \in DOMAIN u /\ u[i] = s[i]
        /\ Len(s) + 1 \in DOMAIN u /\ u[Len(s) + 1] = x
    OBVIOUS
  <1> HIDE DEF u
  <1>2. \A i \in DOMAIN u : i \in DOMAIN s \/ i = Len(s) + 1
    BY <1>1
  <1>3. Range(u) = Range(s) \union {x}
    BY <1>1, <1>2 DEF Range
  <1> QED BY <1>1, <1>3 DEF u

LEMMA AppendedBoth ==
  ASSUME NEW S, NEW s \in Seq(S), NEW x \in S, NEW y \in S
  PROVE  s \o <<x, y>> \in Seq(S) /\ Range(s \o <<x, y>>) = Range(s) \union {x, y}
  <1>1. s \o <<x, y>> = Append(Append(s, x), y)
    OBVIOUS
  <1>2. Append(s, x) \in Seq(S)
    OBVIOUS
  <1>3. Range(Append(s, x)) = Range(s) \union {x}
    BY Appended
  <1> DEFINE r == Append(s, x)
  <1> HIDE DEF r
  <1>4. r \in Seq(S)
    BY <1>2 DEF r
  <1>5. Append(r, y) \in Seq(S) /\ Range(Append(r, y)) = Range(r) \union {y}
    BY <1>4, Appended
  <1> QED BY <1>1, <1>3, <1>5 DEF r

\* No id is twice in the list: its place is the one index that has it.
LEMMA PlaceIs ==
  ASSUME NEW ts, NEW c, Exchanges(ts, c), NEW id, Places(ts, id) # {}
  PROVE  Place(ts, id) \in DOMAIN ts /\ ts[Place(ts, id)].id = id
  <1>1. PICK p \in Places(ts, id) : TRUE
    OBVIOUS
  <1>2. \A j \in Places(ts, id) : j <= p
    <2>1. \A j \in Places(ts, id) : j = p /\ p \in Int
      BY <1>1 DEF Places, Exchanges
    <2> QED BY <2>1
  <1>3. Place(ts, id) \in Places(ts, id)
    BY <1>1, <1>2 DEF Place
  <1> QED BY <1>3 DEF Places

\* A new turn has no messages.
LEMMA FreshTurn ==
  ASSUME NEW id \in Nat
  PROVE  /\ MemoryTurn(id) \in TurnSet /\ Sound(MemoryTurn(id)) /\ MemoryTurn(id).id = id
         /\ ~MemoryTurn(id).closed /\ Range(MemoryTurn(id).messages) = {}
  <1>1. MemoryTurn(id).messages = <<>> /\ MemoryTurn(id).id = id /\ ~MemoryTurn(id).closed
    BY DEF MemoryTurn
  <1>2. MemoryTurn(id) \in TurnSet
    BY DEF MemoryTurn, TurnSet
  <1>3. Range(MemoryTurn(id).messages) = {}
    BY <1>1 DEF Range
  <1> QED BY <1>1, <1>2, <1>3 DEF Sound

LEMMA TurnIs ==
  ASSUME NEW ts, NEW c, Exchanges(ts, c), NEW p \in DOMAIN ts
  PROVE  ts[p] \in TurnSet /\ Sound(ts[p]) /\ ts[p].messages \in Seq(MessageSet) /\ ts[p].id \in Nat
  <1>1. ts \in Seq(TurnSet) /\ Sound(ts[p])
    BY DEF Exchanges
  <1>2. ts[p] \in TurnSet
    BY <1>1
  <1> QED BY <1>1, <1>2 DEF TurnSet

\* The turn that an operation writes to.
LEMMA TurnOfIs ==
  ASSUME NEW ts, NEW c \in Nat, Exchanges(ts, c), NEW id \in Nat, id <= c
  PROVE  /\ Exchanges(TurnOf(ts, id), c) /\ Retained(TurnOf(ts, id)) = Retained(ts)
         /\ Place(TurnOf(ts, id), id) \in DOMAIN TurnOf(ts, id) /\ TurnOf(ts, id)[Place(TurnOf(ts, id), id)].id = id
  <1>1. CASE Places(ts, id) # {}
    BY <1>1, PlaceIs DEF TurnOf
  <1>2. CASE Places(ts, id) = {}
    <2> DEFINE t == MemoryTurn(id)
               u == Append(ts, t)
    <2>1. /\ t \in TurnSet /\ Sound(t) /\ t.id = id /\ ~t.closed /\ Range(t.messages) = {}
      BY FreshTurn
    <2> HIDE DEF t
    <2>2. ts \in Seq(TurnSet) /\ \A i \in DOMAIN ts : ts[i].id # id
      BY <1>2 DEF Exchanges, Places
    <2>3. /\ u \in Seq(TurnSet) /\ DOMAIN u = DOMAIN ts \union {Len(ts) + 1} /\ Len(ts) + 1 \notin DOMAIN ts
          /\ u[Len(ts) + 1] = t /\ Len(ts) \in Nat
          /\ \A i \in DOMAIN ts : u[i] = ts[i] /\ i < Len(ts) + 1 /\ i \in Int
      BY <2>1, <2>2
    <2> HIDE DEF u
    <2>4. Exchanges(u, c)
      BY <2>1, <2>2, <2>3 DEF Exchanges
    <2>5. Retained(u) = Retained(ts)
      BY <2>1, <2>3 DEF Retained
    <2>6. Places(u, id) # {}
      BY <2>1, <2>3 DEF Places
    <2>7. TurnOf(ts, id) = u
      BY <1>2 DEF TurnOf, u, t
    <2> QED BY <2>4, <2>5, <2>6, <2>7, PlaceIs
  <1> QED BY <1>1, <1>2

\* One turn is written to.
\* A list in which one turn was replaced by a sound turn of the same id.
LEMMA Edited ==
  ASSUME NEW ts, NEW c, Exchanges(ts, c), NEW p \in DOMAIN ts, NEW t \in TurnSet,
         t.id = ts[p].id, Sound(t), t.closed => ts[p].closed \/ t.id = c
  PROVE  /\ Exchanges([ts EXCEPT ![p] = t], c)
         /\ Retained([ts EXCEPT ![p] = t]) \subseteq Retained(ts) \union Range(t.messages)
  <1> DEFINE u == [ts EXCEPT ![p] = t]
  <1>1. ts \in Seq(TurnSet) /\ DOMAIN ts \subseteq Int
    BY DEF Exchanges
  <1>2. u \in Seq(TurnSet) /\ DOMAIN u = DOMAIN ts /\ \A i \in DOMAIN ts : u[i] = IF i = p THEN t ELSE ts[i]
    BY <1>1
  <1> HIDE DEF u
  <1>3. Exchanges(u, c)
    BY <1>1, <1>2 DEF Exchanges
  <1>4. Retained(u) \subseteq Retained(ts) \union Range(t.messages)
    BY <1>2 DEF Retained
  <1> QED BY <1>3, <1>4 DEF u

----------------------------------------------------------------------------
(* The operations of the memory                                              *)

LEMMA MessageIs ==
  ASSUME NEW id \in Nat, NEW kind \in {"user", "request", "reply", "answer"}
  PROVE  MessageOf(id, kind) \in MessageSet /\ MessageOf(id, kind).of = id /\ MessageOf(id, kind).kind = kind
  BY DEF MessageOf, MessageSet

LEMMA UserIs ==
  ASSUME NEW ts, NEW c \in Nat, Exchanges(ts, c), NEW id \in Nat, id <= c, NEW l \in BOOLEAN
  PROVE  Exchanges(User(ts, id, l), c) /\ Gains(ts, User(ts, id, l), id)
  <1> DEFINE u == TurnOf(ts, id)
             p == Place(u, id)
             o == u[p]
  <1>1. Exchanges(u, c) /\ Retained(u) = Retained(ts) /\ p \in DOMAIN u /\ o.id = id
    BY TurnOfIs
  <1>2. o \in TurnSet /\ Sound(o) /\ o.messages \in Seq(MessageSet)
    BY <1>1, TurnIs
  <1>3. CASE Has(o, "user")
    <2>1. User(ts, id, l) = u
      BY <1>3 DEF User
    <2> HIDE DEF u
    <2> QED BY <1>1, <2>1 DEF Gains
  <1>4. CASE ~Has(o, "user")
    <2> DEFINE x == MessageOf(id, "user")
               s == <<x>> \o o.messages
               t == [o EXCEPT !.listening = l, !.messages = s]
    <2>1. User(ts, id, l) = [u EXCEPT ![p] = t]
      BY <1>4 DEF User
    <2>2. /\ x \in MessageSet /\ x.of = id /\ x.kind = "user"
      BY MessageIs
    <2>3. s \in Seq(MessageSet) /\ Range(s) = Range(o.messages) \union {x}
      BY <1>2, <2>2, Prepended
    <2>4. \A m \in Range(o.messages) : m \in Retained(ts)
      BY <1>1 DEF Retained
    <2> HIDE DEF u, p, o, x, s
    <2>5. t \in TurnSet /\ t.id = o.id /\ (t.closed => o.closed) /\ t.messages = s
      BY <1>2, <2>3 DEF TurnSet
    <2> HIDE DEF t
    <2>6. Sound(t)
      BY <1>1, <1>2, <2>2, <2>3, <2>5 DEF Sound
    <2>7. /\ Exchanges([u EXCEPT ![p] = t], c)
          /\ Retained([u EXCEPT ![p] = t]) \subseteq Retained(u) \union Range(t.messages)
      BY <1>1, <2>5, <2>6, Edited DEF o
    <2> QED BY <1>1, <2>1, <2>2, <2>3, <2>4, <2>5, <2>7 DEF Gains
  <1> QED BY <1>3, <1>4

LEMMA ToolIs ==
  ASSUME NEW ts, NEW c \in Nat, Exchanges(ts, c), NEW id \in Nat, id <= c
  PROVE  Exchanges(Tool(ts, id), c) /\ \A m \in Retained(Tool(ts, id)) : m \in Retained(ts) \/ (m.of = id /\ m.kind \in {"request", "reply"})
  <1> DEFINE u == TurnOf(ts, id)
             p == Place(u, id)
             o == u[p]
  <1>1. Exchanges(u, c) /\ Retained(u) = Retained(ts) /\ p \in DOMAIN u /\ o.id = id
    BY TurnOfIs
  <1>2. o \in TurnSet /\ Sound(o) /\ o.messages \in Seq(MessageSet)
    BY <1>1, TurnIs
  <1>3. CASE Has(o, "reply")
    <2>1. Tool(ts, id) = u
      BY <1>3 DEF Tool
    <2> HIDE DEF u
    <2> QED BY <1>1, <2>1
  <1>4. CASE ~Has(o, "reply")
    <2> DEFINE x == MessageOf(id, "request")
                 y == MessageOf(id, "reply")
               s == o.messages \o <<x, y>>
               t == [o EXCEPT !.messages = s]
    <2>1. Tool(ts, id) = [u EXCEPT ![p] = t]
      BY <1>4 DEF Tool
    <2>2. /\ x \in MessageSet /\ x.of = id /\ x.kind = "request"
          /\ y \in MessageSet /\ y.of = id /\ y.kind = "reply"
      BY MessageIs
    <2>3. s \in Seq(MessageSet) /\ Range(s) = Range(o.messages) \union {x, y}
      BY <1>2, <2>2, AppendedBoth
    <2>4. \A m \in Range(o.messages) : m \in Retained(ts)
      BY <1>1 DEF Retained
    <2> HIDE DEF u, p, o, x, y, s
    <2>5. t \in TurnSet /\ t.id = o.id /\ (t.closed => o.closed) /\ t.messages = s
      BY <1>2, <2>3 DEF TurnSet
    <2> HIDE DEF t
    <2>6. Sound(t)
      BY <1>1, <1>2, <2>2, <2>3, <2>5 DEF Sound
    <2>7. /\ Exchanges([u EXCEPT ![p] = t], c)
          /\ Retained([u EXCEPT ![p] = t]) \subseteq Retained(u) \union Range(t.messages)
      BY <1>1, <2>5, <2>6, Edited DEF o
    <2> QED BY <1>1, <2>1, <2>2, <2>3, <2>4, <2>5, <2>7
  <1> QED BY <1>3, <1>4

LEMMA AnswerIs ==
  ASSUME NEW ts, NEW c \in Nat, Exchanges(ts, c), NEW id \in Nat, id <= c
  PROVE  Exchanges(Answer(ts, id), c) /\ Gains(ts, Answer(ts, id), id)
  <1> DEFINE u == TurnOf(ts, id)
             p == Place(u, id)
             o == u[p]
  <1>1. Exchanges(u, c) /\ Retained(u) = Retained(ts) /\ p \in DOMAIN u /\ o.id = id
    BY TurnOfIs
  <1>2. o \in TurnSet /\ Sound(o) /\ o.messages \in Seq(MessageSet)
    BY <1>1, TurnIs
  <1>3. CASE o.answered
    <2>1. Answer(ts, id) = u
      BY <1>3 DEF Answer
    <2> HIDE DEF u
    <2> QED BY <1>1, <2>1 DEF Gains
  <1>4. CASE ~o.answered
    <2> DEFINE x == MessageOf(id, "answer")
               s == Append(o.messages, x)
               t == [o EXCEPT !.answered = TRUE, !.messages = s]
    <2>1. Answer(ts, id) = [u EXCEPT ![p] = t]
      BY <1>4 DEF Answer
    <2>2. /\ x \in MessageSet /\ x.of = id /\ x.kind = "answer"
      BY MessageIs
    <2>3. s \in Seq(MessageSet) /\ Range(s) = Range(o.messages) \union {x}
      BY <1>2, <2>2, Appended
    <2>4. \A m \in Range(o.messages) : m \in Retained(ts)
      BY <1>1 DEF Retained
    <2> HIDE DEF u, p, o, x, s
    <2>5. t \in TurnSet /\ t.id = o.id /\ (t.closed => o.closed) /\ t.messages = s
      BY <1>2, <2>3 DEF TurnSet
    <2> HIDE DEF t
    <2>6. Sound(t)
      BY <1>1, <1>2, <2>2, <2>3, <2>5 DEF Sound
    <2>7. /\ Exchanges([u EXCEPT ![p] = t], c)
          /\ Retained([u EXCEPT ![p] = t]) \subseteq Retained(u) \union Range(t.messages)
      BY <1>1, <2>5, <2>6, Edited DEF o
    <2> QED BY <1>1, <2>1, <2>2, <2>3, <2>4, <2>5, <2>7 DEF Gains
  <1> QED BY <1>3, <1>4

\* The note on the last message changes neither whose it is nor its kind.
LEMMA NotedIs ==
  ASSUME NEW t \in TurnSet, Sound(t), NEW b \in BOOLEAN
  PROVE  /\ Noted(t, b) \in Seq(MessageSet)
         /\ \A m \in Range(Noted(t, b)) : \E n \in Range(t.messages) : n.of = m.of /\ n.kind = m.kind
         /\ \A n \in Range(t.messages) : \E m \in Range(Noted(t, b)) : n.of = m.of /\ n.kind = m.kind
         /\ b = FALSE => Noted(t, b) = t.messages
  <1> DEFINE s == t.messages
             u == Noted(t, b)
  <1>1. s \in Seq(MessageSet)
    BY DEF TurnSet
  <1>2. \A i \in DOMAIN s : s[i] \in MessageSet
    BY <1>1
  <1>3. \A i \in DOMAIN s : LET x == [s[i] EXCEPT !.cut = TRUE] IN x \in MessageSet /\ x.of = s[i].of /\ x.kind = s[i].kind
    BY <1>2 DEF MessageSet
  <1>4. u \in Seq(MessageSet) /\ DOMAIN u = DOMAIN s /\ \A i \in DOMAIN s : u[i].of = s[i].of /\ u[i].kind = s[i].kind
    BY <1>1, <1>2, <1>3 DEF Noted
  <1>5. b = FALSE => u = s
    BY DEF Noted
  <1> HIDE DEF s, u
  <1>6. \A m \in Range(u) : \E n \in Range(s) : n.of = m.of /\ n.kind = m.kind
    BY <1>4 DEF Range
  <1>7. \A n \in Range(s) : \E m \in Range(u) : n.of = m.of /\ n.kind = m.kind
    BY <1>4 DEF Range
  <1> QED BY <1>4, <1>5, <1>6, <1>7 DEF s, u

\* Only the latest turn is finished; what is not interrupted keeps its messages.
LEMMA FinishIs ==
  ASSUME NEW ts, NEW c \in Nat, Exchanges(ts, c), NEW b \in BOOLEAN
  PROVE  Exchanges(Finish(ts, c, b), c) /\ Gains(ts, Finish(ts, c, b), c)
  <1>1. CASE Places(ts, c) = {}
    BY <1>1 DEF Finish, Gains
  <1>2. CASE Places(ts, c) # {}
    <2> DEFINE p == Place(ts, c)
               o == ts[p]
               s == Noted(o, b)
               i == o.interrupted \/ b
               t == [o EXCEPT !.closed = TRUE, !.interrupted = i, !.messages = s]
    <2>1. Finish(ts, c, b) = [ts EXCEPT ![p] = t]
      BY <1>2 DEF Finish
    <2>2. p \in DOMAIN ts /\ o.id = c
      BY <1>2, PlaceIs
    <2>3. o \in TurnSet /\ Sound(o)
      BY <2>2, TurnIs
    <2>4. /\ s \in Seq(MessageSet) /\ i \in BOOLEAN
          /\ \A m \in Range(s) : \E n \in Range(o.messages) : n.of = m.of /\ n.kind = m.kind
          /\ \A n \in Range(o.messages) : \E m \in Range(s) : n.of = m.of /\ n.kind = m.kind
      BY <2>3, NotedIs
    <2> HIDE DEF p, o, s, i
    <2>5. t \in TurnSet /\ t.id = o.id /\ t.messages = s
      BY <2>3, <2>4 DEF TurnSet
    <2> HIDE DEF t
    <2>6. Sound(t)
      BY <2>3, <2>4, <2>5 DEF Sound
    <2>7. /\ Exchanges([ts EXCEPT ![p] = t], c)
          /\ Retained([ts EXCEPT ![p] = t]) \subseteq Retained(ts) \union Range(t.messages)
      BY <2>2, <2>5, <2>6, Edited DEF o
    <2> QED BY <2>1, <2>2, <2>5, <2>6, <2>7 DEF Gains, Sound
  <1> QED BY <1>1, <1>2

LEMMA ListenIs ==
  ASSUME NEW ts, NEW c \in Nat, Exchanges(ts, c)
  PROVE  LET u == TurnOf(ts, c)
             v == [u EXCEPT ![Place(u, c)].listening = TRUE]
         IN  Exchanges(v, c) /\ Gains(ts, v, c)
  <1> DEFINE u == TurnOf(ts, c)
             p == Place(u, c)
             o == u[p]
             t == [o EXCEPT !.listening = TRUE]
  <1>1. Exchanges(u, c) /\ Retained(u) = Retained(ts) /\ p \in DOMAIN u /\ o.id = c
    BY TurnOfIs
  <1>2. o \in TurnSet /\ Sound(o)
    BY <1>1, TurnIs
  <1>3. [u EXCEPT ![p].listening = TRUE] = [u EXCEPT ![p] = t]
    OBVIOUS
  <1> HIDE DEF u, p, o
  <1>4. t \in TurnSet /\ t.id = o.id /\ t.messages = o.messages
    BY <1>2 DEF TurnSet
  <1> HIDE DEF t
  <1>5. Sound(t)
    BY <1>2, <1>4 DEF Sound
  <1>6. /\ Exchanges([u EXCEPT ![p] = t], c)
        /\ Retained([u EXCEPT ![p] = t]) \subseteq Retained(u) \union Range(t.messages)
    BY <1>1, <1>4, <1>5, Edited DEF o
  <1>7. Gains(ts, [u EXCEPT ![p] = t], c)
    BY <1>1, <1>4, <1>5, <1>6 DEF Gains, Sound
  <1> QED BY <1>3, <1>6, <1>7 DEF u, p

LEMMA GainsAgain ==
  ASSUME NEW ts, NEW us, NEW vs, NEW id, Gains(ts, us, id), Gains(us, vs, id)
  PROVE  Gains(ts, vs, id)
  BY DEF Gains

----------------------------------------------------------------------------
(* What is summarised                                                        *)

LEMMA Greatest ==
  ASSUME NEW N \in Nat, NEW S, S \subseteq 1..N, S # {}
  PROVE  \E k \in S : \A i \in S : i <= k
  <1> DEFINE R == OpToRel(<, Nat)
             T == {N - k : k \in S}
  <1>1. \A x, y \in Nat : x < y => <<x, y>> \in R
    BY DEF OpToRel
  <1>2. IsWellFoundedOn(R, Nat)
    BY NatLessThanWellFounded, Zenon
  <1>3. T \subseteq Nat /\ T # {}
    <2>1. \A k \in S : N - k \in Nat
      OBVIOUS
    <2> QED BY <2>1
  <1>4. \A k \in S : N - k \in T
    OBVIOUS
  <1> HIDE DEF R
  <1>5. PICK m \in T : \A i \in T : ~(<<i, m>> \in R)
    <2> HIDE DEF T
    <2> QED BY <1>2, <1>3, WFMin
  <1>6. PICK k \in S : m = N - k
    BY <1>5
  <1>7. \A i \in S : ~(N - i < N - k)
    BY <1>1, <1>3, <1>4, <1>5, <1>6
  <1>8. \A i \in S : i <= k
    BY <1>6, <1>7
  <1> QED BY <1>6, <1>8

\* Beyond the latest turn at most one exchange ends, so that it is never among
\* the turns that are summarised.
LEMMA PrefixIs ==
  ASSUME NEW ts, NEW c \in Nat, Exchanges(ts, c), Prefix(ts) > 0
  PROVE  Prefix(ts) \in 1..Len(ts) /\ \A i \in 1..Prefix(ts) : ts[i].id # c
  <1> DEFINE E == Ends(ts)
             N == Len(ts)
             n == Eligible(ts)
             fit == {e \in E : e <= n /\ Cost(SubSeq(ts, 1, e)) <= Tokens}
  <1>1. N \in Nat /\ DOMAIN ts = 1..N
    BY DEF Exchanges
  <1>2. E \subseteq 1..N
    BY <1>1 DEF Ends
  <1>3. \A e \in E : e = N \/ ts[e].closed
    BY DEF Ends
  <1>4. fit # {} /\ Prefix(ts) = CHOOSE e \in fit : \A f \in fit : f <= e
    BY DEF Prefix
  <1> HIDE DEF E
  <1>5. Prefix(ts) \in fit
    <2>1. fit \subseteq 1..N
      BY <1>2
    <2> HIDE DEF fit
    <2> QED BY <1>1, <1>4, <2>1, Greatest
  <1>6. Prefix(ts) \in 1..N /\ Prefix(ts) <= n
    BY <1>2, <1>5
  <1>7. n \in E /\ Cardinality({f \in E : f > n}) = Keep
    <2> DEFINE last == {e \in E : Cardinality({f \in E : f > e}) = Keep}
    <2>1. n = IF last = {} THEN 0 ELSE CHOOSE e \in last : TRUE
      BY DEF Eligible, E
    <2>2. last # {}
      BY <1>6, <2>1
    <2>3. n \in last
      BY <2>1, <2>2
    <2> QED BY <2>3
  <1> HIDE DEF n
  <1>8. ASSUME NEW p \in DOMAIN ts, ts[p].id = c PROVE n < p
    <2> SUFFICES ASSUME ~(n < p) PROVE FALSE
      OBVIOUS
    <2>1. \A f \in E : f > n => f \in DOMAIN ts /\ p < f
      BY <1>1, <1>2, <1>7
    <2>2. \A f \in DOMAIN ts : p < f => ~ts[f].closed
      BY <1>8 DEF Exchanges
    <2> DEFINE F == {f \in E : f > n}
    <2>3. F \in SUBSET {N}
      BY <1>3, <2>1, <2>2
    <2>4. Cardinality(F) = Keep
      BY <1>7
    <2> HIDE DEF F
    <2>5. IsFiniteSet({N}) /\ Cardinality({N}) = 1
      BY FS_Singleton
    <2>6. Cardinality(F) <= 1
      BY <2>3, <2>5, FS_Subset
    <2> QED BY <2>4, <2>6, MemoryAssumption
  <1>9. \A i \in 1..Prefix(ts) : i \in DOMAIN ts /\ i <= n
    BY <1>1, <1>2, <1>6, <1>7
  <1> QED BY <1>1, <1>2, <1>6, <1>7, <1>8, <1>9

----------------------------------------------------------------------------
(* The pipeline's use of it                                                  *)

LEMMA Retains ==
  ASSUME Whole, NEW us, Retain(us), \A m \in Retained(us) : m \in Retained(turns) \/ m \notin summary
  PROVE  Whole'
  <1>1. turns' = us /\ summary' = summary
        /\ said' = (said \ (Retained(turns) \ Retained(us))) \union (Retained(us) \ Retained(turns))
    BY DEF Retain
  <1>2. Retained(turns)' = Retained(us)
    BY <1>1 DEF Retained
  <1> QED BY <1>1, <1>2 DEF Whole

\* Retaining something of the latest turn.
LEMMA LatestKept ==
  ASSUME MemoryInv, NEW us, Exchanges(us, cur), Gains(turns, us, cur), Retain(us),
         cur' = cur, idle' \in BOOLEAN, compact' \in {compact, {}}
  PROVE  MemoryInv'
  <1>1. turns' = us /\ summary' = summary
    BY DEF Retain
  <1>2. Exchanges(turns, cur)'
    BY <1>1 DEF Exchanges
  <1>3. Summarised'
    BY <1>1 DEF MemoryInv, Summarised
  <1>4. Snapshots'
    BY <1>1 DEF MemoryInv, Snapshots
  <1>5. Whole'
    <2>1. \A m \in Retained(us) : m \in Retained(turns) \/ m \notin summary
      <3> SUFFICES ASSUME NEW m \in Retained(us), m.of = cur, m \in summary PROVE FALSE
        BY DEF Gains
      <3> QED BY DEF MemoryInv, Summarised
    <2> QED BY <2>1, Retains DEF MemoryInv
  <1> QED BY <1>2, <1>3, <1>4, <1>5 DEF MemoryInv

LEMMA CallerSaysKept ==
  ASSUME MemoryInv, CallerSays
  PROVE  MemoryInv'
  <1>1. PICK l \in BOOLEAN : Retain(User(turns, cur + 1, l)) /\ cur' = cur + 1 /\ idle' = FALSE /\ compact' = {}
    BY DEF CallerSays, Paused
  <1> DEFINE us == User(turns, cur + 1, l)
  <1>2. cur \in Nat /\ cur + 1 \in Nat /\ Exchanges(turns, cur)
    BY DEF MemoryInv, Summarised
  <1>3. Exchanges(turns, cur + 1)
    <2>1. \A i \in DOMAIN turns : turns[i].id \in Nat /\ turns[i].id <= cur /\ Sound(turns[i])
      BY <1>2, TurnIs DEF Exchanges
    <2>2. \A i \in DOMAIN turns : turns[i].id <= cur + 1 /\ turns[i].id # cur + 1
      BY <1>2, <2>1
    <2> QED BY <1>2, <2>1, <2>2 DEF Exchanges
  <1>4. Exchanges(us, cur + 1) /\ Gains(turns, us, cur + 1)
    BY <1>2, <1>3, UserIs
  <1> HIDE DEF us
  <1>5. Retain(us) /\ turns' = us /\ summary' = summary
    BY <1>1 DEF Retain, us
  <1>6. \A m \in summary : m.of < cur /\ m.of \in Nat
    BY DEF MemoryInv, Summarised, MessageSet
  <1>7. Exchanges(turns, cur)'
    BY <1>1, <1>4, <1>5 DEF Exchanges
  <1>8. Summarised'
    <2>1. \A m \in summary : m.of < cur + 1
      BY <1>2, <1>6
    <2> QED BY <1>1, <1>2, <1>5, <2>1 DEF MemoryInv, Summarised
  <1>9. Snapshots'
    BY <1>1 DEF Snapshots
  <1>10. Whole'
    <2>1. \A m \in Retained(us) : m \in Retained(turns) \/ m \notin summary
      <3> SUFFICES ASSUME NEW m \in Retained(us), m.of = cur + 1, m \in summary PROVE FALSE
        BY <1>4 DEF Gains
      <3> QED BY <1>2, <1>6
    <2> QED BY <1>5, <2>1, Retains DEF MemoryInv
  <1> QED BY <1>7, <1>8, <1>9, <1>10 DEF MemoryInv

\* A late result goes to a turn of its own when the summary covers the other.
LEMMA RetainToolKept ==
  ASSUME MemoryInv, RetainTool
  PROVE  MemoryInv'
  <1>1. PICK id \in 1..cur : /\ id \notin {m.of : m \in {s \in said : s.kind = "reply"}} /\ Retain(Tool(turns, id))
                             /\ cur' = cur /\ idle' = idle /\ compact' = compact
    BY DEF RetainTool
  <1> DEFINE us == Tool(turns, id)
  <1>2. cur \in Nat /\ id \in Nat /\ id <= cur /\ Exchanges(turns, cur)
    BY DEF MemoryInv, Summarised
  <1>3. /\ Exchanges(us, cur)
        /\ \A m \in Retained(us) : m \in Retained(turns) \/ (m.of = id /\ m.kind \in {"request", "reply"})
    BY <1>2, ToolIs
  <1> HIDE DEF us
  <1>4. Retain(us) /\ turns' = us /\ summary' = summary
    BY <1>1 DEF Retain, us
  <1>5. \A m \in summary : m.kind = "reply" => m.of # id
    BY <1>1 DEF MemoryInv, Whole
  <1>6. \A m \in summary : m.kind = "request" => m.of # id
    BY <1>5 DEF MemoryInv, Summarised
  <1>7. Whole'
    BY <1>3, <1>4, <1>5, <1>6, Retains DEF MemoryInv
  <1>8. Exchanges(turns, cur)'
    BY <1>1, <1>3, <1>4 DEF Exchanges
  <1>9. Summarised' /\ Snapshots'
    BY <1>1, <1>4 DEF MemoryInv, Summarised, Snapshots
  <1> QED BY <1>7, <1>8, <1>9 DEF MemoryInv

LEMMA AnsweringKept ==
  ASSUME MemoryInv, CommitAnswer \/ CommitSilence \/ PlaybackStops \/ Interrupted
  PROVE  MemoryInv'
  <1>1. cur \in Nat /\ cur <= cur /\ Exchanges(turns, cur) /\ idle \in BOOLEAN
    BY DEF MemoryInv, Summarised
  <1>2. CASE CommitAnswer
    <2> DEFINE us == User(turns, cur, FALSE)
               vs == Answer(us, cur)
    <2>1. Exchanges(us, cur) /\ Gains(turns, us, cur)
      BY <1>1, UserIs
    <2>2. Retain(vs) /\ cur' = cur /\ idle' = idle /\ compact' = compact
      BY <1>2 DEF CommitAnswer
    <2> HIDE DEF us
    <2>3. Exchanges(vs, cur) /\ Gains(us, vs, cur)
      BY <1>1, <2>1, AnswerIs
    <2> HIDE DEF vs
    <2>4. Gains(turns, vs, cur)
      BY <2>1, <2>3, GainsAgain
    <2> QED BY <1>1, <2>2, <2>3, <2>4, LatestKept
  <1>3. CASE CommitSilence
    <2> DEFINE ts == TurnOf(turns, cur)
               us == [ts EXCEPT ![Place(ts, cur)].listening = TRUE]
               vs == Finish(us, cur, FALSE)
    <2>1. Exchanges(us, cur) /\ Gains(turns, us, cur)
      BY <1>1, ListenIs
    <2>2. Retain(vs) /\ cur' = cur /\ idle' = TRUE /\ compact' = compact
      BY <1>3 DEF CommitSilence
    <2> HIDE DEF us
    <2>3. Exchanges(vs, cur) /\ Gains(us, vs, cur)
      BY <1>1, <2>1, FinishIs
    <2> HIDE DEF vs
    <2>4. Gains(turns, vs, cur)
      BY <2>1, <2>3, GainsAgain
    <2> QED BY <2>2, <2>3, <2>4, LatestKept
  <1>4. CASE PlaybackStops
    <2>1. Exchanges(Finish(turns, cur, FALSE), cur) /\ Gains(turns, Finish(turns, cur, FALSE), cur)
      BY <1>1, FinishIs
    <2> QED BY <1>4, <2>1, LatestKept DEF PlaybackStops
  <1>5. CASE Interrupted
    <2>1. PICK heard \in BOOLEAN : Retain(Finish(IF heard THEN Answer(turns, cur) ELSE turns, cur, TRUE))
      BY <1>5 DEF Interrupted
    <2> DEFINE us == IF heard THEN Answer(turns, cur) ELSE turns
               vs == Finish(us, cur, TRUE)
    <2>2. Exchanges(us, cur) /\ Gains(turns, us, cur)
      BY <1>1, AnswerIs DEF Gains
    <2>3. Retain(vs) /\ cur' = cur /\ idle' \in BOOLEAN /\ compact' = compact
      BY <1>1, <1>5, <2>1 DEF Interrupted
    <2> HIDE DEF us
    <2>4. Exchanges(vs, cur) /\ Gains(us, vs, cur)
      BY <1>1, <2>2, FinishIs
    <2> HIDE DEF vs
    <2>5. Gains(turns, vs, cur)
      BY <2>2, <2>4, GainsAgain
    <2> QED BY <2>3, <2>4, <2>5, LatestKept
  <1> QED BY <1>2, <1>3, <1>4, <1>5

\* A snapshot is of turns before the latest.
LEMMA MaybeCompactKept ==
  ASSUME MemoryInv, MaybeCompact
  PROVE  MemoryInv'
  <1> DEFINE n == Prefix(turns)
             old == SubSeq(turns, 1, n)
             ids == [i \in DOMAIN old |-> old[i].id]
             c == [ids |-> ids, epoch |-> epoch, shown |-> Shown(old), covers |-> summary \union Retained(old)]
  <1>1. /\ n > 0 /\ compact' = {c}
        /\ UNCHANGED <<turns, summary, epoch, cur, idle, said>>
    BY DEF MaybeCompact
  <1>2. cur \in Nat /\ Exchanges(turns, cur) /\ turns \in Seq(TurnSet)
    BY DEF MemoryInv, Summarised, Exchanges
  <1>3. n \in 1..Len(turns) /\ \A i \in 1..n : turns[i].id # cur
    BY <1>1, <1>2, PrefixIs
  <1> HIDE DEF n
  <1>4. old \in Seq(TurnSet) /\ DOMAIN old = 1..n /\ \A i \in 1..n : old[i] = turns[i] /\ turns[i].id \in Nat
    BY <1>2, <1>3, TurnIs
  <1> HIDE DEF old
  <1>5. ids \in Seq(Nat) /\ DOMAIN ids = 1..n /\ \A i \in 1..n : ids[i] # cur
    <2>1. DOMAIN ids = 1..n /\ \A i \in 1..n : ids[i] = old[i].id
      BY <1>4
    <2>2. \A i \in 1..n : ids[i] \in Nat /\ ids[i] # cur
      BY <1>3, <1>4, <2>1
    <2>3. ids = [i \in 1..n |-> ids[i]] /\ n \in Nat
      BY <1>3, <1>4
    <2> QED BY <2>1, <2>2, <2>3
  <1>6. DOMAIN Shown(old) = 1..n /\ \A i \in 1..n : Shown(old)[i].of = old[i].messages
    BY <1>4 DEF Shown
  <1>7. Retained(old) = UNION {Range(Shown(old)[i].of) : i \in DOMAIN Shown(old)}
    BY <1>4, <1>6 DEF Retained
  <1>8. c.ids = ids /\ c.shown = Shown(old) /\ c.covers = summary \union Retained(old)
    OBVIOUS
  <1> HIDE DEF ids, c
  <1>9. Snapshots'
    BY <1>1, <1>5, <1>6, <1>7, <1>8, ZenonT(60) DEF Snapshots
  <1>10. Exchanges(turns, cur)' /\ Summarised' /\ Whole'
    BY <1>1 DEF MemoryInv, Exchanges, Summarised, Whole, Retained
  <1> QED BY <1>9, <1>10 DEF MemoryInv

\* What the model is shown of a turn is all its messages.
LEMMA ShownIs ==
  ASSUME NEW ts
  PROVE  DOMAIN Shown(ts) = DOMAIN ts /\ \A i \in DOMAIN ts : Shown(ts)[i].of = ts[i].messages
  BY DEF Shown

\* What is left of a list when its beginning is cut off.
LEMMA RestIs ==
  ASSUME NEW S, NEW s \in Seq(S), NEW n \in Nat, n <= Len(s)
  PROVE  /\ SubSeq(s, n + 1, Len(s)) \in Seq(S)
         /\ DOMAIN SubSeq(s, n + 1, Len(s)) = 1..(Len(s) - n)
         /\ \A i \in 1..(Len(s) - n) : i + n \in DOMAIN s /\ SubSeq(s, n + 1, Len(s))[i] = s[i + n]
  <1>1. Len(s) \in Nat /\ DOMAIN s = 1..Len(s)
    OBVIOUS
  <1>2. Len(s) - (n + 1) + 1 = Len(s) - n /\ \A i \in 1..(Len(s) - n) : (n + 1) + i - 1 = i + n /\ i + n \in 1..Len(s)
    BY <1>1
  <1>3. CASE n + 1 <= Len(s)
    BY <1>1, <1>3
  <1>4. CASE n = Len(s)
    <2>1. SubSeq(s, n + 1, Len(s)) = <<>>
      BY <1>1, <1>4
    <2> QED BY <1>1, <1>4, <2>1
  <1>5. n + 1 <= Len(s) \/ n = Len(s)
    <2>1. \A a, b \in Nat : a <= b => a + 1 <= b \/ a = b
      OBVIOUS
    <2> QED BY <1>1, <2>1
  <1> QED BY <1>3, <1>4, <1>5

\* What the snapshot was taken of is still the beginning of the list.
LEMMA CompactedKept ==
  ASSUME MemoryInv, Compacted
  PROVE  MemoryInv'
  <1> DEFINE N == Len(turns)
  <1>1. PICK c \in compact :
    LET n == Len(c.ids)
        current == SubSeq(turns, 1, IF N < n THEN N ELSE n)
        same == epoch = c.epoch /\ [i \in DOMAIN current |-> current[i].id] = c.ids /\ Shown(current) = c.shown
    IN /\ summary' = IF same THEN c.covers ELSE summary
       /\ turns' = IF same THEN SubSeq(turns, n + 1, N) ELSE turns
       /\ compact' = {} /\ UNCHANGED <<epoch, cur, idle, said>>
    BY DEF Compacted
  <1>2. Snapshots' /\ cur' = cur /\ idle' = idle /\ said' = said
    BY <1>1 DEF Snapshots
  <1>3. CASE UNCHANGED <<turns, summary>>
    BY <1>2, <1>3 DEF MemoryInv, Exchanges, Summarised, Whole, Retained
  <1> DEFINE n == Len(c.ids)
             k == IF N < n THEN N ELSE n
             current == SubSeq(turns, 1, k)
             rest == SubSeq(turns, n + 1, N)
  <1> HIDE DEF N, k, n
  <1>4. CASE [i \in DOMAIN current |-> current[i].id] = c.ids /\ Shown(current) = c.shown /\ summary' = c.covers /\ turns' = rest
    <2>1. /\ turns \in Seq(TurnSet) /\ N \in Nat /\ DOMAIN turns = 1..N /\ cur \in Nat
          /\ c.ids \in Seq(Nat) /\ n \in Nat /\ DOMAIN c.ids = 1..n
          /\ \A i \in 1..n : c.ids[i] # cur
      BY <1>1 DEF MemoryInv, Exchanges, Snapshots, Summarised, N, n
    <2>2. current \in Seq(TurnSet) /\ DOMAIN current = 1..k /\ \A i \in 1..k : current[i] = turns[i]
      BY <2>1 DEF k, N
    <2> HIDE DEF current
    <2>3. k = n /\ n <= N /\ \A i \in 1..n : turns[i].id # cur
      <3>1. 1..k = 1..n
        BY <1>4, <2>1, <2>2
      <3>2. k = n /\ n <= N
        BY <2>1, <3>1 DEF k
      <3>3. \A i \in 1..n : c.ids[i] = current[i].id
        BY <1>4, <2>1, <2>2, <3>2
      <3> QED BY <2>1, <2>2, <3>2, <3>3
    <2>4. rest \in Seq(TurnSet) /\ DOMAIN rest = 1..(N - n) /\ \A i \in 1..(N - n) : i + n \in DOMAIN turns /\ rest[i] = turns[i + n]
      BY <2>1, <2>3, RestIs DEF N
    <2> HIDE DEF rest
    <2>5. \A m : m \in summary' <=> m \in summary \/ \E i \in 1..n : m \in Range(turns[i].messages)
      <3>1. DOMAIN current = 1..n /\ \A i \in 1..n : current[i] = turns[i]
        BY <2>2, <2>3
      <3>2. DOMAIN c.shown = 1..n
        BY <1>4, <3>1 DEF Shown
      <3>3. \A i \in 1..n : c.shown[i].of = current[i].messages
        <4>1. \A i \in 1..n : Shown(current)[i].of = current[i].messages
          BY <3>1, ShownIs
        <4> QED BY <1>4, <4>1
      <3>4. summary' = summary \union UNION {Range(c.shown[i].of) : i \in 1..n}
        BY <1>1, <1>4, <3>2 DEF MemoryInv, Snapshots
      <3> QED BY <3>1, <3>3, <3>4
    <2>6. \A i \in 1..n : i \in DOMAIN turns /\ turns[i] \in TurnSet /\ Sound(turns[i]) /\ turns[i].id \in Nat /\ turns[i].id < cur
      <3>1. Exchanges(turns, cur)
        BY DEF MemoryInv
      <3>2. \A i \in DOMAIN turns : turns[i].id <= cur
        BY <3>1 DEF Exchanges
      <3>3. \A i \in 1..n : i \in DOMAIN turns
        BY <2>1, <2>3
      <3>4. \A i \in 1..n : turns[i] \in TurnSet /\ Sound(turns[i]) /\ turns[i].id \in Nat
        BY <3>1, <3>3, TurnIs
      <3> QED BY <2>1, <2>3, <3>2, <3>3, <3>4
    <2>7. \A i \in 1..n : \A m \in Range(turns[i].messages) : m \in MessageSet /\ m.of = turns[i].id
      BY <2>6 DEF Sound, TurnSet, Range
    <2>8. Summarised'
      <3>1. \A m \in summary' : m \in MessageSet /\ m.of < cur
        BY <2>5, <2>6, <2>7 DEF MemoryInv, Summarised
      <3>2. ASSUME NEW m \in summary', m.kind = "request" PROVE \E r \in summary' : r.of = m.of /\ r.kind = "reply"
        <4>1. CASE m \in summary
          BY <2>5, <3>2, <4>1 DEF MemoryInv, Summarised
        <4>2. CASE \E i \in 1..n : m \in Range(turns[i].messages)
          <5>1. PICK i \in 1..n : m \in Range(turns[i].messages)
            BY <4>2
          <5>2. PICK r \in Range(turns[i].messages) : r.kind = "reply"
            BY <2>6, <3>2, <5>1 DEF Sound
          <5> QED BY <2>5, <2>7, <5>1, <5>2
        <4> QED BY <2>5, <4>1, <4>2
      <3> QED BY <1>2, <3>1, <3>2 DEF MemoryInv, Summarised
    <2>9. Exchanges(rest, cur)
      <3>1. \A i \in DOMAIN rest : i + n \in DOMAIN turns /\ rest[i] = turns[i + n] /\ i \in Int
        BY <2>1, <2>3, <2>4
      <3>2. \A i, j \in DOMAIN rest : (i + n = j + n => i = j) /\ (i < j => i + n < j + n)
        BY <2>1, <3>1
      <3> QED BY <2>4, <3>1, <3>2 DEF MemoryInv, Exchanges
    <2>10. \A m : m \in Retained(turns) <=> m \in Retained(rest) \/ \E i \in 1..n : m \in Range(turns[i].messages)
      <3>1. \A i \in DOMAIN turns : i \in 1..n \/ (i - n \in DOMAIN rest /\ rest[i - n] = turns[i])
        BY <2>1, <2>3, <2>4
      <3>2. \A i \in DOMAIN rest : i + n \in DOMAIN turns /\ rest[i] = turns[i + n]
        BY <2>1, <2>3, <2>4
      <3> QED BY <2>6, <3>1, <3>2, RetainedIs
    <2>11. \A m \in Retained(rest) : \A i \in 1..n : m \notin Range(turns[i].messages)
      <3> SUFFICES ASSUME NEW j \in DOMAIN rest, NEW m \in Range(rest[j].messages), NEW i \in 1..n, m \in Range(turns[i].messages) PROVE FALSE
        BY RetainedIs
      <3>1. j + n \in DOMAIN turns /\ rest[j] = turns[j + n] /\ j + n # i
        BY <2>1, <2>3, <2>4
      <3>2. m.of = turns[j + n].id
        BY <3>1 DEF MemoryInv, Exchanges, Sound
      <3> QED BY <2>6, <2>7, <3>1, <3>2 DEF MemoryInv, Exchanges
    <2>12. Whole'
      <3>1. Retained(turns)' = Retained(rest)
        BY <1>4 DEF Retained
      <3>2. \A m : m \in said <=> m \in Retained(turns) \/ m \in summary
        BY DEF MemoryInv, Whole
      <3>3. \A m \in summary : m \notin Retained(turns)
        BY DEF MemoryInv, Whole
      <3>4. said' = Retained(rest) \union summary'
        BY <1>2, <2>5, <2>10, <3>2
      <3>5. Retained(rest) \cap summary' = {}
        BY <2>5, <2>10, <2>11, <3>3
      <3> QED BY <3>1, <3>4, <3>5 DEF Whole
    <2>13. Exchanges(turns, cur)'
      BY <1>2, <1>4, <2>9 DEF Exchanges
    <2> QED BY <1>2, <2>8, <2>12, <2>13 DEF MemoryInv
  <1> QED BY <1>1, <1>3, <1>4 DEF k, n, N

\* Every step of the memory, and every other step of the job.
LEMMA MemoryKept ==
  ASSUME MemoryInv, Remembers
  PROVE  MemoryInv'
  <1>1. CASE Clear
    <2>1. turns' = <<>> /\ summary' = {} /\ said' = {} /\ compact' = {} /\ cur' = cur /\ idle' = idle
      BY <1>1 DEF Clear, Paused
    <2>2. Exchanges(turns, cur)'
      BY <2>1 DEF Exchanges
    <2>3. Summarised' /\ Snapshots'
      BY <2>1 DEF MemoryInv, Summarised, Snapshots
    <2>4. Whole'
      BY <2>1 DEF Whole, Retained
    <2> QED BY <2>2, <2>3, <2>4 DEF MemoryInv
  <1>2. CASE CompactionFails
    BY <1>2 DEF CompactionFails, MemoryInv, Exchanges, Summarised, Snapshots, Whole, Retained
  <1> QED BY <1>1, <1>2, CallerSaysKept, RetainToolKept, AnsweringKept, MaybeCompactKept, CompactedKept DEF Remembers

LEMMA MemoryStarts == MemoryInit => MemoryInv
  BY DEF MemoryInit, MemoryInv, Exchanges, Summarised, Snapshots, Whole, Retained

LEMMA MemorySteps == MemoryInv /\ [JobNext]_jobVars => MemoryInv'
  <1> SUFFICES ASSUME MemoryInv, [JobNext]_jobVars PROVE MemoryInv'
    OBVIOUS
  <1>1. CASE Recalls
    BY <1>1, MemoryKept DEF Recalls
  <1>2. CASE compact' \in {compact, {}} /\ UNCHANGED <<turns, summary, epoch, cur, idle, said>>
    BY <1>2 DEF MemoryInv, Exchanges, Summarised, Snapshots, Whole, Retained
  <1>3. CASE ~Recalls
    <2>1. CASE Setup
      BY <1>2, <2>1 DEF Setup, Connects, CallerJoins, ClaimSlot, ClaimCall, WrongCall, LoadAgent, PublishTrack, StartPipeline, Ready, TalkOver, mvars
    <2>2. CASE Cleanup
      BY <1>2, <2>2 DEF Cleanup, StopBeating, CleanupReleases, StopInput, ClosePipeline, CancelAttempt, CloseStore, CloseUsage,
         PipelineClosed, FinishCall, Paused, mvars
    <2>3. CASE Transferring \/ Storing \/ Recording \/ Reporting
      BY <1>2, <2>3 DEF Transferring, Marks, AnalysisPosted, Marked, DialAnswered, DialFails, LegRemoved, TransferReleased, Storing, Recording, Reporting, mvars
    <2>4. CASE Over \/ Breaks \/ CallerLeaves \/ EndCall \/ Says \/ Uses \/ TransferAsked \/ Beats \/ BeatDone \/ UNCHANGED jobVars
      BY <1>2, <2>4 DEF Over, Breaks, CallerLeaves, EndCall, Says, Uses, TransferAsked, Beats, BeatDone, jobVars, mvars
    <2> QED BY <1>3, <2>1, <2>2, <2>3, <2>4 DEF JobNext
  <1> QED BY <1>1, <1>3

\* However results come in while a summary is being written, every message since
\* the history was cleared is among the turns or covered by the summary, and none
\* is in both (memory.py:247).  The latest turn is never summarised, so what its
\* attempt or a late tool adds to it is not added beside a summary of it.
THEOREM WholeHolds == JobSpec => []Whole
  <1>1. JobInit => MemoryInv
    BY MemoryStarts DEF JobInit
  <1>2. MemoryInv => Whole
    BY DEF MemoryInv
  <1> QED BY <1>1, <1>2, MemorySteps, PTL DEF JobSpec
=============================================================================
