------------------------- MODULE CoordinatorProofs -------------------------
(***************************************************************************)
(* Proofs about Coordinator for every set of configurations and texts and   *)
(* every bound.  The actor's methods are operators on its record, so there  *)
(* is a lemma per method: what it makes of the record, that it keeps the    *)
(* record's invariant, and that the events already in the channel keep      *)
(* their meaning (Follows).                                                 *)
(***************************************************************************)
EXTENDS Coordinator, TLAPS

\* Nothing in progress.
LEMMA Blank ==
  /\ NoAtt \in AttSet /\ NoAtt.id = 0 /\ ~NoAtt.auth /\ ~NoAtt.endReq /\ ~NoAtt.spec
  /\ NoAtt.tool = "none" /\ NoAtt.kind = "none" /\ NoAtt.task = "none" /\ NoAtt.direct = "no"
  /\ NoTimer \in TimerSet /\ NoTask \in TaskSet /\ "" \in TextSet
<1>1. "" \in TextSet
  BY DEF TextSet
<1>2. /\ NoAtt \in AttSet /\ NoAtt.id = 0 /\ ~NoAtt.auth /\ ~NoAtt.endReq /\ ~NoAtt.spec
      /\ NoAtt.tool = "none" /\ NoAtt.kind = "none" /\ NoAtt.task = "none" /\ NoAtt.direct = "no"
  BY <1>1 DEF NoAtt, AttSet
<1>3. NoTimer \in TimerSet /\ NoTask \in TaskSet
  BY <1>1 DEF NoTimer, NoTask, TimerSet, TaskSet
<1> QED BY <1>1, <1>2, <1>3

\* cancel leaves no attempt, and a playout that has no owner or an ended one.
LEMMA CancelDoes ==
  ASSUME NEW s \in CallSet
  PROVE  /\ Cancel(s) \in CallSet
         /\ Cancel(s).att = NoAtt
         /\ Cancel(s).pl = AfterCancel(s.pl, s.att.id)
         /\ Cancel(s).conf = s.conf /\ Cancel(s).st = s.st /\ Cancel(s).turn = s.turn
         /\ Cancel(s).next = s.next /\ Cancel(s).cand = s.cand /\ Cancel(s).fin = s.fin
         /\ Cancel(s).speech = s.speech /\ Cancel(s).ending = s.ending /\ Cancel(s).hang = s.hang
         /\ Cancel(s).rev = s.rev /\ Cancel(s).eng = s.eng /\ Cancel(s).timer = s.timer
         /\ Cancel(s).finals = s.finals /\ Cancel(s).open = s.open
<1>1. NoAtt \in AttSet /\ NoTimer \in TimerSet
  BY Blank
<1>2. AfterCancel(s.pl, s.att.id) \in PlSet
  BY DEF CallSet, PlSet, AfterCancel, Cleared, NoAttempt
<1> QED BY <1>1, <1>2, ZenonT(60) DEF Cancel, CallSet

\* What holds of the record also in the middle of a method.
Base(s) ==
  /\ CallTypes(s) /\ Current(s)
  /\ s.pl.id # 0 => s.pl.id = s.att.id \/ s.pl.ended
  /\ s.fin # "" => s.turn \in s.finals

LEMMA CallBase == \A s : CallInv(s) => Base(s)
  BY DEF CallInv, Base, OnePlayout, Replies

LEMMA CancelBase ==
  ASSUME NEW s, Base(s)
  PROVE  Base(Cancel(s)) /\ (Cancel(s).pl.id # 0 => Cancel(s).pl.ended)
<1>1. s \in CallSet /\ s.pl \in PlSet /\ s.att.id \in Nat
  BY DEF Base, CallTypes, CallSet, AttSet
<1>2. LET p == AfterCancel(s.pl, s.att.id)
      IN  p.highest = s.pl.highest /\ (p.id # 0 => p.ended)
  BY <1>1 DEF Base, AfterCancel, Owns, Cleared, NoAttempt, PlSet
<1>3. /\ Cancel(s) \in CallSet /\ Cancel(s).att = NoAtt /\ Cancel(s).pl = AfterCancel(s.pl, s.att.id)
      /\ Cancel(s).next = s.next /\ Cancel(s).fin = s.fin /\ Cancel(s).turn = s.turn
      /\ Cancel(s).finals = s.finals /\ Cancel(s).eng = s.eng /\ Cancel(s).rev = s.rev /\ Cancel(s).cand = s.cand
  BY <1>1, CancelDoes
<1>4. NoAtt.id = 0 /\ NoAtt.id <= s.next
  <2>1. s.next \in Nat
    BY <1>1 DEF CallSet
  <2>2. NoAtt.id = 0
    BY Blank
  <2> QED BY <2>1, <2>2
<1>5. CallTypes(Cancel(s))
  BY <1>2, <1>3, <1>4 DEF Base, CallTypes
<1>6. Current(Cancel(s))
  BY <1>3 DEF Base, Current
<1> QED BY <1>2, <1>3, <1>5, <1>6 DEF Base

\* The model's prepared speech is out of date.
LEMMA InvalidateDoes ==
  ASSUME NEW s \in CallSet
  PROVE  /\ Invalidate(s) \in CallSet
         /\ Invalidate(s).att = s.att /\ Invalidate(s).pl = s.pl
         /\ Invalidate(s).conf = s.conf /\ Invalidate(s).st = s.st /\ Invalidate(s).turn = s.turn
         /\ Invalidate(s).next = s.next /\ Invalidate(s).cand = s.cand /\ Invalidate(s).fin = s.fin
         /\ Invalidate(s).speech = s.speech /\ Invalidate(s).ending = s.ending /\ Invalidate(s).hang = s.hang
         /\ Invalidate(s).rev = s.rev + 1 /\ Invalidate(s).eng = NoTask /\ Invalidate(s).timer = s.timer
         /\ Invalidate(s).finals = s.finals /\ Invalidate(s).open = s.open /\ Invalidate(s).pre = s.pre
<1>1. NoTask \in TaskSet
  BY Blank
<1>2. s.rev + 1 \in Nat
  <2>1. s.rev \in Nat
    BY DEF CallSet
  <2> QED BY <2>1
<1> QED BY <1>1, <1>2 DEF Invalidate, CallSet

\* begin_direct: t is s with a new attempt, which the playout takes for its owner.
Began(s, t, text, ok, direct) ==
  /\ t \in CallSet /\ t.next = s.next + 1
  /\ t.conf = s.conf /\ t.turn = s.turn /\ t.cand = s.cand /\ t.fin = s.fin
  /\ t.speech = s.speech /\ t.ending = s.ending /\ t.hang = s.hang
  /\ t.rev = s.rev /\ t.eng = s.eng /\ t.timer = s.timer
  /\ t.finals = s.finals /\ t.open = s.open
  /\ t.st = IF ok THEN "Releasing" ELSE IF s.st = "AwaitingFinal" THEN s.st ELSE "Speculating"
  /\ t.att.id = s.next + 1 /\ t.att.hyp = text /\ t.att.auth = ok /\ t.att.task = "run"
  /\ t.att.tool = "none" /\ t.att.direct = direct /\ t.att.owner = s.turn
  /\ t.att.kind = "none" /\ ~t.att.endReq /\ t.att.spec = ~ok
  /\ t.pl.id = s.next + 1 /\ t.pl.highest = s.next + 1 /\ t.pl.authorized = ok
  /\ t.pl.enabled = IF ok THEN s.speech ELSE s.pl.enabled

LEMMA BeginDoes ==
  ASSUME NEW s, CallTypes(s), NEW text \in TextSet, NEW ok \in BOOLEAN,
         NEW direct \in {"no", "facts", "verbatim"}
  PROVE  Began(s, Begin(s, text, ok, direct), text, ok, direct)
<1> DEFINE id == s.next + 1
           free == Cancel(s)
           begun == AfterBegin(free.pl, id)
           pl == IF ok THEN AfterSpeech(AfterAuthorize(begun, id), id, s.speech) ELSE begun
           offered == direct = "no" /\ EndCallOn /\ s.turn > 0 /\ s.speech
           att == [NoAtt EXCEPT !.id = id, !.hyp = text, !.auth = ok,
                     !.task = "run", !.direct = direct, !.owner = s.turn,
                     !.rev = s.rev, !.spec = ~ok, !.speech = s.speech,
                     !.endOffered = offered]
           st == IF ok THEN "Releasing" ELSE IF s.st = "AwaitingFinal" THEN s.st ELSE "Speculating"
<1>1. s \in CallSet /\ s.next \in Nat /\ s.turn \in Nat /\ s.rev \in Nat /\ s.speech \in BOOLEAN
      /\ s.pl \in PlSet /\ s.pl.highest <= s.next
  BY DEF CallTypes, CallSet
<1>2. /\ free \in CallSet /\ free.pl \in PlSet /\ free.pl.highest = s.pl.highest
      /\ free.pl.enabled = s.pl.enabled
  <2>1. free \in CallSet /\ free.pl = AfterCancel(s.pl, s.att.id)
    BY <1>1, CancelDoes
  <2> QED BY <1>1, <2>1 DEF CallSet, AfterCancel, Cleared, PlSet, NoAttempt
<1>3. /\ begun \in PlSet /\ begun.id = id /\ begun.highest = id /\ ~begun.authorized /\ ~begun.ended
      /\ begun.enabled = s.pl.enabled
  <2>1. id > free.pl.highest /\ id \in Nat
    <3>1. s.pl.highest \in Nat
      BY <1>1 DEF PlSet
    <3> HIDE DEF free
    <3> QED BY <1>1, <1>2, <3>1
  <2> HIDE DEF free, id
  <2> QED BY <1>2, <2>1 DEF AfterBegin, BeginOk, Cleared, PlSet, NoAttempt
<1>4. /\ pl \in PlSet /\ pl.id = id /\ pl.highest = id /\ pl.authorized = ok
      /\ pl.enabled = IF ok THEN s.speech ELSE s.pl.enabled
  <2>1. id # 0 /\ id \in Nat
    BY <1>1
  <2> HIDE DEF begun, id
  <2> QED BY <1>1, <1>3, <2>1 DEF AfterAuthorize, AfterSpeech, SpeechOk, Owns, PlSet, NoAttempt
<1>5. /\ att \in AttSet /\ att.id = id /\ att.hyp = text /\ att.auth = ok /\ att.task = "run"
      /\ att.tool = "none" /\ att.direct = direct /\ att.owner = s.turn
      /\ att.kind = "none" /\ ~att.endReq /\ att.spec = ~ok
  <2>1. id \in Nat /\ offered \in BOOLEAN
    BY <1>1
  <2> HIDE DEF id, offered
  <2> QED BY <1>1, <2>1, Blank, ZenonT(60) DEF AttSet
<1>6. st \in Quiet \cup Hearing \cup {"AwaitingFinal"} /\ id \in Nat
  BY <1>1 DEF Quiet, Hearing
<1>7. Begin(s, text, ok, direct) = [free EXCEPT !.next = id, !.pl = pl, !.att = att, !.st = st]
  BY DEF Begin
<1>8. /\ free.conf = s.conf /\ free.turn = s.turn /\ free.cand = s.cand /\ free.fin = s.fin
      /\ free.speech = s.speech /\ free.ending = s.ending /\ free.hang = s.hang
      /\ free.rev = s.rev /\ free.eng = s.eng /\ free.timer = s.timer
      /\ free.finals = s.finals /\ free.open = s.open
  BY <1>1, CancelDoes
<1> HIDE DEF id, free, begun, pl, offered, att, st
<1>10. PICK u : u = Begin(s, text, ok, direct)
  OBVIOUS
<1>11. /\ u \in CallSet /\ u.next = id /\ u.pl = pl /\ u.att = att /\ u.st = st
       /\ u.conf = free.conf /\ u.turn = free.turn /\ u.cand = free.cand /\ u.fin = free.fin
       /\ u.speech = free.speech /\ u.ending = free.ending /\ u.hang = free.hang
       /\ u.rev = free.rev /\ u.eng = free.eng /\ u.timer = free.timer
       /\ u.finals = free.finals /\ u.open = free.open
  <2>1. u = [free EXCEPT !.next = id, !.pl = pl, !.att = att, !.st = st]
    BY <1>7, <1>10
  <2>2. free \in CallSet /\ id \in Nat /\ pl \in PlSet /\ att \in AttSet
        /\ st \in Quiet \cup Hearing \cup {"AwaitingFinal"}
    BY <1>2, <1>4, <1>5, <1>6
  <2> QED BY <2>1, <2>2, ZenonT(60) DEF CallSet
<1>12. id = s.next + 1 /\ st = IF ok THEN "Releasing" ELSE IF s.st = "AwaitingFinal" THEN s.st ELSE "Speculating"
  BY DEF id, st
<1>13. Began(s, u, text, ok, direct)
  BY <1>4, <1>5, <1>8, <1>11, <1>12 DEF Began
<1> QED BY <1>10, <1>13

\* ... for a reply, and for a guess.
LEMMA ReplyDoes ==
  ASSUME NEW s, CallTypes(s), NEW text \in TextSet, NEW direct \in {"no", "facts", "verbatim"}
  PROVE  Began(s, Begin(s, text, TRUE, direct), text, TRUE, direct)
<1>1. TRUE \in BOOLEAN
  OBVIOUS
<1> QED BY <1>1, BeginDoes, Zenon

LEMMA GuessDoes ==
  ASSUME NEW s, CallTypes(s), NEW text \in TextSet
  PROVE  Began(s, Begin(s, text, FALSE, "no"), text, FALSE, "no")
<1>1. FALSE \in BOOLEAN /\ "no" \in {"no", "facts", "verbatim"}
  OBVIOUS
<1> QED BY <1>1, BeginDoes, Zenon

\* Without an attempt little has to hold.
LEMMA FreeInv ==
  ASSUME NEW s, Base(s), s.att.id = 0,
         s.open /\ s.st \in Responding => "grace" \in s.conf.on,
         s.ending => s.st \in Quiet /\ (s.open => s.hang # "no" \/ Forgets(s))
  PROVE  CallInv(s)
<1>1. s.att = NoAtt
  BY DEF Base, CallTypes
<1>2. ~s.att.auth /\ ~s.att.endReq /\ ~s.att.spec /\ s.att.tool = "none" /\ s.att.kind = "none"
  BY <1>1, Blank
<1> QED BY <1>2 DEF CallInv, Base, OnePlayout, ForFinal, Kinds, Replies, Closing

\* A reply that is authorized from the start answers the turn's final.
LEMMA ReplyInv ==
  ASSUME NEW s, Base(s), NEW text \in TextSet, NEW direct \in {"no", "facts", "verbatim"},
         direct = "no" => s.turn \in s.finals, s.turn \in s.finals \cup {0},
         s.ending => direct # "no" /\ (s.open => s.hang # "no" \/ Forgets(s))
  PROVE  CallInv(Begin(s, text, TRUE, direct))
<1> DEFINE t == Begin(s, text, TRUE, direct)
<1>0. CallTypes(s)
  BY DEF Base
<1>1. /\ t \in CallSet /\ t.next = s.next + 1
      /\ t.conf = s.conf /\ t.turn = s.turn /\ t.cand = s.cand /\ t.fin = s.fin
      /\ t.speech = s.speech /\ t.ending = s.ending /\ t.hang = s.hang
      /\ t.rev = s.rev /\ t.eng = s.eng
      /\ t.finals = s.finals /\ t.open = s.open /\ t.st = "Releasing"
      /\ t.att.id = s.next + 1 /\ t.att.auth /\ t.att.task = "run"
      /\ t.att.tool = "none" /\ t.att.direct = direct /\ t.att.owner = s.turn
      /\ t.att.kind = "none" /\ ~t.att.endReq /\ ~t.att.spec
      /\ t.pl.id = s.next + 1 /\ t.pl.highest = s.next + 1 /\ t.pl.authorized
      /\ t.pl.enabled = s.speech
  <2>1. Began(s, t, text, TRUE, direct)
    BY <1>0, ReplyDoes
  <2> HIDE DEF t
  <2> QED BY <2>1 DEF Began
<1>2. s.next \in Nat
  BY DEF Base, CallTypes, CallSet
<1> HIDE DEF t
<1>3. CallTypes(t)
  BY <1>1, <1>2 DEF CallTypes
<1>4. OnePlayout(t)
  BY <1>1 DEF OnePlayout
<1>5. ForFinal(t) /\ Kinds(t)
  BY <1>1 DEF ForFinal, Kinds, Responding
<1>6. Replies(t) /\ Current(t)
  BY <1>1 DEF Base, Replies, Current
<1>7. Closing(t)
  BY <1>1 DEF Closing, Forgets, Quiet
<1> QED BY <1>3, <1>4, <1>5, <1>6, <1>7 DEF CallInv, t

\* A guess is made while the caller speaks or is waited for, with the gate open.
LEMMA GuessInv ==
  ASSUME NEW s, Base(s), NEW text \in TextSet, s.speech, ~s.ending,
         s.st \in Hearing \cup {"AwaitingFinal"}
  PROVE  CallInv(Begin(s, text, FALSE, "no"))
<1> DEFINE t == Begin(s, text, FALSE, "no")
<1>0. CallTypes(s)
  BY DEF Base
<1>1. /\ t \in CallSet /\ t.next = s.next + 1
      /\ t.conf = s.conf /\ t.turn = s.turn /\ t.cand = s.cand /\ t.fin = s.fin
      /\ t.speech = s.speech /\ t.ending = s.ending /\ t.hang = s.hang
      /\ t.rev = s.rev /\ t.eng = s.eng
      /\ t.finals = s.finals /\ t.open = s.open
      /\ t.st = IF s.st = "AwaitingFinal" THEN s.st ELSE "Speculating"
      /\ t.att.id = s.next + 1 /\ ~t.att.auth /\ t.att.task = "run"
      /\ t.att.tool = "none" /\ t.att.direct = "no" /\ t.att.owner = s.turn
      /\ t.att.kind = "none" /\ ~t.att.endReq
      /\ t.pl.id = s.next + 1 /\ t.pl.highest = s.next + 1 /\ ~t.pl.authorized
  <2>1. Began(s, t, text, FALSE, "no")
    BY <1>0, GuessDoes
  <2> HIDE DEF t
  <2> QED BY <2>1 DEF Began
<1>2. s.next \in Nat
  BY DEF Base, CallTypes, CallSet
<1> HIDE DEF t
<1>3. CallTypes(t)
  BY <1>1, <1>2 DEF CallTypes
<1>4. OnePlayout(t)
  BY <1>1 DEF OnePlayout
<1>5. t.st \notin Responding /\ t.st # "Idle"
  BY <1>1 DEF Responding
<1>6. ForFinal(t) /\ Kinds(t)
  BY <1>1, <1>5 DEF ForFinal, Kinds
<1>7. Replies(t) /\ Current(t) /\ Closing(t)
  BY <1>1, <1>5 DEF Base, Replies, Current, Closing
<1> QED BY <1>3, <1>4, <1>6, <1>7 DEF CallInv, t

-----------------------------------------------------------------------------
(* What a step means to the events that are on their way                    *)

\* The attempt is still the same, as far as its events can tell.
SameAttempt(s, t) ==
  /\ t.att.id = s.att.id /\ t.att.direct = s.att.direct
  /\ s.att.task # "run" => t.att.task # "run"
  /\ s.att.auth => t.att.auth
  /\ s.pl.id = s.att.id /\ t.pl.id = s.att.id /\ s.pl.ended => t.pl.ended
  /\ t.pl.id = s.att.id => s.pl.id = s.att.id

\* Nothing was decided about it that an event on its way could contradict: a
\* reply with a tool call did reach its model.
Undecided(s, t) ==
  \/ s.att.tool # "none"
  \/ /\ t.att.endReq = s.att.endReq /\ t.att.tool = s.att.tool
     /\ s.att.task \notin Producing => t.att.task \notin Producing

\* The counters only grow, and the turn moves with the revision or while a
\* candidate is heard (which has moved it).
Onward(s, t) ==
  /\ t.conf = s.conf /\ s.next <= t.next /\ s.rev <= t.rev
  /\ t.rev = s.rev => (t.turn = s.turn \/ s.cand) /\ (t.cand => s.cand)

Follows(s, t) ==
  /\ Onward(s, t)
  /\ t.att.id = 0 \/ t.att.id > s.next \/ (SameAttempt(s, t) /\ Undecided(s, t))

\* Events of an attempt that is gone, or has not changed, mean what they meant.
LEMMA EventKept ==
  ASSUME NEW s \in CallSet, NEW t \in CallSet, Onward(s, t),
         t.att.id = 0 \/ t.att.id > s.next \/ SameAttempt(s, t),
         NEW e \in EventSet, EventInv(s, e),
         Unreached(e, s.att.id) /\ t.att.id = s.att.id => t.att.id > s.next \/ Undecided(s, t)
  PROVE  EventInv(t, e)
<1>1. /\ s.next \in Nat /\ t.next \in Nat /\ s.rev \in Nat /\ t.rev \in Nat /\ s.att.id \in Nat /\ t.att.id \in Nat
  BY DEF CallSet, AttSet
<1>2. /\ e.type \in {"token", "tool", "audio", "done"} => e.id \in Nat /\ e.id # 0 /\ e.id <= s.next
      /\ e.type = "engage" => e.rev \in Nat
  BY DEF EventSet, EventInv
<1>3. e.type \in {"token", "tool", "audio", "done"} => e.id <= t.next
  BY <1>1, <1>2 DEF Onward
<1>4. e.type = "engage" => e.rev <= t.rev /\ (e.rev = t.rev => e.turn = t.turn /\ ~t.cand)
  <2> SUFFICES ASSUME e.type = "engage" PROVE e.rev <= t.rev /\ (e.rev = t.rev => e.turn = t.turn /\ ~t.cand)
    OBVIOUS
  <2>1. e.rev <= s.rev /\ (e.rev = s.rev => e.turn = s.turn /\ ~s.cand)
    BY DEF EventInv
  <2>2. e.rev <= t.rev /\ (e.rev = t.rev => t.rev = s.rev)
    BY <1>1, <1>2, <2>1 DEF Onward
  <2> QED BY <2>1, <2>2 DEF Onward
<1>5. ASSUME e.type \in {"token", "tool", "audio", "done"}, e.id = t.att.id
      PROVE  SameAttempt(s, t) /\ e.id = s.att.id /\ ~(t.att.id > s.next)
  BY <1>1, <1>2, <1>5 DEF SameAttempt
<1>6. e.type = "done" /\ e.res = "ok" /\ e.id = t.att.id => t.att.auth /\ (t.pl.id = e.id => t.pl.ended)
  BY <1>5 DEF EventInv, SameAttempt
<1>7. e.type = "tool" =>
        e.tool \in t.conf.tools /\ (e.id = t.att.id => t.att.direct = "no" /\ t.att.task # "run")
  BY <1>5 DEF EventInv, SameAttempt, Onward
<1>8. Unreached(e, t.att.id) /\ t.att.direct = "no" =>
       ~t.att.endReq /\ t.att.tool = "none" /\ t.att.task \notin Producing
  <2> SUFFICES ASSUME Unreached(e, t.att.id), t.att.direct = "no"
               PROVE  ~t.att.endReq /\ t.att.tool = "none" /\ t.att.task \notin Producing
    OBVIOUS
  <2>1. SameAttempt(s, t) /\ e.id = s.att.id /\ ~(t.att.id > s.next)
    BY <1>5 DEF Unreached
  <2>2. Unreached(e, s.att.id) /\ s.att.direct = "no" /\ t.att.id = s.att.id
    BY <2>1 DEF Unreached, SameAttempt
  <2> QED BY <2>1, <2>2 DEF EventInv, Undecided, SameAttempt
<1> QED BY <1>3, <1>4, <1>6, <1>7, <1>8 DEF EventInv

\* The channel after a step that leaves it alone, but for the head it handled.
LEMMA QueueKept ==
  ASSUME NEW s \in CallSet, NEW t \in CallSet, Follows(s, t), NEW q, QueueInv(s, q)
  PROVE  QueueInv(t, q)
<1>1. q \in Seq(EventSet) /\ \A i \in 1..Len(q) : q[i] \in EventSet /\ EventInv(s, q[i])
  BY DEF QueueInv
<1>2. \A i \in 1..Len(q) : EventInv(t, q[i])
  <2> TAKE i \in 1..Len(q)
  <2>1. Onward(s, t) /\ (t.att.id = 0 \/ t.att.id > s.next \/ SameAttempt(s, t))
        /\ (t.att.id = s.att.id => t.att.id = 0 \/ t.att.id > s.next \/ Undecided(s, t))
    BY DEF Follows
  <2>2. Unreached(q[i], s.att.id) => s.att.id # 0
    BY <1>1 DEF Unreached, EventSet
  <2> QED BY <1>1, <2>1, <2>2, EventKept
<1>3. ASSUME t.att.direct = "no", NEW i \in 1..Len(q), NEW j \in 1..Len(q),
             Unreached(q[i], t.att.id), Decisive(q[j], t.att.id)
      PROVE  i = j
  <2>1. q[i].id # 0 /\ q[i].id <= s.next /\ q[i].id = t.att.id
    BY <1>1, <1>3 DEF EventSet, EventInv, Unreached
  <2>2. SameAttempt(s, t)
    <3>1. s.next \in Nat /\ t.att.id \in Nat
      BY DEF CallSet, AttSet
    <3> QED BY <2>1, <3>1 DEF Follows
  <2> QED BY <1>3, <2>2 DEF SameAttempt, QueueInv
<1> QED BY <1>1, <1>2, <1>3 DEF QueueInv

-----------------------------------------------------------------------------
(* What a method does to the call                                           *)

\* The wait for a final is timed, or as it was.
Waits(s, t) ==
  t.st = "AwaitingFinal" /\ t.conf.texts \cap Echo = {} =>
    t.timer = t.turn \/ (s.st = "AwaitingFinal" /\ t.turn = s.turn /\ t.timer = s.timer)

\* The speech gate moves, and the model ends the call, on the turn's final.
Moved(s, t) ==
  t.speech # s.speech \/ (t.ending /\ ~s.ending /\ t.hang # "absent") =>
    /\ s.att.id # 0 /\ s.turn \in t.finals /\ (s.att.owner = s.turn \/ "minimum" \in s.conf.on)
    /\ s.att.spec => <<s.att.hyp, t.fin>> \in Similar

\* A final stays, and a call that is ending starts nothing but its farewell.
Kept(s, t) ==
  /\ t.turn = s.turn /\ s.fin # "" => t.fin = s.fin
  /\ s.ending => /\ t.turn = s.turn /\ t.finals = s.finals
                 /\ t.next # s.next => t.att.direct # "no"

Step(s, t) == CallInv(t) /\ t.conf = s.conf /\ Waits(s, t) /\ Moved(s, t) /\ Kept(s, t)

\* A new attempt is a reply, not proactive speech.
Reactive(s, t) == t.next # s.next => t.att.kind = "none"

Good(s, t) == Step(s, t) /\ Follows(s, t) /\ Reactive(s, t)

\* The fields the invariant is about.
Alike(s, t) ==
  /\ t.conf = s.conf /\ t.st = s.st /\ t.turn = s.turn /\ t.next = s.next /\ t.att = s.att
  /\ t.cand = s.cand /\ t.fin = s.fin /\ t.speech = s.speech /\ t.ending = s.ending
  /\ t.hang = s.hang /\ t.rev = s.rev /\ t.eng = s.eng /\ t.finals = s.finals /\ t.pl = s.pl
  /\ t.open = s.open

LEMMA AlikeInv ==
  ASSUME NEW s, CallInv(s), NEW t \in CallSet, Alike(s, t)
  PROVE  CallInv(t)
<1>1. CallTypes(t)
  BY DEF CallInv, CallTypes, Alike
<1>2. OnePlayout(t)
  BY DEF CallInv, OnePlayout, Alike
<1>3. ForFinal(t)
  BY DEF CallInv, ForFinal, Alike
<1>4. Kinds(t)
  BY DEF CallInv, Kinds, Alike
<1>5. Replies(t) /\ Current(t)
  BY DEF CallInv, Replies, Current, Alike
<1>6. Closing(t)
  BY DEF CallInv, Closing, Forgets, Alike
<1> QED BY <1>1, <1>2, <1>3, <1>4, <1>5, <1>6 DEF CallInv

LEMMA AlikeFollows ==
  ASSUME NEW s \in CallSet, NEW t \in CallSet, Alike(s, t)
  PROVE  Follows(s, t)
<1>1. s.next \in Nat /\ s.rev \in Nat
  BY DEF CallSet
<1>2. Onward(s, t)
  BY <1>1 DEF Onward, Alike
<1>3. SameAttempt(s, t) /\ Undecided(s, t)
  BY DEF SameAttempt, Undecided, Alike
<1> QED BY <1>2, <1>3 DEF Follows

LEMMA AlikeGood ==
  ASSUME NEW s, CallInv(s), NEW t \in CallSet, Alike(s, t), t.timer = s.timer
  PROVE  Good(s, t)
<1>1. s \in CallSet
  BY DEF CallInv, CallTypes
<1>2. CallInv(t) /\ Follows(s, t)
  BY <1>1, AlikeInv, AlikeFollows
<1>3. t.conf = s.conf /\ Waits(s, t) /\ Moved(s, t) /\ Kept(s, t) /\ Reactive(s, t)
  BY DEF Waits, Moved, Kept, Reactive, Alike
<1> QED BY <1>2, <1>3 DEF Good, Step

\* One method after another.
LEMMA FollowsOn ==
  ASSUME NEW s \in CallSet, NEW r \in CallSet, NEW t \in CallSet, Follows(s, r), Follows(r, t)
  PROVE  Follows(s, t)
<1>1. /\ s.next \in Nat /\ r.next \in Nat /\ t.next \in Nat /\ s.rev \in Nat /\ r.rev \in Nat /\ t.rev \in Nat
      /\ s.att.id \in Nat /\ r.att.id \in Nat /\ t.att.id \in Nat
  BY DEF CallSet, AttSet
<1>2. Onward(s, t)
  BY <1>1 DEF Follows, Onward
<1>3. ASSUME SameAttempt(r, t), Undecided(r, t), SameAttempt(s, r), Undecided(s, r)
      PROVE  SameAttempt(s, t) /\ Undecided(s, t)
  BY <1>3 DEF SameAttempt, Undecided
<1>4. ASSUME SameAttempt(r, t), r.att.id = 0 \/ r.att.id > s.next
      PROVE  t.att.id = 0 \/ t.att.id > s.next
  BY <1>4 DEF SameAttempt
<1>5. t.att.id > r.next => t.att.id > s.next
  BY <1>1 DEF Follows, Onward
<1> QED BY <1>2, <1>3, <1>4, <1>5 DEF Follows

\* A method that leaves no attempt.
LEMMA FreeGood ==
  ASSUME NEW s, CallInv(s), NEW t, Base(t), t.att.id = 0, t.conf = s.conf, t.next = s.next,
         Onward(s, t), Waits(s, t), t.speech = s.speech, t.ending => s.ending \/ t.hang = "absent",
         t.turn = s.turn /\ s.fin # "" => t.fin = s.fin,
         s.ending => t.turn = s.turn /\ t.finals = s.finals,
         t.open /\ t.st \in Responding => "grace" \in t.conf.on,
         t.ending => t.st \in Quiet /\ (t.open => t.hang # "no" \/ Forgets(t))
  PROVE  Good(s, t)
<1>1. CallInv(t)
  BY FreeInv
<1>2. Moved(s, t) /\ Kept(s, t) /\ Reactive(s, t)
  BY DEF Moved, Kept, Reactive
<1>3. Follows(s, t)
  BY DEF Follows
<1> QED BY <1>1, <1>2, <1>3 DEF Good, Step

-----------------------------------------------------------------------------
(* Giving up: fail, unavailable, the end of a wait                          *)

\* The call without its attempt, in another state: t keeps the rest of s.
Dropped(s, t) ==
  /\ t \in CallSet /\ t.att = NoAtt /\ t.pl = AfterCancel(s.pl, s.att.id)
  /\ t.conf = s.conf /\ t.turn = s.turn /\ t.next = s.next /\ t.fin = s.fin /\ t.finals = s.finals
  /\ t.speech = s.speech /\ t.rev = s.rev /\ t.eng = s.eng /\ t.open = s.open
  /\ t.cand => s.cand

LEMMA DroppedDoes ==
  ASSUME NEW s, CallInv(s), NEW t, Dropped(s, t)
  PROVE  Base(t) /\ t.att.id = 0 /\ Onward(s, t)
<1>1. Base(s)
  BY CallBase
<1>2. s \in CallSet /\ s.pl \in PlSet /\ s.att.id \in Nat /\ s.next \in Nat /\ s.rev \in Nat
  BY <1>1 DEF Base, CallTypes, CallSet, AttSet
<1>3. t.pl.highest = s.pl.highest /\ (t.pl.id # 0 => t.pl.ended)
  BY <1>1, <1>2 DEF Dropped, Base, AfterCancel, Owns, Cleared, NoAttempt, PlSet
<1>4. t.att = NoAtt /\ t.att.id = 0
  BY Blank DEF Dropped
<1>5. t.next = s.next /\ t.rev = s.rev /\ t.turn = s.turn /\ t \in CallSet /\ (t.cand => s.cand) /\ t.conf = s.conf
  BY DEF Dropped
<1>6. CallTypes(t)
  <2>1. s.pl.highest <= s.next
    BY <1>1 DEF Base, CallTypes
  <2> QED BY <1>2, <1>3, <1>4, <1>5, <2>1 DEF CallTypes
<1>7. Onward(s, t)
  BY <1>2, <1>5 DEF Onward
<1>8. Current(t) /\ (t.fin # "" => t.turn \in t.finals)
  BY <1>1 DEF Base, Current, Dropped
<1> QED BY <1>3, <1>4, <1>6, <1>7, <1>8 DEF Base

\* In a state that waits for nobody.
LEMMA DroppedGood ==
  ASSUME NEW s, CallInv(s), NEW t, Dropped(s, t), t.st \in Quiet \cup Hearing,
         t.st \in Responding => s.st = t.st /\ ~s.att.auth,
         t.ending => s.ending /\ t.hang = s.hang /\ t.st \in Quiet,
         t.ending /\ s.att.endReq => "localized" \in s.conf.on
  PROVE  Good(s, t)
<1>1. Base(t) /\ t.att.id = 0 /\ Onward(s, t)
  BY DroppedDoes
<1>2. Waits(s, t)
  BY DEF Waits, Quiet, Hearing
<1>3. t.conf = s.conf /\ t.next = s.next /\ t.speech = s.speech /\ t.turn = s.turn /\ t.fin = s.fin /\ t.finals = s.finals
  BY DEF Dropped
<1>4. t.open /\ t.st \in Responding => "grace" \in t.conf.on
  BY <1>3 DEF CallInv, Replies, Dropped
<1>5. t.ending => t.st \in Quiet /\ (t.open => t.hang # "no" \/ Forgets(t))
  BY <1>3 DEF CallInv, Closing, Forgets, Dropped
<1> QED BY <1>1, <1>2, <1>3, <1>4, <1>5, FreeGood

LEMMA FailGood ==
  ASSUME NEW s, CallInv(s)
  PROVE  Good(s, Fail(s)) /\ Dropped(s, Fail(s)) /\ Fail(s).st = "Idle" /\ ~Fail(s).ending
<1> DEFINE t == Fail(s)
           free == Cancel(s)
<1>1. s \in CallSet /\ "" \in TextSet
  BY Blank DEF CallInv, CallTypes
<1>2. /\ free \in CallSet /\ free.att = NoAtt /\ free.pl = AfterCancel(s.pl, s.att.id)
      /\ free.conf = s.conf /\ free.turn = s.turn /\ free.next = s.next /\ free.fin = s.fin
      /\ free.speech = s.speech /\ free.rev = s.rev /\ free.eng = s.eng /\ free.finals = s.finals /\ free.open = s.open
  BY <1>1, CancelDoes
<1>3. t = [free EXCEPT !.ending = FALSE, !.cand = FALSE, !.pre = "", !.silent = FALSE, !.st = "Idle"]
  BY DEF Fail
<1> HIDE DEF t, free
<1>4. /\ t \in CallSet /\ t.st = "Idle" /\ ~t.ending /\ ~t.cand
      /\ t.att = free.att /\ t.pl = free.pl /\ t.open = free.open
      /\ t.conf = free.conf /\ t.turn = free.turn /\ t.next = free.next /\ t.fin = free.fin
      /\ t.speech = free.speech /\ t.rev = free.rev /\ t.eng = free.eng /\ t.finals = free.finals
  <2>1. free \in CallSet
    BY <1>2
  <2>2. "Idle" \in Quiet \cup Hearing \cup {"AwaitingFinal"}
    BY DEF Quiet
  <2>3. "" \in TextSet
    BY <1>1
  <2> QED BY <1>3, <2>1, <2>2, <2>3, ZenonT(60) DEF CallSet
<1>5. Dropped(s, t)
  BY <1>2, <1>4 DEF Dropped
<1>6. t.st \in Quiet \cup Hearing /\ t.st \notin Responding
  BY <1>4 DEF Quiet, Responding
<1>7. Good(s, t)
  BY <1>2, <1>4, <1>5, <1>6, DroppedGood
<1> QED BY <1>4, <1>5, <1>7 DEF t

LEMMA UnavailableGood ==
  ASSUME NEW s, CallInv(s), NEW turn
  PROVE  /\ Good(s, Unavailable(s, turn)) /\ Unavailable(s, turn).turn = s.turn
         /\ turn = s.turn => Unavailable(s, turn).st # "AwaitingFinal"
<1> DEFINE t == Unavailable(s, turn)
           free == Cancel(s)
<1>1. s \in CallSet /\ "" \in TextSet
  BY Blank DEF CallInv, CallTypes
<1>2. CASE turn # s.turn \/ s.st # "AwaitingFinal"
  <2>1. t = s
    BY <1>2 DEF Unavailable
  <2>2. Good(s, s)
    BY <1>1, AlikeGood DEF Alike
  <2> QED BY <1>2, <2>1, <2>2
<1>3. CASE turn = s.turn /\ s.st = "AwaitingFinal"
  <2>1. /\ free \in CallSet /\ free.att = NoAtt /\ free.pl = AfterCancel(s.pl, s.att.id)
        /\ free.conf = s.conf /\ free.turn = s.turn /\ free.next = s.next /\ free.fin = s.fin
        /\ free.speech = s.speech /\ free.rev = s.rev /\ free.eng = s.eng /\ free.finals = s.finals
        /\ free.open = s.open /\ free.ending = s.ending /\ free.hang = s.hang
    BY <1>1, CancelDoes
  <2>2. t = [free EXCEPT !.cand = FALSE, !.pre = "", !.part = "", !.silent = FALSE, !.timer = 0, !.st = "Idle"]
    BY <1>3 DEF Unavailable
  <2> HIDE DEF t, free
  <2>3. /\ t \in CallSet /\ t.st = "Idle" /\ t.ending = free.ending /\ t.hang = free.hang /\ ~t.cand
        /\ t.att = free.att /\ t.pl = free.pl /\ t.open = free.open
        /\ t.conf = free.conf /\ t.turn = free.turn /\ t.next = free.next /\ t.fin = free.fin
        /\ t.speech = free.speech /\ t.rev = free.rev /\ t.eng = free.eng /\ t.finals = free.finals
    <3>1. free \in CallSet
      BY <2>1
    <3>2. "Idle" \in Quiet \cup Hearing \cup {"AwaitingFinal"}
      BY DEF Quiet
    <3>3. "" \in TextSet
      BY <1>1
    <3> QED BY <2>2, <3>1, <3>2, <3>3, ZenonT(60) DEF CallSet
  <2>4. Dropped(s, t)
    BY <2>1, <2>3 DEF Dropped
  <2>5. t.st \in Quiet \cup Hearing /\ t.st \notin Responding
    BY <2>3 DEF Quiet, Responding
  <2>6. ~s.ending
    BY <1>3 DEF CallInv, Closing, Quiet
  <2>7. Good(s, t)
    BY <2>1, <2>3, <2>4, <2>5, <2>6, DroppedGood
  <2> QED BY <2>1, <2>3, <2>7 DEF t
<1> QED BY <1>2, <1>3

-----------------------------------------------------------------------------
(* Hypotheses: partial, hypothesis, the stability timer                     *)

LEMMA CancelGood ==
  ASSUME NEW s, CallInv(s), s.st \in Hearing, NEW t \in CallSet, Alike(Cancel(s), t)
  PROVE  Good(s, t)
<1>1. s \in CallSet
  BY DEF CallInv, CallTypes
<1>2. Dropped(s, t) /\ t.st = s.st /\ t.ending = s.ending /\ t.open = s.open
  BY <1>1, CancelDoes DEF Alike, Dropped
<1>3. ~s.ending /\ t.st \in Quiet \cup Hearing /\ t.st \notin Responding
  BY <1>2 DEF CallInv, Closing, Quiet, Hearing, Responding
<1> QED BY <1>2, <1>3, DroppedGood

\* What follows a step that only touched what the invariant does not read.
LEMMA AlikeThen ==
  ASSUME NEW s \in CallSet, NEW r \in CallSet, NEW t, Alike(s, r), r.timer = s.timer, Good(r, t)
  PROVE  Good(s, t)
<1>1. t \in CallSet /\ CallInv(t)
  BY DEF Good, Step, CallInv, CallTypes
<1>2. Follows(s, t)
  <2>1. Follows(s, r) /\ Follows(r, t)
    BY AlikeFollows DEF Good
  <2> QED BY <1>1, <2>1, FollowsOn
<1>3. Waits(s, t) /\ Reactive(s, t) /\ t.conf = s.conf
  BY DEF Good, Step, Alike, Waits, Reactive
<1>4. Moved(s, t) /\ Kept(s, t)
  BY DEF Good, Step, Alike, Moved, Kept
<1> QED BY <1>1, <1>2, <1>3, <1>4 DEF Good, Step

LEMMA SameGood ==
  ASSUME NEW s, CallInv(s)
  PROVE  Good(s, s)
<1>1. s \in CallSet
  BY DEF CallInv, CallTypes
<1> QED BY <1>1, AlikeGood DEF Alike

LEMMA PartialGood ==
  ASSUME NEW s, CallInv(s), NEW text \in TextSet
  PROVE  Good(s, Partial(s, text))
<1> DEFINE t == Partial(s, text)
           heard == [s EXCEPT !.part = text]
           kept == IF s.att.id # 0 /\ s.att.hyp # text THEN Cancel(heard) ELSE heard
           timer == [NoTimer EXCEPT !.turn = s.turn, !.text = text]
<1>1. s \in CallSet /\ Good(s, s)
  BY SameGood DEF CallInv, CallTypes
<1>2. CASE s.ending \/ text \in Echo
  BY <1>1, <1>2 DEF Partial
<1>3. CASE ~(s.ending \/ text \in Echo) /\ s.cand /\ s.st \in Quiet
  <2>1. t = [s EXCEPT !.pre = text]
    BY <1>3 DEF Partial
  <2> HIDE DEF t
  <2>2. t \in CallSet /\ Alike(s, t) /\ t.timer = s.timer
    BY <1>1, <2>1, ZenonT(60) DEF CallSet, Alike
  <2>3. Good(s, t)
    BY <2>2, AlikeGood
  <2> QED BY <2>3 DEF t
<1>4. CASE ~(s.ending \/ text \in Echo) /\ ~(s.cand /\ s.st \in Quiet) /\ s.st \notin Hearing
  BY <1>1, <1>4 DEF Partial
<1>5. heard \in CallSet /\ Alike(s, heard) /\ heard.timer = s.timer /\ heard.att = s.att /\ heard.pl = s.pl
  BY <1>1 DEF CallSet, Alike
<1>6. CASE ~(s.ending \/ text \in Echo) /\ s.st \in Hearing /\ (s.part = text \/ text \in Short)
  <2>1. t = heard
    <3>1. ~(s.cand /\ s.st \in Quiet)
      BY <1>6 DEF Quiet, Hearing
    <3> QED BY <1>6, <3>1 DEF Partial
  <2> QED BY <1>5, <2>1, AlikeGood
<1>7. CASE ~(s.ending \/ text \in Echo) /\ s.st \in Hearing /\ ~(s.part = text \/ text \in Short)
  <2>1. t = [kept EXCEPT !.stable = timer]
    <3>1. ~(s.cand /\ s.st \in Quiet)
      BY <1>7 DEF Quiet, Hearing
    <3> QED BY <1>7, <3>1 DEF Partial
  <2>2. timer \in TimerSet
    <3>1. s.turn \in Nat
      BY <1>1 DEF CallSet
    <3> QED BY <3>1 DEF TimerSet, NoTimer
  <2>3. CASE s.att.id # 0 /\ s.att.hyp # text
    <3> DEFINE free == Cancel(heard)
    <3>1. free \in CallSet /\ Alike(Cancel(s), free)
      <4> HIDE DEF heard
      <4>1. free \in CallSet
        BY <1>5, CancelDoes
      <4>2. Alike(heard, heard) /\ Alike(s, heard)
        BY <1>5 DEF Alike
      <4>3. Alike(Cancel(s), free)
        BY <1>1, <1>5, CancelDoes DEF Alike
      <4> QED BY <4>1, <4>3
    <3>2. t = [free EXCEPT !.stable = timer]
      BY <2>1, <2>3
    <3> HIDE DEF t, heard, timer, free
    <3>3. t \in CallSet /\ Alike(free, t)
      BY <2>2, <3>1, <3>2, ZenonT(60) DEF CallSet, Alike
    <3>4. Alike(Cancel(s), t)
      BY <3>1, <3>3 DEF Alike
    <3>5. Good(s, t)
      BY <1>7, <3>3, <3>4, CancelGood
    <3> QED BY <3>5 DEF t
  <2>4. CASE ~(s.att.id # 0 /\ s.att.hyp # text)
    <3>1. t = [heard EXCEPT !.stable = timer]
      BY <2>1, <2>4
    <3> HIDE DEF t, heard, timer
    <3>2. t \in CallSet /\ Alike(heard, t) /\ t.timer = heard.timer
      BY <1>5, <2>2, <3>1, ZenonT(60) DEF CallSet, Alike
    <3>3. Alike(s, t) /\ t.timer = s.timer
      BY <1>5, <3>2 DEF Alike
    <3>4. Good(s, t)
      BY <3>2, <3>3, AlikeGood
    <3> QED BY <3>4 DEF t
  <2> QED BY <2>3, <2>4
<1> QED BY <1>2, <1>3, <1>4, <1>6, <1>7

\* A guess that is begun.
LEMMA GuessGood ==
  ASSUME NEW s, CallInv(s), NEW text \in TextSet, s.speech, s.st \in Hearing \cup {"AwaitingFinal"}
  PROVE  Good(s, Begin(s, text, FALSE, "no"))
<1> DEFINE t == Begin(s, text, FALSE, "no")
<1>1. Base(s) /\ CallTypes(s)
  BY CallBase DEF CallInv
<1>2. ~s.ending
  BY DEF CallInv, Closing, Quiet, Hearing
<1>3. CallInv(t) /\ Began(s, t, text, FALSE, "no")
  BY <1>1, <1>2, GuessInv, GuessDoes
<1>4. s.next \in Nat /\ s.rev \in Nat
  BY <1>1 DEF CallTypes, CallSet
<1> HIDE DEF t
<1>5. Follows(s, t)
  BY <1>3, <1>4 DEF Began, Follows, Onward
<1>6. Waits(s, t) /\ Reactive(s, t)
  BY <1>3 DEF Began, Waits, Reactive
<1>7. Moved(s, t) /\ Kept(s, t) /\ t.conf = s.conf
  BY <1>2, <1>3 DEF Began, Moved, Kept
<1> QED BY <1>3, <1>5, <1>6, <1>7 DEF Good, Step, t

LEMMA HypothesisGood ==
  ASSUME NEW s, CallInv(s), NEW turn, NEW revision, NEW text \in TextSet
  PROVE  Good(s, Hypothesis(s, turn, revision, text))
<1> DEFINE t == Hypothesis(s, turn, revision, text)
           heard == [s EXCEPT !.stable = NoTimer, !.part = text]
<1>1. s \in CallSet /\ Good(s, s) /\ NoTimer \in TimerSet
  BY SameGood, Blank DEF CallInv, CallTypes
<1>2. CASE ~HypothesisOk(s, turn, revision)
  BY <1>1, <1>2 DEF Hypothesis
<1>3. heard \in CallSet /\ Alike(s, heard) /\ heard.timer = s.timer
  BY <1>1 DEF CallSet, Alike
<1>4. CASE HypothesisOk(s, turn, revision) /\ s.att.id # 0 /\ s.att.hyp = text
  <2>1. t = heard
    BY <1>4 DEF Hypothesis
  <2> QED BY <1>3, <2>1, AlikeGood
<1>5. CASE HypothesisOk(s, turn, revision) /\ ~(s.att.id # 0 /\ s.att.hyp = text)
  <2>1. t = Begin(heard, text, FALSE, "no")
    BY <1>5 DEF Hypothesis
  <2> HIDE DEF t, heard
  <2>2. CallInv(heard) /\ heard.speech /\ heard.st \in Hearing \cup {"AwaitingFinal"}
    BY <1>3, <1>5, AlikeInv DEF HypothesisOk, Alike
  <2>3. Good(heard, t)
    BY <2>1, <2>2, GuessGood
  <2>4. Good(s, t)
    BY <1>1, <1>3, <2>3, AlikeThen
  <2> QED BY <2>4 DEF t
<1> QED BY <1>2, <1>4, <1>5

LEMMA StableGood ==
  ASSUME NEW s, CallInv(s), NEW e, e.text \in TextSet
  PROVE  Good(s, Stable(s, e))
<1>1. CASE s.speech /\ s.st \in Hearing \cup {"AwaitingFinal"} /\ e.turn = s.turn /\ e.text = s.part
  BY <1>1, GuessGood DEF Stable
<1>2. CASE ~(s.speech /\ s.st \in Hearing \cup {"AwaitingFinal"} /\ e.turn = s.turn /\ e.text = s.part)
  BY <1>2, SameGood DEF Stable
<1> QED BY <1>1, <1>2

-----------------------------------------------------------------------------
(* The attempt goes on: tokens, the first audio                             *)

\* t is s but for its attempt.
ButAtt(s, t) ==
  /\ t.conf = s.conf /\ t.st = s.st /\ t.turn = s.turn /\ t.next = s.next
  /\ t.cand = s.cand /\ t.fin = s.fin /\ t.speech = s.speech /\ t.ending = s.ending
  /\ t.hang = s.hang /\ t.rev = s.rev /\ t.eng = s.eng /\ t.finals = s.finals /\ t.pl = s.pl
  /\ t.open = s.open /\ t.timer = s.timer

LEMMA WithAtt ==
  ASSUME NEW s \in CallSet, NEW a \in AttSet
  PROVE  /\ [s EXCEPT !.att = a] \in CallSet /\ ButAtt(s, [s EXCEPT !.att = a])
         /\ [s EXCEPT !.att = a].att = a
<1> DEFINE t == [s EXCEPT !.att = a]
<1>1. t \in CallSet /\ t.att = a /\ ButAtt(s, t)
  BY DEF CallSet, ButAtt
<1> QED BY <1>1

\* The attempt's identity, and what it is for.
SameReply(a, b) ==
  /\ b.id = a.id /\ b.hyp = a.hyp /\ b.auth = a.auth /\ b.tool = a.tool /\ b.direct = a.direct
  /\ b.owner = a.owner /\ b.kind = a.kind /\ b.endReq = a.endReq /\ b.spec = a.spec
  /\ b.endOffered = a.endOffered
  /\ a.task # "run" => b.task # "run"
  /\ a.task \notin Producing => b.task \notin Producing

LEMMA ProgressGood ==
  ASSUME NEW s, CallInv(s), NEW a \in AttSet, SameReply(s.att, a), s.att.id # 0
  PROVE  Good(s, [s EXCEPT !.att = a])
<1> DEFINE t == [s EXCEPT !.att = a]
<1>1. s \in CallSet /\ s.next \in Nat /\ s.rev \in Nat
  BY DEF CallInv, CallTypes, CallSet
<1>2. t \in CallSet /\ ButAtt(s, t) /\ t.att = a
  BY <1>1, WithAtt
<1> HIDE DEF t
<1>3. CallTypes(t)
  BY <1>2 DEF CallInv, CallTypes, ButAtt, SameReply
<1>4. OnePlayout(t)
  BY <1>2 DEF CallInv, OnePlayout, ButAtt, SameReply
<1>5. ForFinal(t)
  BY <1>2 DEF CallInv, ForFinal, ButAtt, SameReply
<1>6. Kinds(t)
  BY <1>2 DEF CallInv, Kinds, ButAtt, SameReply
<1>7. Replies(t) /\ Current(t) /\ Closing(t)
  BY <1>2 DEF CallInv, Replies, Current, Closing, Forgets, ButAtt, SameReply
<1>8. CallInv(t)
  BY <1>3, <1>4, <1>5, <1>6, <1>7 DEF CallInv
<1>9. Follows(s, t)
  <2>1. Onward(s, t)
    BY <1>1, <1>2 DEF Onward, ButAtt
  <2>2. SameAttempt(s, t) /\ Undecided(s, t)
    BY <1>2 DEF SameAttempt, Undecided, ButAtt, SameReply
  <2> QED BY <2>1, <2>2 DEF Follows
<1>10. Waits(s, t) /\ Moved(s, t) /\ Kept(s, t) /\ Reactive(s, t) /\ t.conf = s.conf
  BY <1>2 DEF Waits, Moved, Kept, Reactive, ButAtt
<1> QED BY <1>8, <1>9, <1>10 DEF Good, Step, t

LEMMA TokenGood ==
  ASSUME NEW s, CallInv(s), NEW id \in Nat \ {0}
  PROVE  Good(s, Token(s, id))
<1>1. CASE s.att.id = id /\ s.att.task # "none"
  <2> DEFINE a == [s.att EXCEPT !.answer = TRUE]
  <2>1. Token(s, id) = [s EXCEPT !.att = a]
    BY <1>1 DEF Token
  <2>2. s.att \in AttSet
    BY DEF CallInv, CallTypes, CallSet
  <2>3. a \in AttSet /\ SameReply(s.att, a)
    BY <2>2 DEF AttSet, SameReply
  <2> QED BY <1>1, <2>1, <2>3, ProgressGood, ZenonT(60)
<1>2. CASE ~(s.att.id = id /\ s.att.task # "none")
  BY <1>2, SameGood DEF Token
<1> QED BY <1>1, <1>2

LEMMA AudioStartGood ==
  ASSUME NEW s, CallInv(s), NEW id \in Nat \ {0}
  PROVE  Good(s, AudioStart(s, id))
<1>1. CASE s.att.id = id /\ s.att.auth
  <2> DEFINE t == [s EXCEPT !.st = "Playing"]
  <2>1. AudioStart(s, id) = t
    BY <1>1 DEF AudioStart
  <2>2. s \in CallSet /\ s.next \in Nat /\ s.rev \in Nat
    BY DEF CallInv, CallTypes, CallSet
  <2>3. /\ t \in CallSet /\ t.st = "Playing" /\ t.att = s.att
        /\ t.conf = s.conf /\ t.turn = s.turn /\ t.next = s.next
        /\ t.cand = s.cand /\ t.fin = s.fin /\ t.speech = s.speech /\ t.ending = s.ending
        /\ t.hang = s.hang /\ t.rev = s.rev /\ t.eng = s.eng /\ t.finals = s.finals /\ t.pl = s.pl
        /\ t.open = s.open
    <3>1. "Playing" \in Quiet \cup Hearing \cup {"AwaitingFinal"}
      BY DEF Quiet
    <3> QED BY <2>2, <3>1, ZenonT(60) DEF CallSet
  <2> HIDE DEF t
  <2>4. CallTypes(t) /\ OnePlayout(t)
    BY <2>3 DEF CallInv, CallTypes, OnePlayout
  <2>5. ForFinal(t) /\ Kinds(t)
    BY <2>3 DEF CallInv, ForFinal, Kinds, Responding
  <2>6. Replies(t) /\ Current(t)
    BY <1>1, <2>3 DEF CallInv, Replies, Current
  <2>7. Closing(t)
    BY <2>3 DEF CallInv, Closing, Forgets, Quiet
  <2>8. CallInv(t)
    BY <2>4, <2>5, <2>6, <2>7 DEF CallInv
  <2>9. Follows(s, t)
    <3>1. Onward(s, t)
      BY <2>2, <2>3 DEF Onward
    <3> QED BY <2>3, <3>1 DEF Follows, SameAttempt, Undecided
  <2>10. Waits(s, t) /\ Moved(s, t) /\ Kept(s, t) /\ Reactive(s, t) /\ t.conf = s.conf
    BY <2>3 DEF Waits, Moved, Kept, Reactive
  <2> QED BY <2>1, <2>8, <2>9, <2>10 DEF Good, Step
<1>2. CASE ~(s.att.id = id /\ s.att.auth)
  BY <1>2, SameGood DEF AudioStart
<1> QED BY <1>1, <1>2

-----------------------------------------------------------------------------
(* Replies and farewells, from what the method has made of the call         *)

LEMMA BegunGood ==
  ASSUME NEW s, CallInv(s), NEW r, Base(r), r.next = s.next, r.conf = s.conf, Onward(s, r), Moved(s, r),
         Kept(s, r), NEW text \in TextSet, NEW direct \in {"no", "facts", "verbatim"},
         s.ending => direct # "no",
         NEW t, CallInv(t), t.att.id = s.next + 1, t.att.kind = "none", t.att.direct = direct,
         t.st = "Releasing", t.next = r.next + 1, t.conf = r.conf, t.turn = r.turn, t.cand = r.cand,
         t.fin = r.fin, t.speech = r.speech, t.ending = r.ending, t.hang = r.hang, t.rev = r.rev,
         t.finals = r.finals
  PROVE  Good(s, t) /\ t.att.id > s.next
<1>1. s.next \in Nat /\ s.rev \in Nat
  BY DEF CallInv, CallTypes, CallSet
<1>2. Follows(s, t) /\ t.att.id > s.next
  BY <1>1 DEF Follows, Onward
<1>3. Waits(s, t) /\ Reactive(s, t)
  BY DEF Waits, Reactive
<1>4. Moved(s, t) /\ Kept(s, t)
  BY DEF Moved, Kept
<1> QED BY <1>2, <1>3, <1>4 DEF Good, Step

LEMMA ReplyGood ==
  ASSUME NEW s, CallInv(s), NEW r, Base(r), r.next = s.next, r.conf = s.conf, Onward(s, r), Moved(s, r),
         Kept(s, r), NEW text \in TextSet, NEW direct \in {"no", "facts", "verbatim"},
         s.ending => direct # "no",
         direct = "no" => r.turn \in r.finals, r.turn \in r.finals \cup {0},
         r.ending => direct # "no" /\ (r.open => r.hang # "no" \/ Forgets(r))
  PROVE  /\ Good(s, Begin(r, text, TRUE, direct)) /\ Begin(r, text, TRUE, direct).att.id > s.next
         /\ Began(r, Begin(r, text, TRUE, direct), text, TRUE, direct)
<1> DEFINE t == Begin(r, text, TRUE, direct)
<1>1. CallTypes(r)
  BY DEF Base
<1>2. Began(r, t, text, TRUE, direct) /\ CallInv(t)
  BY <1>1, ReplyDoes, ReplyInv
<1> HIDE DEF t
<1>3. /\ t.att.id = s.next + 1 /\ t.att.kind = "none" /\ t.att.direct = direct
      /\ t.st = "Releasing" /\ t.next = r.next + 1 /\ t.conf = r.conf /\ t.turn = r.turn /\ t.cand = r.cand
      /\ t.fin = r.fin /\ t.speech = r.speech /\ t.ending = r.ending /\ t.hang = r.hang /\ t.rev = r.rev
      /\ t.finals = r.finals
  BY <1>2 DEF Began
<1>4. Good(s, t) /\ t.att.id > s.next
  BY <1>2, <1>3, BegunGood
<1> QED BY <1>2, <1>4 DEF t

\* t is r with a farewell of its own.
Parting(r, t, direct) ==
  /\ CallInv(t) /\ t.att.id = r.next + 1 /\ t.att.kind = "none" /\ t.att.direct = direct
  /\ t.st = "Releasing" /\ t.next = r.next + 1 /\ t.conf = r.conf /\ t.turn = r.turn /\ t.cand = r.cand
  /\ t.fin = r.fin /\ t.speech = r.speech /\ t.ending = r.ending /\ t.hang = r.hang /\ t.rev = r.rev
  /\ t.finals = r.finals

LEMMA FarewellInv ==
  ASSUME NEW r, Base(r), NEW text \in TextSet, NEW direct \in {"facts", "verbatim"},
         direct = "facts" => "localized" \in r.conf.on, r.turn \in r.finals \cup {0}
  PROVE  Parting(r, [Begin(r, text, TRUE, direct) EXCEPT !.att.endReq = TRUE], direct)
<1> DEFINE b == Begin(r, text, TRUE, direct)
           a == [b.att EXCEPT !.endReq = TRUE]
           t == [b EXCEPT !.att = a]
<1>1. CallTypes(r) /\ r.next \in Nat
  BY DEF Base, CallTypes, CallSet
<1>2. Began(r, b, text, TRUE, direct)
  BY <1>1, ReplyDoes
<1>3. t = [Begin(r, text, TRUE, direct) EXCEPT !.att.endReq = TRUE]
  OBVIOUS
<1> HIDE DEF b
<1>4. b \in CallSet /\ b.att \in AttSet
  BY <1>2 DEF Began, CallSet
<1>5. /\ a \in AttSet /\ a.endReq /\ a.id = b.att.id /\ a.auth = b.att.auth /\ a.task = b.att.task /\ a.tool = b.att.tool
      /\ a.direct = b.att.direct /\ a.owner = b.att.owner /\ a.kind = b.att.kind /\ a.spec = b.att.spec
  BY <1>4 DEF AttSet
<1> HIDE DEF a
<1>6. t \in CallSet /\ ButAtt(b, t) /\ t.att = a
  BY <1>4, <1>5, WithAtt
<1> HIDE DEF t
<1>7. /\ t \in CallSet /\ t.next = r.next + 1
      /\ t.conf = r.conf /\ t.turn = r.turn /\ t.cand = r.cand /\ t.fin = r.fin
      /\ t.speech = r.speech /\ t.ending = r.ending /\ t.hang = r.hang
      /\ t.rev = r.rev /\ t.eng = r.eng
      /\ t.finals = r.finals /\ t.open = r.open /\ t.st = "Releasing"
      /\ t.att.id = r.next + 1 /\ t.att.auth /\ t.att.task = "run"
      /\ t.att.tool = "none" /\ t.att.direct = direct /\ t.att.owner = r.turn
      /\ t.att.kind = "none" /\ t.att.endReq /\ ~t.att.spec
      /\ t.pl.id = r.next + 1 /\ t.pl.highest = r.next + 1 /\ t.pl.authorized
      /\ t.pl.enabled = r.speech
  BY <1>2, <1>5, <1>6, ZenonT(60) DEF Began, ButAtt
<1>8. CallTypes(t)
  BY <1>1, <1>7 DEF CallTypes
<1>9. OnePlayout(t)
  BY <1>7 DEF OnePlayout
<1>10. ForFinal(t) /\ Kinds(t)
  BY <1>7 DEF ForFinal, Kinds, Responding
<1>11. Replies(t) /\ Current(t)
  BY <1>7 DEF Base, Replies, Current
<1>12. Closing(t)
  BY <1>7 DEF Closing, Quiet
<1>13. Parting(r, t, direct)
  BY <1>7, <1>8, <1>9, <1>10, <1>11, <1>12 DEF CallInv, Parting
<1> QED BY <1>3, <1>13

LEMMA FarewellGood ==
  ASSUME NEW s, CallInv(s), NEW r, Base(r), r.next = s.next, r.conf = s.conf, Onward(s, r), Moved(s, r),
         Kept(s, r), NEW text \in TextSet, NEW direct \in {"facts", "verbatim"},
         direct = "facts" => "localized" \in r.conf.on, r.turn \in r.finals \cup {0},
         NEW t, t = [Begin(r, text, TRUE, direct) EXCEPT !.att.endReq = TRUE]
  PROVE  Good(s, t) /\ t.att.id > s.next
<1>0. Parting(r, t, direct)
  BY FarewellInv
<1>1. /\ CallInv(t) /\ t.att.id = r.next + 1 /\ t.att.kind = "none" /\ t.att.direct = direct
      /\ t.st = "Releasing" /\ t.next = r.next + 1 /\ t.conf = r.conf /\ t.turn = r.turn /\ t.cand = r.cand
      /\ t.fin = r.fin /\ t.speech = r.speech /\ t.ending = r.ending /\ t.hang = r.hang /\ t.rev = r.rev
      /\ t.finals = r.finals
  BY <1>0 DEF Parting
<1>2. direct \in {"no", "facts", "verbatim"} /\ direct # "no" /\ t.att.id = s.next + 1
  BY <1>1
<1> QED BY <1>1, <1>2, BegunGood, ZenonT(60)

-----------------------------------------------------------------------------
(* Tools                                                                    *)

LEMMA BaseFrom ==
  ASSUME NEW s, Base(s), NEW t \in CallSet, t.pl = s.pl, t.next = s.next, t.att.id = s.att.id,
         t.att.id # 0 \/ t.att = s.att, t.fin = s.fin, t.turn = s.turn, t.finals = s.finals, Current(t)
  PROVE  Base(t)
<1>1. CallTypes(t)
  BY DEF Base, CallTypes
<1> QED BY <1>1 DEF Base

\* What is known of an authorized attempt that calls a tool.
Calling(s) ==
  /\ s.att.id # 0 /\ s.att.direct = "no" /\ s.att.kind = "none" /\ s.att.task # "run"
  /\ s.att.tool \in s.conf.tools
  /\ s.st \in Responding /\ s.turn \in s.finals
  /\ s.ending => s.att.endReq
  /\ s.att.endReq /\ s.att.spec => s.att.endOffered
  /\ s.att.owner = s.turn \/ "minimum" \in s.conf.on
  /\ s.att.spec => <<s.att.hyp, s.fin>> \in Similar

LEMMA AuthorizedCalls ==
  ASSUME NEW s, CallInv(s), s.att.auth, s.att.tool # "none"
  PROVE  Calling(s)
<1>1. s.att.id # 0
  BY Blank DEF CallInv, CallTypes
<1>2. /\ s.att.direct = "no" /\ s.att.kind = "none" /\ s.att.task # "run" /\ s.att.tool \in s.conf.tools
      /\ s.att.endReq /\ s.att.spec => s.att.endOffered
  BY DEF CallInv, Kinds
<1>3. /\ s.st \in Responding /\ s.turn \in s.finals
      /\ s.att.spec => <<s.att.hyp, s.fin>> \in Similar
  BY <1>2 DEF CallInv, ForFinal
<1>4. s.ending => s.att.endReq
  BY <1>1, <1>2 DEF CallInv, Closing
<1>5. s.att.owner = s.turn \/ "minimum" \in s.conf.on
  BY <1>1, <1>2 DEF CallInv, Kinds
<1> QED BY <1>1, <1>2, <1>3, <1>4, <1>5 DEF Calling

\* r is the call with the tool taken from the attempt.
Taken(s, r) ==
  /\ r \in CallSet /\ ButAtt(s, r) /\ r.att \in AttSet
  /\ r.att.id = s.att.id /\ r.att.hyp = s.att.hyp /\ r.att.auth = s.att.auth /\ r.att.task = s.att.task
  /\ r.att.tool = "none" /\ r.att.direct = s.att.direct /\ r.att.owner = s.att.owner
  /\ r.att.kind = s.att.kind /\ r.att.endReq = s.att.endReq /\ r.att.spec = s.att.spec
  /\ r.att.endOffered = s.att.endOffered

LEMMA TakenDoes ==
  ASSUME NEW s, CallInv(s)
  PROVE  Taken(s, [s EXCEPT !.att.tool = "none"])
<1> DEFINE a == [s.att EXCEPT !.tool = "none"]
           r == [s EXCEPT !.att = a]
<1>1. s \in CallSet /\ s.att \in AttSet
  BY DEF CallInv, CallTypes, CallSet
<1>2. /\ a \in AttSet /\ a.id = s.att.id /\ a.hyp = s.att.hyp /\ a.auth = s.att.auth /\ a.task = s.att.task
      /\ a.tool = "none" /\ a.direct = s.att.direct /\ a.owner = s.att.owner
      /\ a.kind = s.att.kind /\ a.endReq = s.att.endReq /\ a.spec = s.att.spec /\ a.endOffered = s.att.endOffered
  BY <1>1 DEF AttSet
<1>3. r = [s EXCEPT !.att.tool = "none"]
  OBVIOUS
<1> HIDE DEF a
<1>4. r \in CallSet /\ ButAtt(s, r) /\ r.att = a
  BY <1>1, <1>2, WithAtt
<1> HIDE DEF r
<1>5. Taken(s, r)
  BY <1>2, <1>4 DEF Taken
<1> QED BY <1>3, <1>5

LEMMA TakenBase ==
  ASSUME NEW s, CallInv(s), Calling(s), NEW r, Taken(s, r)
  PROVE  Base(r) /\ Onward(s, r) /\ Moved(s, r) /\ Kept(s, r) /\ r.next = s.next /\ r.conf = s.conf
<1>1. Base(s)
  BY CallBase
<1>2. s.next \in Nat /\ s.rev \in Nat
  BY <1>1 DEF Base, CallTypes, CallSet
<1>3. Current(r)
  BY <1>1 DEF Base, Current, Taken, ButAtt
<1>4. r \in CallSet /\ r.pl = s.pl /\ r.next = s.next /\ r.att.id = s.att.id /\ r.att.id # 0
      /\ r.fin = s.fin /\ r.turn = s.turn /\ r.finals = s.finals
  BY DEF Taken, ButAtt, Calling
<1>5. Base(r)
  BY <1>1, <1>3, <1>4, BaseFrom
<1>6. Onward(s, r)
  BY <1>2 DEF Onward, Taken, ButAtt
<1>7. Moved(s, r) /\ Kept(s, r) /\ r.next = s.next /\ r.conf = s.conf
  BY DEF Moved, Kept, Taken, ButAtt
<1> QED BY <1>5, <1>6, <1>7

\* A tool acts on the turn it was called for.
Acted(s, t) ==
  Good(s, t) /\ t.st # "AwaitingFinal" /\ t.turn = s.turn /\ t.fin = s.fin /\ t.finals = s.finals

LEMMA FactsIs ==
  ASSUME NEW s, s.conf = c.conf
  PROVE  Facts \in {"facts", "verbatim"} /\ (Facts = "facts" => "localized" \in s.conf.on)
  BY DEF Facts, Localized

LEMMA TextsOf ==
  ASSUME NEW s, CallInv(s)
  PROVE  s.fin \in TextSet /\ s.pre \in TextSet /\ s.conf \in Configs
  BY DEF CallInv, CallTypes, CallSet

LEMMA EndCallActs ==
  ASSUME NEW s, CallInv(s), Calling(s), s.conf = c.conf, s.att.auth, s.att.tool # "none", NEW r, Taken(s, r)
  PROVE  Acted(s, ApplyEndCall(r))
<1>1. Base(r) /\ Onward(s, r) /\ Moved(s, r) /\ Kept(s, r) /\ r.next = s.next /\ r.conf = s.conf
  BY TakenBase
<1>2. r.fin = s.fin /\ r.fin \in TextSet /\ r.turn = s.turn /\ r.finals = s.finals /\ r.turn \in r.finals
      /\ r.ending = s.ending
  BY TextsOf DEF Taken, ButAtt, Calling
<1>3. CASE ~r.att.endOffered /\ r.att.spec
  <2>0. ~s.ending /\ ~r.ending
    BY <1>2, <1>3 DEF Taken, Calling
  <2> DEFINE t == Begin(r, r.fin, TRUE, "no")
  <2>1. ApplyEndCall(r) = t
    BY <1>3 DEF ApplyEndCall
  <2>2. Good(s, t) /\ Began(r, t, r.fin, TRUE, "no")
    BY <1>1, <1>2, <2>0, ReplyGood
  <2> HIDE DEF t
  <2>3. t.st = "Releasing" /\ t.turn = r.turn /\ t.fin = r.fin /\ t.finals = r.finals
    BY <2>2 DEF Began
  <2> QED BY <1>2, <2>1, <2>2, <2>3 DEF Acted
<1>4. CASE ~(~r.att.endOffered /\ r.att.spec)
  <2> DEFINE w == [r EXCEPT !.ending = TRUE]
  <2>1. r \in CallSet
    BY DEF Taken
  <2>2. /\ w \in CallSet /\ w.ending /\ w.att = r.att /\ w.conf = r.conf /\ w.st = r.st /\ w.turn = r.turn
        /\ w.next = r.next /\ w.cand = r.cand /\ w.fin = r.fin /\ w.speech = r.speech /\ w.hang = r.hang
        /\ w.rev = r.rev /\ w.eng = r.eng /\ w.finals = r.finals /\ w.pl = r.pl /\ w.open = r.open
    BY <2>1 DEF CallSet
  <2> HIDE DEF w
  <2>3. Base(w) /\ Onward(s, w) /\ Kept(s, w) /\ w.next = s.next /\ w.conf = s.conf
    <3>1. Current(w)
      BY <1>1, <2>2 DEF Base, Current
    <3>2. Base(w)
      BY <1>1, <2>2, <3>1, BaseFrom
    <3> QED BY <1>1, <2>2, <3>2 DEF Onward, Kept
  <2>4. Moved(s, w)
    BY <2>2 DEF Moved, Calling, Taken, ButAtt
  <2>5. CASE r.att.task = "none"
    <3> DEFINE t == [Begin(w, r.fin, TRUE, Facts) EXCEPT !.att.endReq = TRUE]
    <3>1. ApplyEndCall(r) = t
      BY <1>4, <2>5 DEF ApplyEndCall, w
    <3>2. Facts \in {"facts", "verbatim"} /\ (Facts = "facts" => "localized" \in w.conf.on)
      BY <1>1, <2>2, FactsIs
    <3>3. w.turn \in w.finals \cup {0}
      BY <1>2, <2>2
    <3>4. Good(s, t)
      BY <1>2, <2>3, <2>4, <3>2, <3>3, FarewellGood
    <3>5. Parting(w, t, Facts)
      BY <1>2, <2>3, <3>2, <3>3, FarewellInv
    <3> HIDE DEF t
    <3>6. t.st = "Releasing" /\ t.turn = w.turn /\ t.fin = w.fin /\ t.finals = w.finals
      BY <3>5 DEF Parting
    <3> QED BY <1>2, <2>2, <3>1, <3>4, <3>6 DEF Acted
  <2>6. CASE r.att.task # "none"
    <3> DEFINE a == [r.att EXCEPT !.endReq = TRUE]
               t == [w EXCEPT !.att = a]
    <3>1. ApplyEndCall(r) = t
      BY <1>4, <2>2, <2>6 DEF ApplyEndCall, w
    <3>2. r.att \in AttSet
      BY DEF Taken
    <3>3. /\ a \in AttSet /\ a.endReq /\ a.id = r.att.id /\ a.hyp = r.att.hyp /\ a.auth = r.att.auth
          /\ a.task = r.att.task /\ a.tool = r.att.tool /\ a.direct = r.att.direct /\ a.owner = r.att.owner
          /\ a.kind = r.att.kind /\ a.spec = r.att.spec /\ a.endOffered = r.att.endOffered
      BY <3>2 DEF AttSet
    <3> HIDE DEF a
    <3>4. t \in CallSet /\ ButAtt(w, t) /\ t.att = a
      BY <2>2, <3>3, WithAtt
    <3> HIDE DEF t
    <3>5. /\ t.conf = s.conf /\ t.st = s.st /\ t.turn = s.turn /\ t.next = s.next
          /\ t.cand = s.cand /\ t.fin = s.fin /\ t.speech = s.speech /\ t.ending
          /\ t.hang = s.hang /\ t.rev = s.rev /\ t.eng = s.eng /\ t.finals = s.finals /\ t.pl = s.pl
          /\ t.open = s.open
      BY <2>2, <3>4 DEF ButAtt, Taken
    <3>6. /\ t.att.endReq /\ t.att.id = s.att.id /\ t.att.hyp = s.att.hyp /\ t.att.auth = s.att.auth
          /\ t.att.task = s.att.task /\ t.att.tool = "none" /\ t.att.direct = s.att.direct
          /\ t.att.owner = s.att.owner /\ t.att.kind = s.att.kind /\ t.att.spec = s.att.spec
          /\ t.att.endOffered = r.att.endOffered
      BY <3>3, <3>4 DEF Taken
    <3>7. CallTypes(t) /\ OnePlayout(t)
      BY <3>4, <3>5, <3>6 DEF CallInv, CallTypes, OnePlayout, Calling
    <3>8. ForFinal(t)
      BY <3>5, <3>6 DEF CallInv, ForFinal
    <3>9. Kinds(t)
      BY <1>4, <3>5, <3>6 DEF CallInv, Kinds, Calling, Taken
    <3>10. Replies(t) /\ Current(t)
      BY <3>5, <3>6 DEF CallInv, Replies, Current
    <3>11. Closing(t)
      BY <3>5, <3>6 DEF Closing, Calling, Responding, Quiet
    <3>12. CallInv(t)
      BY <3>7, <3>8, <3>9, <3>10, <3>11 DEF CallInv
    <3>13. Follows(s, t)
      <4>1. s.next \in Nat /\ s.rev \in Nat
        BY DEF CallInv, CallTypes, CallSet
      <4>2. Onward(s, t)
        BY <3>5, <4>1 DEF Onward
      <4>3. SameAttempt(s, t) /\ Undecided(s, t)
        BY <3>5, <3>6 DEF SameAttempt, Undecided
      <4> QED BY <4>2, <4>3 DEF Follows
    <3>14. Waits(s, t) /\ Kept(s, t) /\ Reactive(s, t) /\ t.st # "AwaitingFinal"
      BY <3>5 DEF Waits, Kept, Reactive, Calling, Responding
    <3>15. Moved(s, t)
      BY <3>5 DEF Moved, Calling
    <3> QED BY <3>1, <3>5, <3>12, <3>13, <3>14, <3>15 DEF Acted, Good, Step
  <2> QED BY <2>5, <2>6
<1> QED BY <1>3, <1>4

LEMMA GateActs ==
  ASSUME NEW s, CallInv(s), Calling(s), s.conf = c.conf, s.att.auth, s.att.tool # "none", NEW r, Taken(s, r),
         NEW tool, tool = s.att.tool, tool \in {"off", "open", "say"}, EngagementOn
  PROVE  Acted(s, ApplyGate(r, tool))
<1> DEFINE on == tool # "off"
           m == [r EXCEPT !.speech = on]
           i == Invalidate(m)
           g == Cancel(i)
<1>1. Base(r) /\ Onward(s, r) /\ Kept(s, r) /\ r.next = s.next /\ r.conf = s.conf
  BY TakenBase
<1>2. r.fin = s.fin /\ r.fin \in TextSet /\ r.turn = s.turn /\ r.finals = s.finals /\ r.turn \in r.finals
      /\ r.ending = s.ending /\ r \in CallSet /\ r.att.id # 0 /\ r.rev = s.rev /\ s.rev \in Nat /\ s.next \in Nat
      /\ r.cand = s.cand
  <2>1. s.rev \in Nat /\ s.next \in Nat
    BY DEF CallInv, CallTypes, CallSet
  <2> QED BY <2>1, TextsOf DEF Taken, ButAtt, Calling
<1>3. /\ m \in CallSet /\ m.att = r.att /\ m.conf = r.conf /\ m.turn = r.turn
      /\ m.next = r.next /\ m.cand = r.cand /\ m.fin = r.fin /\ m.ending = r.ending /\ m.hang = r.hang
      /\ m.rev = r.rev /\ m.eng = r.eng /\ m.finals = r.finals /\ m.pl = r.pl /\ m.open = r.open
      /\ m.speech = on
  <2>1. on \in BOOLEAN /\ r \in CallSet
    BY <1>2
  <2> HIDE DEF on
  <2> QED BY <2>1, ZenonT(60) DEF CallSet
<1> HIDE DEF m
<1>4. /\ i \in CallSet /\ i.att = m.att /\ i.conf = m.conf /\ i.turn = m.turn
      /\ i.next = m.next /\ i.cand = m.cand /\ i.fin = m.fin /\ i.ending = m.ending /\ i.hang = m.hang
      /\ i.rev = m.rev + 1 /\ i.eng = NoTask /\ i.finals = m.finals /\ i.pl = m.pl /\ i.open = m.open
      /\ i.speech = m.speech
  BY <1>3, InvalidateDoes
<1> HIDE DEF i
<1>5. Base(i)
  <2>1. Current(i)
    BY <1>4 DEF Current
  <2>2. i.pl = r.pl /\ i.next = r.next /\ i.att = r.att /\ i.fin = r.fin /\ i.turn = r.turn /\ i.finals = r.finals
    BY <1>3, <1>4
  <2> QED BY <1>1, <1>4, <2>1, <2>2, BaseFrom
<1>6. /\ g \in CallSet /\ g.att = NoAtt /\ g.conf = i.conf /\ g.turn = i.turn
      /\ g.next = i.next /\ g.cand = i.cand /\ g.fin = i.fin /\ g.ending = i.ending /\ g.hang = i.hang
      /\ g.rev = i.rev /\ g.eng = i.eng /\ g.finals = i.finals /\ g.open = i.open /\ g.speech = i.speech
  BY <1>4, CancelDoes
<1>7. Base(g)
  BY <1>5, CancelBase
<1> HIDE DEF g
<1>8. /\ g.conf = s.conf /\ g.turn = s.turn /\ g.next = s.next /\ g.fin = s.fin /\ g.ending = s.ending
      /\ g.speech = on
      /\ g.rev = s.rev + 1 /\ g.finals = s.finals /\ g.cand = s.cand
  BY <1>1, <1>2, <1>3, <1>4, <1>6
<1>9. Onward(s, g) /\ Moved(s, g) /\ Kept(s, g)
  BY <1>2, <1>8 DEF Onward, Moved, Kept, Calling
<1>12. Forgets(g)
  <2>1. tool \in s.conf.tools /\ "engagement" \in s.conf.on
    BY DEF Calling, EngagementOn
  <2> QED BY <1>8, <2>1 DEF Forgets, on
<1>10. CASE tool = "say"
  <2> DEFINE t == Begin(g, r.fin, TRUE, Facts)
  <2>1. ApplyGate(r, tool) = t
    BY <1>10 DEF ApplyGate, g, i, m, on
  <2>2. Facts \in {"no", "facts", "verbatim"} /\ Facts # "no"
    BY FactsIs
  <2>3. g.turn \in g.finals
    BY <1>2, <1>8
  <2>4. Good(s, t) /\ Began(g, t, r.fin, TRUE, Facts)
    BY <1>2, <1>7, <1>8, <1>9, <1>12, <2>2, <2>3, ReplyGood
  <2> HIDE DEF t
  <2>5. t.st = "Releasing" /\ t.turn = g.turn /\ t.fin = g.fin /\ t.finals = g.finals
    BY <2>4 DEF Began
  <2> QED BY <1>8, <2>1, <2>4, <2>5 DEF Acted
<1>11. CASE tool # "say"
  <2> DEFINE t == [g EXCEPT !.st = "Idle"]
  <2>1. ApplyGate(r, tool) = t
    BY <1>11 DEF ApplyGate, g, i, m, on
  <2>2. /\ t \in CallSet /\ t.st = "Idle" /\ t.att = g.att /\ t.conf = g.conf /\ t.turn = g.turn
        /\ t.next = g.next /\ t.cand = g.cand /\ t.fin = g.fin /\ t.ending = g.ending /\ t.hang = g.hang
        /\ t.rev = g.rev /\ t.eng = g.eng /\ t.finals = g.finals /\ t.open = g.open /\ t.pl = g.pl
        /\ t.speech = g.speech
    <3>1. g \in CallSet /\ "Idle" \in Quiet \cup Hearing \cup {"AwaitingFinal"}
      BY <1>6 DEF Quiet
    <3>2. t \in CallSet
      BY <3>1 DEF CallSet
    <3>3. /\ t.st = "Idle" /\ t.att = g.att /\ t.conf = g.conf /\ t.turn = g.turn
          /\ t.next = g.next /\ t.cand = g.cand /\ t.fin = g.fin /\ t.ending = g.ending
      BY <3>1 DEF CallSet
    <3>4. /\ t.hang = g.hang /\ t.rev = g.rev /\ t.eng = g.eng /\ t.finals = g.finals
          /\ t.open = g.open /\ t.pl = g.pl /\ t.speech = g.speech
      BY <3>1 DEF CallSet
    <3> HIDE DEF t
    <3> QED BY <3>2, <3>3, <3>4
  <2> HIDE DEF t
  <2>3. Base(t)
    <3>1. Current(t)
      BY <1>7, <2>2 DEF Base, Current
    <3> QED BY <1>7, <2>2, <3>1, BaseFrom
  <2>4. t.att.id = 0
    BY <1>6, <2>2, Blank
  <2>5. CallInv(t)
    <3>1. Forgets(t)
      BY <1>12, <2>2 DEF Forgets
    <3>2. t.st \in Quiet /\ t.st \notin Responding
      BY <2>2 DEF Quiet, Responding
    <3> QED BY <2>3, <2>4, <3>1, <3>2, FreeInv
  <2>6. Follows(s, t)
    BY <1>9, <2>2, <2>4 DEF Follows, Onward
  <2>7. Moved(s, t) /\ Kept(s, t)
    BY <1>8, <1>9, <2>2 DEF Moved, Kept
  <2>8. Waits(s, t) /\ Reactive(s, t) /\ t.conf = s.conf /\ t.st # "AwaitingFinal"
    BY <1>8, <2>2 DEF Waits, Reactive
  <2> QED BY <1>8, <2>1, <2>2, <2>5, <2>6, <2>7, <2>8 DEF Acted, Good, Step
<1> QED BY <1>10, <1>11

LEMMA ToolActs ==
  ASSUME NEW s, CallInv(s), s.conf = c.conf, s.att.auth, s.att.tool # "none"
  PROVE  Acted(s, ApplyTool(s))
<1> DEFINE tool == s.att.tool
           r == [s EXCEPT !.att.tool = "none"]
<1>1. Calling(s) /\ Taken(s, r)
  BY AuthorizedCalls, TakenDoes
<1>2. CASE tool = "end" /\ EndCallOn /\ s.speech
  <2>1. ApplyTool(s) = ApplyEndCall(r)
    BY <1>2 DEF ApplyTool
  <2> QED BY <1>1, <2>1, EndCallActs
<1>3. CASE ~(tool = "end" /\ EndCallOn /\ s.speech) /\ tool \in {"off", "open", "say"} /\ EngagementOn
  <2>1. ApplyTool(s) = ApplyGate(r, tool)
    BY <1>3 DEF ApplyTool
  <2> QED BY <1>1, <1>3, <2>1, GateActs
<1>4. CASE ~(tool = "end" /\ EndCallOn /\ s.speech) /\ ~(tool \in {"off", "open", "say"} /\ EngagementOn)
  <2> DEFINE t == Fail(r)
  <2>1. ApplyTool(s) = t
    BY <1>4 DEF ApplyTool
  <2> HIDE DEF r
  <2>2. CallInv(r)
    <3>1. r \in CallSet
      BY <1>1 DEF Taken
    <3>2. CallTypes(r) /\ OnePlayout(r)
      BY <1>1, <3>1 DEF CallInv, CallTypes, OnePlayout, Taken, ButAtt, Calling
    <3>3. ForFinal(r) /\ Kinds(r)
      BY <1>1 DEF CallInv, ForFinal, Kinds, Taken, ButAtt, Calling
    <3>4. Replies(r) /\ Current(r) /\ Closing(r)
      BY <1>1 DEF CallInv, Replies, Current, Closing, Taken, ButAtt, Calling
    <3> QED BY <3>2, <3>3, <3>4 DEF CallInv
  <2>3. Good(r, t) /\ Dropped(r, t) /\ t.st = "Idle" /\ ~t.ending
    BY <2>2, FailGood
  <2> HIDE DEF t
  <2>4. Dropped(s, t)
    BY <1>1, <2>3 DEF Dropped, Taken, ButAtt
  <2>6. t.st \in Quiet \cup Hearing /\ t.st \notin Responding
    BY <2>3 DEF Quiet, Responding
  <2>7. Good(s, t)
    BY <2>3, <2>4, <2>6, DroppedGood
  <2> QED BY <2>1, <2>3, <2>4, <2>7 DEF Acted, Dropped
<1> QED BY <1>2, <1>3, <1>4

-----------------------------------------------------------------------------
(* The final transcript                                                     *)

\* What follows a step that changed nothing a later tool call could act on.
LEMMA ActedFrom ==
  ASSUME NEW s \in CallSet, NEW r \in CallSet, NEW t, Acted(r, t), Follows(s, r), ~s.ending, ~r.ending,
         r.conf = s.conf, r.next = s.next, r.turn = s.turn, r.speech = s.speech,
         r.att.id = s.att.id, r.att.hyp = s.att.hyp, r.att.owner = s.att.owner, r.att.spec = s.att.spec,
         s.fin # "" => r.fin = s.fin
  PROVE  Good(s, t) /\ t.st # "AwaitingFinal"
<1>1. /\ CallInv(t) /\ t \in CallSet /\ Follows(r, t) /\ t.conf = r.conf /\ Moved(r, t) /\ Reactive(r, t)
      /\ t.st # "AwaitingFinal" /\ t.fin = r.fin
  BY DEF Acted, Good, Step, CallInv, CallTypes
<1>2. Follows(s, t)
  BY <1>1, FollowsOn
<1>3. Moved(s, t)
  BY <1>1 DEF Moved
<1>4. Waits(s, t) /\ Kept(s, t) /\ Reactive(s, t)
  BY <1>1 DEF Waits, Kept, Reactive
<1> QED BY <1>1, <1>2, <1>3, <1>4 DEF Good, Step

\* The attempt that guessed right is authorized.
Released(s, r) ==
  /\ r \in CallSet /\ r.att \in AttSet /\ r.st = "Releasing" /\ r.att.auth
  /\ r.conf = s.conf /\ r.turn = s.turn /\ r.next = s.next
  /\ r.cand = s.cand /\ r.fin = s.fin /\ r.speech = s.speech /\ r.ending = s.ending
  /\ r.hang = s.hang /\ r.rev = s.rev /\ r.eng = s.eng /\ r.finals = s.finals
  /\ r.open = s.open
  /\ r.att.id = s.att.id /\ r.att.hyp = s.att.hyp /\ r.att.task = s.att.task
  /\ r.att.tool = s.att.tool /\ r.att.direct = s.att.direct /\ r.att.owner = s.att.owner
  /\ r.att.kind = s.att.kind /\ r.att.endReq = s.att.endReq /\ r.att.spec = s.att.spec
  /\ r.att.endOffered = s.att.endOffered

LEMMA ReleasedDoes ==
  ASSUME NEW s, CallInv(s), s.att.id # 0, <<s.att.hyp, s.fin>> \in Similar, s.turn \in s.finals, ~s.ending,
         NEW r, Released(s, r), r.pl = s.pl \/ r.pl = AfterAuthorize(s.pl, s.att.id)
  PROVE  CallInv(r) /\ Follows(s, r)
<1>1. s \in CallSet /\ s.next \in Nat /\ s.rev \in Nat /\ s.pl \in PlSet
  BY DEF CallInv, CallTypes, CallSet
<1>2. /\ r.pl.id = s.pl.id /\ r.pl.highest = s.pl.highest /\ r.pl.enabled = s.pl.enabled
      /\ r.pl.ended = s.pl.ended
  BY <1>1 DEF PlSet, AfterAuthorize
<1>3. CallTypes(r) /\ OnePlayout(r)
  BY <1>2 DEF CallInv, CallTypes, OnePlayout, Released
<1>4. ForFinal(r)
  BY DEF ForFinal, Released, Responding
<1>5. Kinds(r)
  BY DEF CallInv, Kinds, Released
<1>6. Replies(r) /\ Current(r) /\ Closing(r)
  BY DEF CallInv, Replies, Current, Closing, Released
<1>7. Onward(s, r)
  BY <1>1 DEF Onward, Released
<1>8. SameAttempt(s, r) /\ Undecided(s, r)
  BY <1>2 DEF SameAttempt, Undecided, Released
<1> QED BY <1>3, <1>4, <1>5, <1>6, <1>7, <1>8 DEF CallInv, Follows

LEMMA RespondActs ==
  ASSUME NEW s, CallInv(s), s.conf = c.conf, ~s.ending, s.turn \in s.finals, NEW text, text = s.fin
  PROVE  Acted(s, RespondToFinal(s, text))
<1>1. s \in CallSet /\ s.turn \in s.finals /\ s.att \in AttSet /\ s.pl \in PlSet /\ text \in TextSet
  BY TextsOf DEF CallInv, CallTypes, CallSet
<1>2. CASE ~Agrees(s, text)
  <2> DEFINE r == Cancel(s)
             t == Begin(r, text, TRUE, "no")
  <2>1. RespondToFinal(s, text) = t
    BY <1>2 DEF RespondToFinal
  <2>2. Base(r)
    BY CallBase, CancelBase
  <2>3. /\ r.conf = s.conf /\ r.turn = s.turn /\ r.next = s.next /\ r.cand = s.cand /\ r.fin = s.fin
        /\ r.speech = s.speech /\ r.ending = s.ending /\ r.hang = s.hang /\ r.rev = s.rev
        /\ r.finals = s.finals
    BY <1>1, CancelDoes
  <2> HIDE DEF r
  <2>4. Onward(s, r)
    <3>1. s.next \in Nat /\ s.rev \in Nat
      BY <1>1 DEF CallSet
    <3>0. r.next = s.next /\ r.rev = s.rev
      BY <2>3
    <3>2. s.next <= r.next /\ s.rev <= r.rev
      BY <3>0, <3>1
    <3>3. r.turn = s.turn /\ (r.cand => s.cand) /\ r.conf = s.conf
      BY <2>3
    <3> QED BY <3>2, <3>3 DEF Onward
  <2>5. Moved(s, r) /\ Kept(s, r)
    BY <2>3 DEF Moved, Kept
  <2>6. Good(s, t) /\ Began(r, t, text, TRUE, "no")
    BY <1>1, <2>2, <2>3, <2>4, <2>5, ReplyGood
  <2> HIDE DEF t
  <2>7. t.st = "Releasing" /\ t.turn = r.turn /\ t.fin = r.fin /\ t.finals = r.finals
    BY <2>6 DEF Began
  <2> QED BY <2>1, <2>3, <2>6, <2>7 DEF Acted
<1>3. CASE Agrees(s, text)
  <2> DEFINE a == [s.att EXCEPT !.auth = TRUE]
             w == [s EXCEPT !.att = a, !.st = "Releasing"]
  <2>1. w = [s EXCEPT !.att.auth = TRUE, !.st = "Releasing"]
    OBVIOUS
  <2>2. /\ a \in AttSet /\ a.auth /\ a.id = s.att.id /\ a.hyp = s.att.hyp /\ a.task = s.att.task
        /\ a.tool = s.att.tool /\ a.direct = s.att.direct /\ a.owner = s.att.owner
        /\ a.kind = s.att.kind /\ a.endReq = s.att.endReq /\ a.spec = s.att.spec /\ a.endOffered = s.att.endOffered
    BY <1>1 DEF AttSet
  <2> HIDE DEF a
  <2>3. /\ w \in CallSet /\ w.att = a /\ w.st = "Releasing" /\ w.pl = s.pl
        /\ w.conf = s.conf /\ w.turn = s.turn /\ w.next = s.next
        /\ w.cand = s.cand /\ w.fin = s.fin /\ w.speech = s.speech /\ w.ending = s.ending
        /\ w.hang = s.hang /\ w.rev = s.rev /\ w.eng = s.eng /\ w.finals = s.finals
        /\ w.open = s.open
    <3>1. s \in CallSet /\ "Releasing" \in Quiet \cup Hearing \cup {"AwaitingFinal"} /\ a \in AttSet
      BY <1>1, <2>2 DEF Quiet
    <3> QED BY <3>1, ZenonT(60) DEF CallSet
  <2>4. s.att.id # 0 /\ <<s.att.hyp, s.fin>> \in Similar
    BY <1>3 DEF Agrees
  <2>5. CASE s.att.tool # "none"
    <3> DEFINE t == ApplyTool(w)
    <3>1. RespondToFinal(s, text) = t
      BY <1>3, <2>1, <2>5 DEF RespondToFinal
    <3> HIDE DEF w
    <3>2. Released(s, w)
      BY <2>2, <2>3 DEF Released
    <3>3. CallInv(w) /\ Follows(s, w)
      BY <1>1, <2>3, <2>4, <3>2, ReleasedDoes
    <3>4. Acted(w, t)
      BY <2>3, <2>5, <3>2, <3>3, ToolActs DEF Released
    <3> HIDE DEF t
    <3>5. Good(s, t) /\ t.st # "AwaitingFinal"
      BY <1>1, <2>3, <3>2, <3>3, <3>4, ActedFrom DEF Released
    <3> QED BY <2>3, <3>1, <3>4, <3>5 DEF Acted
  <2>6. CASE s.att.tool = "none"
    <3> DEFINE p == AfterAuthorize(s.pl, s.att.id)
               t == [w EXCEPT !.pl = p]
    <3>1. RespondToFinal(s, text) = t
      BY <1>3, <2>1, <2>3, <2>6 DEF RespondToFinal
    <3>2. p \in PlSet
      BY <1>1 DEF PlSet, AfterAuthorize
    <3> HIDE DEF w, p
    <3>3. /\ t \in CallSet /\ t.att = a /\ t.st = "Releasing" /\ t.pl = p
          /\ t.conf = w.conf /\ t.turn = w.turn /\ t.next = w.next
          /\ t.cand = w.cand /\ t.fin = w.fin /\ t.speech = w.speech /\ t.ending = w.ending
          /\ t.hang = w.hang /\ t.rev = w.rev /\ t.eng = w.eng /\ t.finals = w.finals
          /\ t.open = w.open
      <4>1. w \in CallSet /\ w.att = a /\ w.st = "Releasing"
        BY <2>3
      <4> QED BY <3>2, <4>1 DEF CallSet
    <3> HIDE DEF t
    <3>4. Released(s, t)
      BY <2>2, <2>3, <3>3 DEF Released
    <3>5. CallInv(t) /\ Follows(s, t)
      BY <1>1, <2>4, <3>3, <3>4, ReleasedDoes DEF p
    <3>6. Waits(s, t) /\ Kept(s, t) /\ Moved(s, t) /\ Reactive(s, t)
      BY <3>4 DEF Released, Waits, Kept, Moved, Reactive
    <3> QED BY <3>1, <3>4, <3>5, <3>6 DEF Acted, Good, Step, Released
  <2> QED BY <2>5, <2>6
<1> QED BY <1>2, <1>3

\* schedule_final_response: another grace runs.
LEMMA ScheduleAlike ==
  ASSUME NEW s \in CallSet, NEW turn \in Nat, NEW text \in TextSet \ {""}, NEW waited \in BOOLEAN
  PROVE  LET t == Schedule(s, turn, text, waited)
         IN  t \in CallSet /\ Alike(s, t) /\ t.timer = s.timer
<1> DEFINE g == [turn |-> turn, text |-> text, waited |-> waited]
           gs == s.graces \cup {g}
           t == [s EXCEPT !.grace = g, !.graces = gs]
<1>1. Schedule(s, turn, text, waited) = t
  BY DEF Schedule
<1>2. g \in TimerSet
  BY DEF TimerSet
<1>3. gs \in SUBSET [turn : Nat, text : TextSet \ {""}, waited : BOOLEAN]
  <2>1. s.graces \in SUBSET [turn : Nat, text : TextSet \ {""}, waited : BOOLEAN]
    BY DEF CallSet
  <2>2. g \in [turn : Nat, text : TextSet \ {""}, waited : BOOLEAN]
    OBVIOUS
  <2> HIDE DEF g
  <2> QED BY <2>1, <2>2
<1> HIDE DEF g, gs
<1>4. t \in CallSet /\ Alike(s, t) /\ t.timer = s.timer
  BY <1>2, <1>3 DEF CallSet, Alike
<1> QED BY <1>1, <1>4

\* The call that has stored its final.
Stored(s, r, text) ==
  /\ r \in CallSet /\ r.fin = text /\ r.finals = s.finals \cup {s.turn}
  /\ r.conf = s.conf /\ r.st = s.st /\ r.turn = s.turn /\ r.next = s.next /\ r.att = s.att
  /\ r.cand = s.cand /\ r.speech = s.speech /\ r.ending = s.ending /\ r.hang = s.hang /\ r.rev = s.rev
  /\ r.eng = s.eng /\ r.pl = s.pl /\ r.open = s.open

LEMMA StoredDoes ==
  ASSUME NEW s, CallInv(s), s.st = "AwaitingFinal", NEW r, NEW text \in TextSet, Stored(s, r, text)
  PROVE  CallInv(r) /\ Follows(s, r) /\ ~s.ending /\ ~r.ending /\ ~r.att.auth
<1>1. ~s.att.auth /\ ~s.ending
  BY DEF CallInv, ForFinal, Closing, Responding, Quiet
<1>2. ~r.ending /\ ~r.att.auth
  BY <1>1 DEF Stored
<1>3. CallTypes(r) /\ OnePlayout(r)
  BY DEF CallInv, CallTypes, OnePlayout, Stored
<1>4. ForFinal(r) /\ Kinds(r)
  BY <1>2 DEF CallInv, ForFinal, Kinds, Stored
<1>5. Replies(r)
  BY DEF Replies, Stored, Responding
<1>6. Current(r) /\ Closing(r)
  BY <1>2 DEF CallInv, Current, Closing, Stored
<1>7. Follows(s, r)
  <2>1. s.next \in Nat /\ s.rev \in Nat
    BY DEF CallInv, CallTypes, CallSet
  <2>2. s.next <= r.next /\ s.rev <= r.rev
    BY <2>1 DEF Stored
  <2>3. Onward(s, r)
    BY <2>2 DEF Onward, Stored
  <2>4. SameAttempt(s, r) /\ Undecided(s, r)
    BY DEF SameAttempt, Undecided, Stored
  <2> QED BY <2>3, <2>4 DEF Follows
<1> QED BY <1>1, <1>2, <1>3, <1>4, <1>5, <1>6, <1>7 DEF CallInv

LEMMA FinalTextGood ==
  ASSUME NEW s, CallInv(s), s.conf = c.conf, NEW turn, NEW text \in TextSet
  PROVE  /\ Good(s, FinalText(s, turn, text)) /\ FinalText(s, turn, text).turn = s.turn
         /\ ~s.ending /\ text \notin Echo /\ FinalOk(s, turn) => FinalText(s, turn, text).st # "AwaitingFinal"
<1> DEFINE t == FinalText(s, turn, text)
           fs == s.finals \cup {turn}
           stored == [s EXCEPT !.timer = 0, !.stable = NoTimer, !.fin = text,
                               !.closeAt = FALSE, !.finals = fs]
<1>1. CASE s.ending \/ text \in Echo \/ ~FinalOk(s, turn)
  <2>1. t = s
    BY <1>1 DEF FinalText
  <2> QED BY <1>1, <2>1, SameGood
<1>2. CASE ~(s.ending \/ text \in Echo \/ ~FinalOk(s, turn)) /\ text = ""
  <2>1. t = Unavailable(s, turn)
    BY <1>2 DEF FinalText
  <2>2. turn = s.turn
    BY <1>2 DEF FinalOk
  <2> QED BY <2>1, <2>2, UnavailableGood
<1>3. CASE ~(s.ending \/ text \in Echo \/ ~FinalOk(s, turn)) /\ text # ""
  <2>1. turn = s.turn /\ s.st = "AwaitingFinal" /\ s.fin = "" /\ ~s.ending
    BY <1>3 DEF FinalOk
  <2>2. s \in CallSet /\ NoTimer \in TimerSet /\ turn \in Nat /\ fs \in SUBSET Nat
    <3>1. s \in CallSet /\ NoTimer \in TimerSet
      BY Blank DEF CallInv, CallTypes
    <3>2. s.turn \in Nat /\ s.finals \in SUBSET Nat
      BY <3>1 DEF CallSet
    <3> QED BY <2>1, <3>1, <3>2
  <2>3. Stored(s, stored, text)
    <3>1. fs = s.finals \cup {s.turn}
      BY <2>1
    <3> HIDE DEF fs
    <3>2. /\ stored \in CallSet /\ stored.fin = text /\ stored.finals = fs
          /\ stored.conf = s.conf /\ stored.st = s.st /\ stored.turn = s.turn /\ stored.next = s.next
          /\ stored.att = s.att /\ stored.cand = s.cand /\ stored.speech = s.speech
          /\ stored.ending = s.ending /\ stored.hang = s.hang /\ stored.rev = s.rev
          /\ stored.eng = s.eng /\ stored.pl = s.pl /\ stored.open = s.open
      BY <2>2, ZenonT(60) DEF CallSet
    <3> HIDE DEF stored
    <3> QED BY <3>1, <3>2 DEF Stored
  <2>4. CASE GraceOn
    <3> DEFINE w == Schedule(stored, turn, text, FALSE)
               u == [w EXCEPT !.st = "Releasing"]
    <3>1. t = u
      BY <1>3, <2>4 DEF FinalText
    <3> HIDE DEF stored
    <3>2. CallInv(stored) /\ Follows(s, stored) /\ ~stored.ending /\ ~stored.att.auth /\ stored \in CallSet
      BY <2>1, <2>3, StoredDoes DEF Stored
    <3>3. w \in CallSet /\ Alike(stored, w)
      <4>1. text \in TextSet \ {""} /\ FALSE \in BOOLEAN
        BY <1>3
      <4> QED BY <2>2, <3>2, <4>1, ScheduleAlike, Zenon
    <3> HIDE DEF w
    <3>4. /\ u \in CallSet /\ u.st = "Releasing"
          /\ u.conf = w.conf /\ u.turn = w.turn /\ u.next = w.next /\ u.att = w.att
          /\ u.cand = w.cand /\ u.fin = w.fin /\ u.speech = w.speech /\ u.ending = w.ending
          /\ u.hang = w.hang /\ u.rev = w.rev /\ u.eng = w.eng /\ u.finals = w.finals /\ u.pl = w.pl
          /\ u.open = w.open
      <4>1. w \in CallSet /\ "Releasing" \in Quiet \cup Hearing \cup {"AwaitingFinal"}
        BY <3>3 DEF Quiet
      <4> QED BY <4>1, ZenonT(60) DEF CallSet
    <3> HIDE DEF u
    <3>5. /\ u.conf = s.conf /\ u.turn = s.turn /\ u.next = s.next /\ u.att = s.att
          /\ u.cand = s.cand /\ u.fin = text /\ u.speech = s.speech /\ u.ending = s.ending
          /\ u.hang = s.hang /\ u.rev = s.rev /\ u.eng = s.eng /\ u.finals = s.finals \cup {s.turn}
          /\ u.pl = s.pl /\ u.open = s.open
      BY <2>3, <3>3, <3>4 DEF Alike, Stored
    <3>6. ~u.att.auth /\ ~u.ending /\ "grace" \in u.conf.on
      BY <2>3, <2>4, <3>2, <3>5 DEF Stored, GraceOn
    <3>7. CallTypes(u) /\ OnePlayout(u)
      BY <3>4, <3>5 DEF CallInv, CallTypes, OnePlayout
    <3>8. ForFinal(u) /\ Kinds(u)
      BY <3>4, <3>5, <3>6 DEF CallInv, ForFinal, Kinds
    <3>9. Replies(u) /\ Current(u) /\ Closing(u)
      BY <3>5, <3>6 DEF CallInv, Replies, Current, Closing
    <3>10. Follows(s, u)
      <4>1. s.next \in Nat /\ s.rev \in Nat
        BY <2>2 DEF CallSet
      <4>2. s.next <= u.next /\ s.rev <= u.rev
        BY <3>5, <4>1
      <4>3. Onward(s, u)
        BY <3>5, <4>2 DEF Onward
      <4>4. SameAttempt(s, u) /\ Undecided(s, u)
        BY <3>5 DEF SameAttempt, Undecided
      <4> QED BY <4>3, <4>4 DEF Follows
    <3>11. Waits(s, u) /\ Kept(s, u) /\ Moved(s, u) /\ Reactive(s, u) /\ u.conf = s.conf
      BY <2>1, <3>4, <3>5 DEF Waits, Kept, Moved, Reactive
    <3>12. Good(s, u)
      BY <3>7, <3>8, <3>9, <3>10, <3>11 DEF CallInv, Good, Step
    <3> QED BY <3>1, <3>4, <3>5, <3>12
  <2>5. CASE ~GraceOn
    <3> DEFINE u == RespondToFinal(stored, text)
    <3>1. t = u
      BY <1>3, <2>5 DEF FinalText
    <3> HIDE DEF stored
    <3>2. CallInv(stored) /\ Follows(s, stored) /\ ~stored.ending /\ stored \in CallSet /\ stored.fin = text
          /\ stored.conf = c.conf /\ stored.turn \in stored.finals
      BY <2>1, <2>3, StoredDoes DEF Stored
    <3>3. Acted(stored, u)
      BY <1>3, <3>2, RespondActs
    <3> HIDE DEF u
    <3>4. Good(s, u) /\ u.st # "AwaitingFinal" /\ u.turn = s.turn
      BY <2>1, <2>2, <2>3, <3>2, <3>3, ActedFrom DEF Stored, Acted
    <3> QED BY <3>1, <3>4
  <2> QED BY <2>4, <2>5
<1> QED BY <1>1, <1>2, <1>3

\* A new turn of the caller's, without an attempt.
LEMMA TextGood ==
  ASSUME NEW s, CallInv(s), s.conf = c.conf, NEW text \in Texts
  PROVE  Good(s, Text(s, text))
<1> DEFINE turn == s.turn + 1
           i == Invalidate(s)
           g == Cancel(i)
           r == [g EXCEPT !.timer = 0, !.turn = turn, !.closeAt = FALSE, !.susp = FALSE,
                          !.fin = "", !.part = "", !.cand = FALSE, !.pre = "",
                          !.silent = FALSE, !.st = "AwaitingFinal"]
           t == FinalText(r, turn, text)
<1>1. CASE s.ending
  BY <1>1, SameGood DEF Text
<1>2. CASE ~s.ending
  <2>1. Text(s, text) = t
    BY <1>2 DEF Text
  <2>2. s \in CallSet /\ s.turn \in Nat /\ s.next \in Nat /\ s.rev \in Nat /\ Base(s)
    BY CallBase DEF CallInv, CallTypes, CallSet
  <2>3. turn \in Nat /\ turn # s.turn
    BY <2>2
  <2>4. /\ i \in CallSet /\ i.att = s.att /\ i.conf = s.conf /\ i.turn = s.turn
        /\ i.next = s.next /\ i.fin = s.fin /\ i.ending = s.ending /\ i.speech = s.speech
        /\ i.rev = s.rev + 1 /\ i.eng = NoTask /\ i.finals = s.finals /\ i.pl = s.pl /\ i.open = s.open
    BY <2>2, InvalidateDoes
  <2> HIDE DEF i
  <2>5. Base(i)
    <3>1. Current(i)
      BY <2>4 DEF Current
    <3> QED BY <2>2, <2>4, <3>1, BaseFrom
  <2>6. /\ g \in CallSet /\ g.att = NoAtt /\ g.conf = i.conf
        /\ g.next = i.next /\ g.ending = i.ending /\ g.speech = i.speech
        /\ g.rev = i.rev /\ g.eng = i.eng /\ g.finals = i.finals /\ g.open = i.open
    BY <2>4, CancelDoes
  <2>7. Base(g)
    BY <2>5, CancelBase
  <2> HIDE DEF g, turn
  <2>8. /\ r \in CallSet /\ r.st = "AwaitingFinal" /\ r.turn = turn /\ r.fin = "" /\ ~r.cand
        /\ r.att = g.att /\ r.conf = g.conf /\ r.next = g.next /\ r.ending = g.ending /\ r.speech = g.speech
        /\ r.rev = g.rev /\ r.eng = g.eng /\ r.finals = g.finals /\ r.open = g.open /\ r.pl = g.pl
    <3> DEFINE e == ""
    <3>1. g \in CallSet /\ e \in TextSet /\ turn \in Nat
      BY <2>3, <2>6, Blank
    <3>2. r = [g EXCEPT !.timer = 0, !.turn = turn, !.closeAt = FALSE, !.susp = FALSE,
                        !.fin = e, !.part = e, !.cand = FALSE, !.pre = e,
                        !.silent = FALSE, !.st = "AwaitingFinal"]
      OBVIOUS
    <3> HIDE DEF e, r
    <3>0. r \in CallSet
      <4> DEFINE q == [g EXCEPT !.timer = 0, !.turn = turn, !.closeAt = FALSE, !.susp = FALSE, !.fin = e]
      <4>1. r = [q EXCEPT !.part = e, !.cand = FALSE, !.pre = e, !.silent = FALSE, !.st = "AwaitingFinal"]
        BY <3>2
      <4>2. q \in CallSet
        BY <3>1, ZenonT(60) DEF CallSet
      <4>3. e \in TextSet
        BY <3>1
      <4> HIDE DEF q
      <4> QED BY <4>1, <4>2, <4>3, ZenonT(60) DEF CallSet
    <3>3. /\ r.st = "AwaitingFinal" /\ r.turn = turn /\ r.fin = e /\ ~r.cand
          /\ r.att = g.att /\ r.conf = g.conf /\ r.next = g.next /\ r.ending = g.ending /\ r.speech = g.speech
          /\ r.rev = g.rev /\ r.eng = g.eng /\ r.finals = g.finals /\ r.open = g.open /\ r.pl = g.pl
      BY <3>1, <3>2 DEF CallSet
    <3> QED BY <3>0, <3>3 DEF e
  <2> HIDE DEF r
  <2>9. Base(r)
    <3>1. CallTypes(r)
      BY <2>7, <2>8 DEF Base, CallTypes
    <3>2. Current(r)
      BY <2>4, <2>6, <2>8 DEF Current
    <3> QED BY <2>7, <2>8, <3>1, <3>2 DEF Base
  <2>10. r.att = NoAtt /\ r.att.id = 0 /\ r.conf = s.conf /\ r.next = s.next /\ ~r.ending /\ r.speech = s.speech
         /\ r.rev = s.rev + 1 /\ r.open = s.open
    BY <1>2, <2>4, <2>6, <2>8, Blank
  <2>11. CallInv(r)
    BY <2>8, <2>9, <2>10, FreeInv DEF Responding
  <2>12. text \in TextSet /\ text # ""
    <3>1. c.conf \in Configs
      BY TextsOf
    <3> QED BY <3>1, CoordinatorAssumption DEF Texts, TextSet
  <2>13. Good(r, t) /\ t.turn = r.turn /\ (text \notin Echo => t.st # "AwaitingFinal")
    <3>1. FinalOk(r, turn)
      BY <2>8 DEF FinalOk
    <3> QED BY <2>10, <2>11, <2>12, <3>1, FinalTextGood
  <2> HIDE DEF t
  <2>14. CallInv(t) /\ t \in CallSet /\ t.conf = r.conf /\ Moved(r, t) /\ Follows(r, t) /\ Reactive(r, t)
    BY <2>13 DEF Good, Step, CallInv, CallTypes
  <2>15. Follows(s, t)
    <3>1. t.rev \in Nat /\ t.next \in Nat /\ r.rev <= t.rev /\ r.next <= t.next
      BY <2>14 DEF CallSet, Follows, Onward
    <3>2. s.next <= t.next /\ s.rev <= t.rev /\ t.rev # s.rev
      BY <2>2, <2>10, <3>1
    <3>4. t.conf = s.conf
      BY <2>10, <2>14
    <3>3. t.att.id = 0 \/ t.att.id > s.next
      BY <2>10, <2>14 DEF Follows, SameAttempt
    <3> QED BY <3>2, <3>3, <3>4 DEF Follows, Onward
  <2>16. Moved(s, t) /\ Reactive(s, t)
    BY <1>2, <2>10, <2>14 DEF Moved, Reactive
  <2>17. Waits(s, t)
    <3>1. text \in Echo => t.conf.texts \cap Echo # {}
      BY <2>10, <2>14 DEF Texts
    <3> QED BY <2>13, <3>1 DEF Waits
  <2>18. Kept(s, t) /\ t.conf = s.conf
    BY <1>2, <2>3, <2>8, <2>10, <2>13, <2>14 DEF Kept
  <2> QED BY <2>1, <2>14, <2>15, <2>16, <2>17, <2>18 DEF Good, Step
<1> QED BY <1>1, <1>2

LEMMA GraceGood ==
  ASSUME NEW s, CallInv(s), s.conf = c.conf, NEW e, e.turn \in Nat, e.text \in TextSet \ {""}, e.waited \in BOOLEAN
  PROVE  Good(s, FinalAfterGrace(s, e))
<1> DEFINE r == [s EXCEPT !.grace = NoTimer]
           t == FinalAfterGrace(s, e)
           late == e.turn # s.turn \/ s.st # "Releasing" \/ s.fin # e.text \/ s.ending
<1>1. s \in CallSet /\ NoTimer \in TimerSet
  BY Blank DEF CallInv, CallTypes
<1>2. r \in CallSet /\ Alike(s, r) /\ r.timer = s.timer
  BY <1>1 DEF CallSet, Alike
<1>3. CASE late
  <2>1. t = r
    BY <1>3 DEF FinalAfterGrace
  <2> QED BY <1>2, <2>1, AlikeGood
<1>4. CASE ~late /\ s.cand /\ ~e.waited
  <2> DEFINE u == Schedule(r, e.turn, e.text, TRUE)
  <2>1. t = u
    BY <1>4 DEF FinalAfterGrace
  <2> HIDE DEF r
  <2>2. u \in CallSet /\ Alike(r, u) /\ u.timer = r.timer
    <3>1. TRUE \in BOOLEAN
      OBVIOUS
    <3> QED BY <1>2, <3>1, ScheduleAlike, Zenon
  <2> HIDE DEF u
  <2>3. Alike(s, u) /\ u.timer = s.timer
    BY <1>2, <2>2 DEF Alike
  <2> QED BY <2>1, <2>2, <2>3, AlikeGood
<1>5. CASE ~late /\ ~(s.cand /\ ~e.waited)
  <2> DEFINE u == RespondToFinal(r, e.text)
  <2>1. t = u
    BY <1>5 DEF FinalAfterGrace
  <2> HIDE DEF r
  <2>2. s.fin = e.text /\ ~s.ending /\ s.fin # ""
    BY <1>5
  <2>3. s.turn \in s.finals
    BY <2>2 DEF CallInv, Replies
  <2>4. CallInv(r) /\ r.conf = c.conf /\ ~r.ending /\ r.turn \in r.finals /\ e.text = r.fin
    BY <1>2, <2>2, <2>3, AlikeInv DEF Alike
  <2>5. Good(r, u)
    BY <2>4, RespondActs DEF Acted
  <2>6. Good(s, u)
    BY <1>1, <1>2, <2>5, AlikeThen
  <2> QED BY <2>1, <2>6
<1> QED BY <1>3, <1>4, <1>5

-----------------------------------------------------------------------------
(* A tool call arrives                                                      *)

\* The attempt has called a tool, and plays on or is stopped.
Called(s, r) ==
  /\ r \in CallSet /\ r.conf = s.conf /\ r.st = s.st /\ r.turn = s.turn /\ r.next = s.next
  /\ r.cand = s.cand /\ r.fin = s.fin /\ r.speech = s.speech /\ r.ending = s.ending
  /\ r.hang = s.hang /\ r.rev = s.rev /\ r.eng = s.eng /\ r.finals = s.finals
  /\ r.open = s.open /\ r.timer = s.timer
  /\ r.pl = s.pl \/ r.pl = AfterCancel(s.pl, s.att.id)
  /\ r.att.id = s.att.id /\ r.att.hyp = s.att.hyp /\ r.att.auth = s.att.auth
  /\ r.att.tool # "none" /\ r.att.tool \in s.conf.tools /\ r.att.task # "run"
  /\ r.att.direct = s.att.direct /\ r.att.owner = s.att.owner
  /\ r.att.kind = s.att.kind /\ r.att.endReq = s.att.endReq /\ r.att.spec = s.att.spec
  /\ r.att.endOffered = s.att.endOffered

LEMMA CalledDoes ==
  ASSUME NEW s, CallInv(s), s.att.id # 0, s.att.direct = "no", NEW r, Called(s, r)
  PROVE  CallInv(r) /\ Onward(s, r) /\ SameAttempt(s, r)
<1>1. s \in CallSet /\ s.next \in Nat /\ s.rev \in Nat /\ s.pl \in PlSet
  BY DEF CallInv, CallTypes, CallSet
<1>2. /\ r.pl.highest = s.pl.highest /\ r.pl.enabled = s.pl.enabled
      /\ r.pl.id = 0 \/ (r.pl.id = s.pl.id /\ r.pl.ended = s.pl.ended /\ r.pl.authorized = s.pl.authorized)
  BY <1>1 DEF PlSet, AfterCancel, Cleared, NoAttempt, Called
<1>3. CallTypes(r)
  BY <1>2 DEF CallInv, CallTypes, Called
<1>4. OnePlayout(r)
  BY <1>2 DEF CallInv, OnePlayout, Called
<1>5. ForFinal(r) /\ Kinds(r)
  BY DEF CallInv, ForFinal, Kinds, Called
<1>6. Replies(r) /\ Current(r) /\ Closing(r)
  BY DEF CallInv, Replies, Current, Closing, Called
<1>7. Onward(s, r)
  <2>1. s.next <= r.next /\ s.rev <= r.rev
    BY <1>1 DEF Called
  <2> QED BY <2>1 DEF Onward, Called
<1>8. SameAttempt(s, r)
  BY <1>2 DEF SameAttempt, Called
<1> QED BY <1>3, <1>4, <1>5, <1>6, <1>7, <1>8 DEF CallInv

\* A method that settles what an event of the attempt decides.
Settled(s, t) ==
  /\ Step(s, t) /\ Reactive(s, t) /\ Onward(s, t)
  /\ t.att.id = 0 \/ t.att.id > s.next \/ SameAttempt(s, t)

LEMMA GoodSettles == \A s, t : Good(s, t) => Settled(s, t)
  BY DEF Good, Follows, Settled

LEMMA CalledSettles ==
  ASSUME NEW s, CallInv(s), s.conf = c.conf, s.att.id # 0, s.att.direct = "no", NEW r, Called(s, r)
  PROVE  Settled(s, ApplyTool(r))
<1> DEFINE t == ApplyTool(r)
<1>1. CallInv(r) /\ Onward(s, r) /\ SameAttempt(s, r)
  BY CalledDoes
<1>2. CASE ~r.att.auth
  <2>1. t = r
    BY <1>2 DEF ApplyTool
  <2>2. Waits(s, r) /\ Moved(s, r) /\ Kept(s, r) /\ Reactive(s, r) /\ r.conf = s.conf
    BY DEF Waits, Moved, Kept, Reactive, Called
  <2> QED BY <1>1, <2>1, <2>2 DEF Settled, Step
<1>3. CASE r.att.auth
  <2>1. r.conf = c.conf /\ r.att.tool # "none"
    BY DEF Called
  <2>2. Acted(r, t) /\ Calling(r)
    BY <1>1, <1>3, <2>1, ToolActs, AuthorizedCalls
  <2> HIDE DEF t
  <2>3. /\ CallInv(t) /\ t \in CallSet /\ Follows(r, t) /\ t.conf = r.conf /\ Moved(r, t) /\ Reactive(r, t)
        /\ t.st # "AwaitingFinal" /\ t.fin = r.fin /\ t.turn = r.turn /\ t.finals = r.finals
    BY <2>2 DEF Acted, Good, Step, CallInv, CallTypes
  <2>4. r.ending = s.ending /\ Kept(r, t)
    BY <2>2 DEF Called, Acted, Good, Step
  <2>5. Moved(s, t)
    BY <2>3, <2>4 DEF Moved, Called
  <2>6. Waits(s, t) /\ Kept(s, t) /\ Reactive(s, t) /\ t.conf = s.conf
    BY <2>3, <2>4 DEF Waits, Kept, Reactive, Called
  <2>7. Onward(s, t)
    <3>1. /\ s.next \in Nat /\ t.next \in Nat /\ s.rev \in Nat /\ t.rev \in Nat
      BY <2>3 DEF CallInv, CallTypes, CallSet
    <3>2. r.next = s.next /\ r.rev = s.rev /\ r.turn = s.turn /\ (r.cand => s.cand) /\ r.conf = s.conf
      BY DEF Called
    <3> QED BY <2>3, <3>1, <3>2 DEF Follows, Onward
  <2>8. t.att.id = 0 \/ t.att.id > s.next \/ SameAttempt(s, t)
    <3>1. ASSUME SameAttempt(r, t) PROVE SameAttempt(s, t)
      BY <1>1, <3>1 DEF SameAttempt
    <3>2. r.next = s.next
      BY DEF Called
    <3> QED BY <2>3, <3>1, <3>2 DEF Follows
  <2>9. Step(s, t)
    BY <2>3, <2>5, <2>6 DEF Step
  <2> QED BY <2>6, <2>7, <2>8, <2>9 DEF Settled, t
<1> QED BY <1>2, <1>3

LEMMA ToolSettles ==
  ASSUME NEW s, CallInv(s), s.conf = c.conf, NEW e \in EventSet, e.type = "tool", EventInv(s, e)
  PROVE  /\ Settled(s, Tool(s, e.id, e.tool))
         /\ Good(s, Tool(s, e.id, e.tool)) \/ (Decisive(e, s.att.id) /\ s.att.direct = "no")
<1> DEFINE t == Tool(s, e.id, e.tool)
<1>1. e.id \in Nat \ {0} /\ e.tool \in {"end", "off", "open", "say", "bad"}
  BY DEF EventSet
<1>2. CASE s.att.id # e.id
  <2>1. t = s
    BY <1>2 DEF Tool
  <2> QED BY <2>1, SameGood, GoodSettles
<1>3. CASE s.att.id = e.id
  <2>1. /\ Decisive(e, s.att.id) /\ s.att.direct = "no" /\ s.att.task # "run" /\ s.att.id # 0
        /\ e.tool \in s.conf.tools
    BY <1>1, <1>3 DEF EventInv, Decisive, Unreached
  <2>2. s \in CallSet /\ s.att \in AttSet /\ s.pl \in PlSet
    BY DEF CallInv, CallTypes, CallSet
  <2>3. CASE e.tool = "end" /\ EndCallOn /\ s.speech /\ s.att.auth
    <3> DEFINE a == [s.att EXCEPT !.tool = e.tool]
               r == [s EXCEPT !.att = a]
    <3>1. t = ApplyTool(r)
      BY <1>3, <2>3 DEF Tool
    <3>2. /\ a \in AttSet /\ a.tool = e.tool /\ a.auth = s.att.auth /\ a.id = s.att.id /\ a.hyp = s.att.hyp
          /\ a.task = s.att.task /\ a.direct = s.att.direct /\ a.owner = s.att.owner
          /\ a.kind = s.att.kind /\ a.endReq = s.att.endReq /\ a.spec = s.att.spec /\ a.endOffered = s.att.endOffered
      BY <1>1, <2>2 DEF AttSet
    <3> HIDE DEF a
    <3>3. r \in CallSet /\ ButAtt(s, r) /\ r.att = a
      BY <2>2, <3>2, WithAtt
    <3> HIDE DEF r
    <3>4. a.tool # "none" /\ a.tool \in s.conf.tools /\ a.task # "run"
      BY <1>1, <2>1, <3>2
    <3>5. Called(s, r)
      BY <3>2, <3>3, <3>4 DEF Called, ButAtt
    <3> QED BY <2>1, <3>1, <3>5, CalledSettles
  <2>4. CASE ~(e.tool = "end" /\ EndCallOn /\ s.speech /\ s.att.auth)
    <3> DEFINE a == [s.att EXCEPT !.tool = e.tool, !.task = "none", !.answer = FALSE]
               p == AfterCancel(s.pl, s.att.id)
               r == [s EXCEPT !.att = a, !.pl = p]
    <3>1. t = ApplyTool(r)
      BY <1>3, <2>4 DEF Tool
    <3>2. /\ a \in AttSet /\ a.tool = e.tool /\ a.auth = s.att.auth /\ a.id = s.att.id /\ a.hyp = s.att.hyp
          /\ a.task = "none" /\ a.direct = s.att.direct /\ a.owner = s.att.owner
          /\ a.kind = s.att.kind /\ a.endReq = s.att.endReq /\ a.spec = s.att.spec /\ a.endOffered = s.att.endOffered
      BY <1>1, <2>2, ZenonT(60) DEF AttSet
    <3>3. p \in PlSet
      BY <2>2 DEF PlSet, AfterCancel, Cleared, NoAttempt
    <3> HIDE DEF a, p
    <3>4. /\ r \in CallSet /\ r.att = a /\ r.pl = p
          /\ r.conf = s.conf /\ r.st = s.st /\ r.turn = s.turn /\ r.next = s.next
          /\ r.cand = s.cand /\ r.fin = s.fin /\ r.speech = s.speech /\ r.ending = s.ending
          /\ r.hang = s.hang /\ r.rev = s.rev /\ r.eng = s.eng /\ r.finals = s.finals
          /\ r.open = s.open /\ r.timer = s.timer
      <4>1. s \in CallSet /\ a \in AttSet /\ p \in PlSet
        BY <2>2, <3>2, <3>3
      <4> QED BY <4>1 DEF CallSet
    <3> HIDE DEF r
    <3>5. a.tool # "none" /\ a.tool \in s.conf.tools /\ a.task # "run"
      BY <1>1, <2>1, <3>2
    <3>6. Called(s, r)
      BY <3>2, <3>4, <3>5 DEF Called, p
    <3> QED BY <2>1, <3>1, <3>6, CalledSettles
  <2> QED BY <2>3, <2>4
<1> QED BY <1>2, <1>3

-----------------------------------------------------------------------------
(* Proactive speech                                                         *)

\* An idle call that is closed, or will be after a while.
LEMMA ProactiveDoes ==
  ASSUME NEW s, CallInv(s), NEW kind \in {"none", "idle", "close"}
  PROVE  Good(s, AfterProactive(s, kind))
<1> DEFINE t == AfterProactive(s, kind)
<1>1. s \in CallSet
  BY DEF CallInv, CallTypes
<1>2. CASE t = s
  BY <1>2, SameGood
<1>3. CASE t = [s EXCEPT !.closeAt = TRUE]
  <2> HIDE DEF t
  <2>1. t \in CallSet /\ Alike(s, t) /\ t.timer = s.timer
    BY <1>1, <1>3, ZenonT(60) DEF CallSet, Alike
  <2>2. Good(s, t)
    BY <2>1, AlikeGood
  <2> QED BY <2>2 DEF t
<1>4. CASE IdleSafe(s) /\ t = [Invalidate(s) EXCEPT !.ending = TRUE, !.closeAt = FALSE, !.hang = "absent"]
  <2> DEFINE i == Invalidate(s)
  <2>1. s.att.id = 0 /\ s.st = "Idle" /\ ~s.ending
    BY <1>4 DEF IdleSafe
  <2>2. /\ i \in CallSet /\ i.att = s.att /\ i.conf = s.conf /\ i.turn = s.turn /\ i.st = s.st
        /\ i.next = s.next /\ i.fin = s.fin /\ i.speech = s.speech /\ i.cand = s.cand
        /\ i.rev = s.rev + 1 /\ i.eng = NoTask /\ i.finals = s.finals /\ i.pl = s.pl /\ i.open = s.open
    BY <1>1, InvalidateDoes
  <2>3. t = [i EXCEPT !.ending = TRUE, !.closeAt = FALSE, !.hang = "absent"]
    BY <1>4
  <2> HIDE DEF t, i
  <2>4. /\ t \in CallSet /\ t.hang = "absent" /\ t.att = i.att /\ t.conf = i.conf /\ t.turn = i.turn /\ t.st = i.st
        /\ t.next = i.next /\ t.fin = i.fin /\ t.speech = i.speech /\ t.cand = i.cand
        /\ t.rev = i.rev /\ t.eng = i.eng /\ t.finals = i.finals /\ t.pl = i.pl /\ t.open = i.open
    <3>1. i \in CallSet
      BY <2>2
    <3> QED BY <2>3, <3>1, ZenonT(60) DEF CallSet
  <2>5. Base(t)
    <3>1. Current(t)
      BY <2>2, <2>4 DEF Current
    <3>2. t.pl = s.pl /\ t.next = s.next /\ t.att = s.att /\ t.fin = s.fin /\ t.turn = s.turn /\ t.finals = s.finals
      BY <2>2, <2>4
    <3> QED BY <2>4, <3>1, <3>2, BaseFrom, CallBase
  <2>6. Onward(s, t)
    <3>1. s.next \in Nat /\ s.rev \in Nat
      BY <1>1 DEF CallSet
    <3>2. t.next = s.next /\ t.rev = s.rev + 1 /\ t.conf = s.conf
      BY <2>2, <2>4
    <3>3. s.next <= t.next /\ s.rev <= t.rev /\ t.rev # s.rev /\ t.conf = s.conf
      BY <3>1, <3>2
    <3> QED BY <3>3 DEF Onward
  <2>7. t.st = "Idle" /\ t.st \in Quiet /\ t.st \notin Responding /\ Waits(s, t)
    BY <2>1, <2>2, <2>4 DEF Quiet, Responding, Waits
  <2>8. Good(s, t)
    BY <2>1, <2>2, <2>4, <2>5, <2>6, <2>7, FreeGood
  <2> QED BY <2>8 DEF t
<1>5. \/ t = s \/ t = [s EXCEPT !.closeAt = TRUE]
      \/ IdleSafe(s) /\ t = [Invalidate(s) EXCEPT !.ending = TRUE, !.closeAt = FALSE, !.hang = "absent"]
  BY DEF AfterProactive, ScheduleIdleClose, EndIdleCall
<1> QED BY <1>2, <1>3, <1>4, <1>5

\* Two methods that leave the attempt alone or drop it.
LEMMA IdleThen ==
  ASSUME NEW s, CallInv(s), NEW r, Good(s, r), r.att.id = 0, r.next = s.next, r.turn = s.turn, r.fin = s.fin,
         r.finals = s.finals, r.speech = s.speech, r.ending = s.ending, r.st # "AwaitingFinal", NEW t, Good(r, t)
  PROVE  Good(s, t)
<1>1. s \in CallSet /\ r \in CallSet /\ t \in CallSet /\ CallInv(t)
  BY DEF CallInv, CallTypes, Good, Step
<1>2. Follows(s, t)
  BY <1>1, FollowsOn DEF Good
<1>3. Waits(s, t) /\ t.conf = s.conf
  BY DEF Good, Step, Waits
<1>4. Moved(s, t) /\ Kept(s, t)
  BY DEF Good, Step, Moved, Kept
<1>5. Reactive(s, t)
  BY DEF Good, Reactive
<1> QED BY <1>1, <1>2, <1>3, <1>4, <1>5 DEF Good, Step

-----------------------------------------------------------------------------
(* The generation is done                                                   *)

\* cancel and a new state.
LEMMA StopDoes ==
  ASSUME NEW s, CallInv(s), NEW st \in Quiet \cup Hearing \cup {"AwaitingFinal"}
  PROVE  LET t == [Cancel(s) EXCEPT !.st = st]
         IN  Dropped(s, t) /\ t.st = st /\ t.ending = s.ending /\ t.hang = s.hang /\ t.timer = s.timer
<1> DEFINE g == Cancel(s)
           t == [g EXCEPT !.st = st]
<1>1. s \in CallSet
  BY DEF CallInv, CallTypes
<1>2. /\ g \in CallSet /\ g.att = NoAtt /\ g.pl = AfterCancel(s.pl, s.att.id)
      /\ g.conf = s.conf /\ g.turn = s.turn /\ g.next = s.next /\ g.fin = s.fin /\ g.finals = s.finals
      /\ g.speech = s.speech /\ g.rev = s.rev /\ g.eng = s.eng /\ g.open = s.open /\ g.cand = s.cand
      /\ g.ending = s.ending /\ g.hang = s.hang /\ g.timer = s.timer
  BY <1>1, CancelDoes
<1> HIDE DEF g
<1>3. /\ t \in CallSet /\ t.st = st /\ t.att = g.att /\ t.pl = g.pl
      /\ t.conf = g.conf /\ t.turn = g.turn /\ t.next = g.next /\ t.fin = g.fin /\ t.finals = g.finals
      /\ t.speech = g.speech /\ t.rev = g.rev /\ t.eng = g.eng /\ t.open = g.open /\ t.cand = g.cand
      /\ t.ending = g.ending /\ t.hang = g.hang /\ t.timer = g.timer
  <2>1. g \in CallSet
    BY <1>2
  <2> QED BY <2>1, ZenonT(60) DEF CallSet
<1> HIDE DEF t
<1>4. Dropped(s, t) /\ t.st = st /\ t.ending = s.ending /\ t.hang = s.hang /\ t.timer = s.timer
  BY <1>2, <1>3 DEF Dropped
<1> QED BY <1>4 DEF t, g

LEMMA DoneErrGood ==
  ASSUME NEW s, CallInv(s), s.conf = c.conf, NEW e, EventInv(s, e), e.type = "done", e.id = s.att.id,
         s.att.id # 0
  PROVE  Good(s, DoneErr(s, e.res))
<1> DEFINE stopped == [Cancel(s) EXCEPT !.st = "Idle"]
           t == DoneErr(s, e.res)
<1>1. "Idle" \in Quiet \cup Hearing \cup {"AwaitingFinal"} /\ "Idle" \in Quiet /\ "Idle" \notin Responding
  BY DEF Quiet, Responding
<1>2. Dropped(s, stopped) /\ stopped.st = "Idle" /\ stopped.ending = s.ending /\ stopped.hang = s.hang
  BY <1>1, StopDoes
<1>3. ASSUME s.att.kind # "none" \/ s.att.direct = "facts"
      PROVE  Good(s, stopped)
  <2> HIDE DEF stopped
  <2>1. s.att.endReq => "localized" \in s.conf.on
    BY <1>3 DEF CallInv, Kinds
  <2> QED BY <1>1, <1>2, <2>1, DroppedGood
<1>4. CASE s.att.kind # "none" /\ s.att.rev = s.rev
  <2>1. t = AfterProactive(stopped, s.att.kind)
    BY <1>4 DEF DoneErr
  <2> HIDE DEF stopped
  <2>2. s.att.kind \in {"none", "idle", "close"}
    BY DEF CallInv, CallTypes, CallSet, AttSet
  <2>3. Good(s, stopped) /\ CallInv(stopped)
    BY <1>3, <1>4 DEF Good, Step
  <2>4. stopped.att.id = 0 /\ stopped.next = s.next /\ stopped.turn = s.turn /\ stopped.fin = s.fin
        /\ stopped.finals = s.finals /\ stopped.speech = s.speech
    BY <1>2, Blank DEF Dropped
  <2>5. Good(stopped, t)
    BY <2>1, <2>2, <2>3, ProactiveDoes
  <2> HIDE DEF t
  <2>6. Good(s, t)
    BY <1>2, <2>3, <2>4, <2>5, IdleThen
  <2> QED BY <2>6 DEF t
<1>5. CASE (s.att.kind # "none" /\ s.att.rev # s.rev) \/ (s.att.kind = "none" /\ s.att.direct = "facts")
  <2>1. t = stopped
    BY <1>5 DEF DoneErr
  <2> QED BY <1>3, <1>5, <2>1
<1>6. CASE s.att.kind = "none" /\ s.att.direct # "facts" /\ ~s.att.auth
  <2> DEFINE st == IF s.st = "Speculating" THEN "Speaking" ELSE s.st
             u == [Cancel(s) EXCEPT !.st = st]
  <2>1. t = u
    BY <1>6 DEF DoneErr
  <2>2. s.st \in Quiet \cup Hearing \cup {"AwaitingFinal"}
    BY DEF CallInv, CallTypes, CallSet
  <2>3. st \in Quiet \cup Hearing \cup {"AwaitingFinal"} /\ (st \in Responding => s.st = st)
        /\ (s.st \in Quiet => st \in Quiet) /\ (st = "AwaitingFinal" => s.st = st)
    BY <2>2 DEF Quiet, Hearing, Responding
  <2> HIDE DEF st
  <2>4. Dropped(s, u) /\ u.st = st /\ u.ending = s.ending /\ u.hang = s.hang /\ u.timer = s.timer
    BY <2>3, StopDoes
  <2> HIDE DEF u
  <2>5. ~s.att.endReq /\ (s.ending => s.st \in Quiet)
    BY <1>6 DEF CallInv, Kinds, Closing
  <2>6. CASE st # "AwaitingFinal"
    BY <1>6, <2>1, <2>3, <2>4, <2>5, <2>6, DroppedGood
  <2>7. CASE st = "AwaitingFinal"
    <3>1. ~s.ending
      BY <2>3, <2>5, <2>7 DEF Quiet
    <3>2. Base(u) /\ u.att.id = 0 /\ Onward(s, u)
      BY <2>4, DroppedDoes
    <3>3. u.conf = s.conf /\ u.next = s.next /\ u.speech = s.speech /\ u.turn = s.turn /\ u.fin = s.fin
      BY <2>4 DEF Dropped
    <3>4. Waits(s, u) /\ u.st \notin Responding
      BY <2>3, <2>4, <2>7, <3>3 DEF Waits, Responding
    <3> QED BY <2>1, <2>4, <3>1, <3>2, <3>3, <3>4, FreeGood
  <2> QED BY <2>6, <2>7
<1>7. CASE s.att.kind = "none" /\ s.att.direct # "facts" /\ s.att.auth /\ ~(s.att.direct = "no" /\ s.speech /\ e.res = "llm")
  <2>1. t = Fail(s)
    BY <1>7 DEF DoneErr
  <2> QED BY <2>1, FailGood
<1>8. CASE s.att.kind = "none" /\ s.att.auth /\ s.att.direct = "no" /\ s.speech /\ e.res = "llm"
  <2> DEFINE r == Cancel(s)
  <2>1. t = Begin(r, s.fin, TRUE, Facts)
    BY <1>8 DEF DoneErr
  <2>2. s \in CallSet /\ s.fin \in TextSet /\ Base(r) /\ s.next \in Nat /\ s.rev \in Nat
    BY CallBase, CancelBase, TextsOf DEF CallInv, CallTypes, CallSet
  <2>3. /\ r.conf = s.conf /\ r.turn = s.turn /\ r.next = s.next /\ r.cand = s.cand /\ r.fin = s.fin
        /\ r.speech = s.speech /\ r.ending = s.ending /\ r.hang = s.hang /\ r.rev = s.rev
        /\ r.finals = s.finals /\ r.open = s.open
    BY <2>2, CancelDoes
  <2> HIDE DEF r
  <2>4. Onward(s, r) /\ Moved(s, r) /\ Kept(s, r)
    <3>1. s.next <= r.next /\ s.rev <= r.rev
      BY <2>2, <2>3
    <3> QED BY <2>3, <3>1 DEF Onward, Moved, Kept
  <2>5. Unreached(e, s.att.id)
    BY <1>8 DEF Unreached
  <2>6. ~s.att.endReq
    BY <1>8, <2>5 DEF EventInv
  <2>7. s.turn \in s.finals
    BY <1>8 DEF CallInv, ForFinal
  <2>8. r.ending => (r.open => r.hang # "no" \/ Forgets(r))
    BY <2>3, <2>6 DEF CallInv, Closing, Forgets
  <2>9. Facts \in {"no", "facts", "verbatim"} /\ Facts # "no"
    BY FactsIs
  <2>10. Good(s, Begin(r, s.fin, TRUE, Facts))
    BY <2>2, <2>3, <2>4, <2>7, <2>8, <2>9, ReplyGood
  <2> QED BY <2>1, <2>10
<1> QED BY <1>4, <1>5, <1>6, <1>7, <1>8

LEMMA DoneOkGood ==
  ASSUME NEW s, CallInv(s), s.conf = c.conf, NEW e, EventInv(s, e), e.type = "done", e.res = "ok", e.id = s.att.id,
         s.att.id # 0
  PROVE  Good(s, DoneOk(s))
<1> DEFINE t == DoneOk(s)
           empty == s.att.direct = "no" /\ ~s.att.answer
           over == [s EXCEPT !.att = NoAtt, !.st = "Idle"]
<1>1. s.att.auth /\ (s.pl.id = s.att.id => s.pl.ended)
  BY DEF EventInv
<1>2. s \in CallSet /\ s.fin \in TextSet /\ Base(s) /\ CallTypes(s) /\ s.next \in Nat /\ s.rev \in Nat
      /\ s.att.kind \in {"none", "idle", "close"}
  BY CallBase, TextsOf DEF CallInv, CallTypes, CallSet, AttSet
<1>3. CASE FallbackOn /\ s.speech /\ empty
  <2> DEFINE r == Cancel(s)
  <2>1. t = Begin(r, s.fin, TRUE, "verbatim")
    BY <1>3 DEF DoneOk
  <2>2. Base(r)
    BY <1>2, CancelBase
  <2>3. /\ r.conf = s.conf /\ r.turn = s.turn /\ r.next = s.next /\ r.cand = s.cand /\ r.fin = s.fin
        /\ r.speech = s.speech /\ r.ending = s.ending /\ r.hang = s.hang /\ r.rev = s.rev
        /\ r.finals = s.finals /\ r.open = s.open
    BY <1>2, CancelDoes
  <2> HIDE DEF r
  <2>4. Onward(s, r) /\ Moved(s, r) /\ Kept(s, r)
    <3>1. s.next <= r.next /\ s.rev <= r.rev
      BY <1>2, <2>3
    <3> QED BY <2>3, <3>1 DEF Onward, Moved, Kept
  <2>5. s.turn \in s.finals
    BY <1>1, <1>3 DEF CallInv, ForFinal
  <2>6. Forgets(r)
    BY <1>3, <2>3 DEF FallbackOn, Forgets
  <2>7. "verbatim" \in {"no", "facts", "verbatim"}
    OBVIOUS
  <2>8. Good(s, Begin(r, s.fin, TRUE, "verbatim"))
    BY <1>2, <2>2, <2>3, <2>4, <2>5, <2>6, <2>7, ReplyGood
  <2> QED BY <2>1, <2>8
<1>4. CASE ~(FallbackOn /\ s.speech /\ empty) /\ s.att.endReq /\ empty
  <2> DEFINE u == [Begin(s, s.fin, TRUE, "verbatim") EXCEPT !.att.endReq = TRUE]
  <2>1. t = u
    BY <1>4 DEF DoneOk
  <2>2. s.turn \in s.finals \cup {0}
    BY <1>1, <1>4 DEF CallInv, ForFinal
  <2>3. Onward(s, s) /\ Moved(s, s) /\ Kept(s, s)
    BY <1>2 DEF Onward, Moved, Kept
  <2>4. "verbatim" \in {"facts", "verbatim"}
    OBVIOUS
  <2>5. Good(s, u)
    BY <1>2, <2>2, <2>3, <2>4, FarewellGood
  <2> QED BY <2>1, <2>5
<1>5. /\ over \in CallSet /\ over.st = "Idle" /\ over.att = NoAtt /\ over.pl = s.pl
      /\ over.conf = s.conf /\ over.turn = s.turn /\ over.next = s.next /\ over.fin = s.fin
      /\ over.finals = s.finals /\ over.speech = s.speech /\ over.rev = s.rev /\ over.eng = s.eng
      /\ over.open = s.open /\ over.cand = s.cand /\ over.ending = s.ending /\ over.hang = s.hang
  <2>1. s \in CallSet /\ NoAtt \in AttSet
    BY <1>2, Blank
  <2>2. "Idle" \in Quiet \cup Hearing \cup {"AwaitingFinal"}
    BY DEF Quiet
  <2> QED BY <2>1, <2>2, ZenonT(60) DEF CallSet
<1> HIDE DEF over
<1>6. over.att.id = 0 /\ Base(over) /\ Onward(s, over)
  <2>1. over.att.id = 0
    BY <1>5, Blank
  <2>2. CallTypes(over)
    BY <1>2, <1>5, <2>1 DEF CallTypes
  <2>3. Current(over) /\ (over.fin # "" => over.turn \in over.finals)
    BY <1>2, <1>5 DEF Base, Current
  <2>4. over.pl.id # 0 => over.pl.ended
    BY <1>1, <1>2, <1>5 DEF Base
  <2>5. s.next <= over.next /\ s.rev <= over.rev
    BY <1>2, <1>5
  <2> QED BY <1>5, <2>1, <2>2, <2>3, <2>4, <2>5 DEF Base, Onward
<1>7. over.st \in Quiet /\ over.st \notin Responding /\ Waits(s, over)
  BY <1>5 DEF Quiet, Responding, Waits
<1>8. ASSUME ~s.att.endReq PROVE Good(s, over)
  <2>1. over.ending => (over.open => over.hang # "no" \/ Forgets(over))
    BY <1>5, <1>8 DEF CallInv, Closing, Forgets
  <2> QED BY <1>5, <1>6, <1>7, <2>1, FreeGood
<1>9. CASE s.att.endReq /\ ~empty
  <2> DEFINE u == [over EXCEPT !.hang = "goodbye"]
  <2>1. t = u
    BY <1>9 DEF DoneOk, over
  <2>2. /\ u \in CallSet /\ u.hang = "goodbye" /\ u.st = over.st /\ u.att = over.att /\ u.pl = over.pl
        /\ u.conf = over.conf /\ u.turn = over.turn /\ u.next = over.next /\ u.fin = over.fin
        /\ u.finals = over.finals /\ u.speech = over.speech /\ u.rev = over.rev /\ u.eng = over.eng
        /\ u.open = over.open /\ u.cand = over.cand /\ u.ending = over.ending
    <3>1. over \in CallSet
      BY <1>5
    <3> QED BY <3>1 DEF CallSet
  <2> HIDE DEF u
  <2>3. Base(u)
    <3>1. Current(u)
      BY <1>6, <2>2 DEF Base, Current
    <3> QED BY <1>6, <2>2, <3>1, BaseFrom
  <2>4. Onward(s, u) /\ Waits(s, u) /\ u.att.id = 0
    <3>1. /\ Onward(s, over) /\ u.next = over.next /\ u.rev = over.rev /\ u.turn = over.turn
          /\ u.cand = over.cand /\ u.conf = over.conf
      BY <1>6, <2>2
    <3>2. Onward(s, u)
      BY <3>1 DEF Onward
    <3>3. u.st = "Idle"
      BY <1>5, <2>2
    <3>4. Waits(s, u)
      BY <3>3 DEF Waits
    <3> QED BY <1>6, <2>2, <3>2, <3>4
  <2>5. Good(s, u)
    BY <1>5, <1>7, <2>2, <2>3, <2>4, FreeGood
  <2> QED BY <2>1, <2>5
<1>10. CASE ~(FallbackOn /\ s.speech /\ empty) /\ ~s.att.endReq /\ s.att.rev = s.rev
  <2>1. t = AfterProactive(over, s.att.kind)
    BY <1>10 DEF DoneOk, over
  <2>2. Good(s, over) /\ CallInv(over)
    BY <1>8, <1>10 DEF Good, Step
  <2>3. Good(over, t)
    BY <1>2, <2>1, <2>2, ProactiveDoes
  <2> HIDE DEF t
  <2>4. Good(s, t)
    BY <1>5, <1>6, <2>2, <2>3, IdleThen
  <2> QED BY <2>4 DEF t
<1>11. CASE ~(FallbackOn /\ s.speech /\ empty) /\ ~s.att.endReq /\ s.att.rev # s.rev
  <2>1. t = over
    BY <1>11 DEF DoneOk, over
  <2> QED BY <1>8, <1>11, <2>1
<1> HIDE DEF t
<1>12. Good(s, t)
  <2> HIDE DEF empty
  <2>1. s.att.endReq /\ empty => (FallbackOn /\ s.speech /\ empty) \/ (~(FallbackOn /\ s.speech /\ empty) /\ s.att.endReq /\ empty)
    OBVIOUS
  <2> QED BY <1>3, <1>4, <1>9, <1>10, <1>11, <2>1 DEF t
<1> QED BY <1>12 DEF t

LEMMA DoneGood ==
  ASSUME NEW s, CallInv(s), s.conf = c.conf, NEW e \in EventSet, EventInv(s, e), e.type = "done"
  PROVE  Good(s, Done(s, e.id, e.res))
<1>1. e.id # 0
  BY DEF EventSet
<1>2. CASE s.att.id # e.id \/ s.att.tool # "none"
  BY <1>2, SameGood DEF Done
<1>3. CASE ~(s.att.id # e.id \/ s.att.tool # "none") /\ e.res = "ok"
  BY <1>1, <1>3, DoneOkGood DEF Done
<1>4. CASE ~(s.att.id # e.id \/ s.att.tool # "none") /\ e.res # "ok"
  BY <1>1, <1>4, DoneErrGood DEF Done
<1> QED BY <1>2, <1>3, <1>4

-----------------------------------------------------------------------------
(* Speech that was prepared in the background                               *)

LEMMA EngagementSettles ==
  ASSUME NEW s, CallInv(s), NEW e \in EventSet, e.type = "engage", EventInv(s, e)
  PROVE  LET t == EngagementReady(s, e)
         IN  /\ Step(s, t) /\ Follows(s, t)
             /\ t.next # s.next => e.turn = s.turn /\ ~s.cand /\ s.speech
<1> DEFINE idle == [s EXCEPT !.eng = NoTask]
           t == EngagementReady(s, e)
<1>1. s \in CallSet /\ NoTask \in TaskSet /\ Base(s) /\ s.next \in Nat /\ s.rev \in Nat
  BY CallBase, Blank DEF CallInv, CallTypes, CallSet
<1>2. /\ idle \in CallSet /\ idle.eng = NoTask /\ idle.st = s.st /\ idle.att = s.att /\ idle.pl = s.pl
      /\ idle.conf = s.conf /\ idle.turn = s.turn /\ idle.next = s.next /\ idle.fin = s.fin
      /\ idle.finals = s.finals /\ idle.speech = s.speech /\ idle.rev = s.rev /\ idle.hang = s.hang
      /\ idle.open = s.open /\ idle.cand = s.cand /\ idle.ending = s.ending /\ idle.timer = s.timer
  <2>1. s \in CallSet /\ NoTask \in TaskSet
    BY <1>1
  <2> QED BY <2>1 DEF CallSet
<1> HIDE DEF idle
<1>3. Good(s, idle) /\ CallInv(idle)
  <2>1. CallTypes(idle) /\ OnePlayout(idle)
    BY <1>2 DEF CallInv, CallTypes, OnePlayout
  <2>2. ForFinal(idle) /\ Kinds(idle)
    BY <1>2 DEF CallInv, ForFinal, Kinds
  <2>3. Replies(idle) /\ Current(idle) /\ Closing(idle)
    <3>1. Replies(idle)
      BY <1>2 DEF CallInv, Replies
    <3>2. Current(idle)
      BY <1>2 DEF Current
    <3>3. Closing(idle)
      BY <1>2 DEF CallInv, Closing, Forgets
    <3> QED BY <3>1, <3>2, <3>3
  <2>4. CallInv(idle)
    BY <2>1, <2>2, <2>3 DEF CallInv
  <2>5. s.next <= idle.next /\ s.rev <= idle.rev
    BY <1>1, <1>2
  <2>6. Onward(s, idle)
    BY <1>2, <2>5 DEF Onward
  <2>7. SameAttempt(s, idle) /\ Undecided(s, idle)
    BY <1>2 DEF SameAttempt, Undecided
  <2>8. Waits(s, idle) /\ Moved(s, idle) /\ Kept(s, idle) /\ Reactive(s, idle) /\ idle.conf = s.conf
    BY <1>2 DEF Waits, Moved, Kept, Reactive
  <2> QED BY <2>4, <2>6, <2>7, <2>8 DEF Good, Step, Follows
<1>4. CASE e.rev # s.rev \/ ~IdleSafe(s)
  <2>1. t = idle
    BY <1>4 DEF EngagementReady, idle
  <2> QED BY <1>2, <1>3, <2>1 DEF Good
<1>5. ASSUME e.rev = s.rev, IdleSafe(s)
      PROVE  /\ s.att.id = 0 /\ ~s.ending /\ s.st = "Idle" /\ e.turn = s.turn /\ ~s.cand /\ s.speech
  BY <1>5 DEF IdleSafe, EventInv
<1>6. e.kind \in {"idle", "close"} /\ e.rev \in Nat
  BY DEF EventSet
<1>7. CASE e.rev = s.rev /\ IdleSafe(s) /\ e.res = "silent"
  <2>1. t = AfterProactive(idle, e.kind)
    BY <1>7 DEF EngagementReady, idle
  <2>2. e.kind \in {"none", "idle", "close"}
    BY <1>6
  <2>3. Good(idle, t)
    BY <1>3, <2>1, <2>2, ProactiveDoes
  <2>4. s.att.id = 0 /\ s.st = "Idle" /\ e.turn = s.turn /\ ~s.cand /\ s.speech
    BY <1>5, <1>7
  <2> HIDE DEF t
  <2>5. Good(s, t)
    BY <1>2, <1>3, <2>3, <2>4, IdleThen
  <2> QED BY <2>4, <2>5 DEF Good, t
<1>8. CASE e.rev = s.rev /\ IdleSafe(s) /\ e.res # "silent"
  <2> DEFINE r == [idle EXCEPT !.turn = Synthetic(s)]
             x == ""
             b == Begin(r, x, TRUE, "verbatim")
             a == [b.att EXCEPT !.kind = e.kind, !.rev = e.rev]
             u == [b EXCEPT !.turn = s.turn, !.att = a]
  <2>1. t = u
    BY <1>8 DEF EngagementReady, idle
  <2>2. Synthetic(s) \in Nat /\ s.turn \in Nat
    <3>1. s.turn \in Nat
      BY <1>1 DEF CallSet
    <3>2. MaxTurn \in Nat
      BY CoordinatorAssumption, Zenon
    <3>3. s.next \in Nat
      BY <1>1
    <3> QED BY <3>1, <3>2, <3>3 DEF Synthetic
  <2>3. /\ r \in CallSet /\ r.eng = idle.eng /\ r.att = idle.att /\ r.pl = idle.pl
        /\ r.conf = idle.conf /\ r.next = idle.next /\ r.fin = idle.fin /\ r.hang = idle.hang
        /\ r.finals = idle.finals /\ r.speech = idle.speech /\ r.rev = idle.rev
        /\ r.open = idle.open /\ r.cand = idle.cand /\ r.ending = idle.ending /\ r.timer = idle.timer
    <3>1. idle \in CallSet
      BY <1>2
    <3> QED BY <2>2, <3>1 DEF CallSet
  <2> HIDE DEF r
  <2>4. CallTypes(r)
    BY <1>1, <1>2, <2>3 DEF Base, CallTypes
  <2>5. Began(r, b, x, TRUE, "verbatim")
    <3>1. "verbatim" \in {"no", "facts", "verbatim"}
      OBVIOUS
    <3> QED BY <2>4, <3>1, Blank, ReplyDoes
  <2> HIDE DEF b, x
  <2>6. /\ b \in CallSet /\ b.next = s.next + 1 /\ b.conf = s.conf /\ b.cand = s.cand /\ b.fin = s.fin
        /\ b.speech = s.speech /\ b.ending = s.ending /\ b.hang = s.hang /\ b.rev = s.rev /\ b.eng = NoTask
        /\ b.finals = s.finals /\ b.open = s.open /\ b.st = "Releasing"
        /\ b.att.id = s.next + 1 /\ b.att.auth /\ b.att.task = "run"
        /\ b.att.tool = "none" /\ b.att.direct = "verbatim"
        /\ ~b.att.endReq /\ ~b.att.spec
        /\ b.pl.id = s.next + 1 /\ b.pl.highest = s.next + 1 /\ b.pl.authorized
        /\ b.pl.enabled = s.speech /\ b.att \in AttSet
    <3>1. b.att \in AttSet
      BY <2>5 DEF Began, CallSet
    <3> QED BY <1>2, <2>3, <2>5, <3>1, ZenonT(60) DEF Began
  <2>7. /\ a \in AttSet /\ a.kind = e.kind /\ a.id = b.att.id /\ a.auth = b.att.auth /\ a.task = b.att.task
        /\ a.tool = b.att.tool /\ a.direct = b.att.direct /\ a.endReq = b.att.endReq /\ a.spec = b.att.spec
    <3>1. b.att \in AttSet
      BY <2>6
    <3> QED BY <1>6, <3>1 DEF AttSet
  <2> HIDE DEF a
  <2>8. /\ u \in CallSet /\ u.turn = s.turn /\ u.att = a
        /\ u.next = b.next /\ u.conf = b.conf /\ u.cand = b.cand /\ u.fin = b.fin
        /\ u.speech = b.speech /\ u.ending = b.ending /\ u.hang = b.hang /\ u.rev = b.rev /\ u.eng = b.eng
        /\ u.finals = b.finals /\ u.open = b.open /\ u.st = b.st /\ u.pl = b.pl
    <3>1. b \in CallSet /\ a \in AttSet /\ s.turn \in Nat
      BY <2>2, <2>6, <2>7
    <3> QED BY <3>1 DEF CallSet
  <2> HIDE DEF u
  <2>9. s.att.id = 0 /\ ~s.ending /\ s.st = "Idle" /\ e.turn = s.turn /\ ~s.cand /\ s.speech /\ e.kind # "none"
    BY <1>5, <1>6, <1>8
  <2>10. CallTypes(u)
    BY <1>1, <2>6, <2>7, <2>8 DEF CallTypes
  <2>11. OnePlayout(u)
    <3>1. u.pl = b.pl /\ u.att = a /\ a.id = b.att.id /\ a.auth = b.att.auth /\ a.spec = b.att.spec
          /\ u.speech = b.speech
      BY <2>7, <2>8
    <3>2. b.pl.id = b.att.id /\ b.att.auth /\ ~b.att.spec /\ b.pl.enabled = b.speech
      BY <2>6
    <3>3. u.pl.id = u.att.id /\ u.att.auth /\ ~u.att.spec
      BY <3>1, <3>2
    <3>4. u.pl.enabled => u.speech
      BY <3>1, <3>2
    <3> QED BY <3>3, <3>4 DEF OnePlayout
  <2>12. ForFinal(u) /\ Kinds(u)
    BY <2>6, <2>7, <2>8, <2>9 DEF ForFinal, Kinds, Responding
  <2>13. u.fin # "" => u.turn \in u.finals
    BY <1>1, <2>6, <2>8 DEF Base
  <2>14. Replies(u) /\ Current(u) /\ Closing(u)
    BY <2>6, <2>7, <2>8, <2>9, <2>13 DEF Replies, Current, Closing
  <2>15. u.att.id > s.next /\ s.next <= u.next /\ s.rev <= u.rev
    BY <1>1, <2>6, <2>7, <2>8
  <2>16. Follows(s, u)
    BY <2>6, <2>8, <2>15 DEF Follows, Onward
  <2>17. Waits(s, u) /\ Moved(s, u) /\ Kept(s, u) /\ u.conf = s.conf
    BY <2>6, <2>8, <2>9 DEF Waits, Moved, Kept
  <2>18. Step(s, u)
    BY <2>10, <2>11, <2>12, <2>14, <2>17 DEF CallInv, Step
  <2> QED BY <2>1, <2>9, <2>16, <2>18
<1> QED BY <1>4, <1>7, <1>8

-----------------------------------------------------------------------------
(* Audio frames                                                             *)

\* A step that moves what is prepared, or heard, and nothing else.
LEMMA ListenGood ==
  ASSUME NEW s, CallInv(s), NEW t \in CallSet, t.att = s.att, t.pl = s.pl, t.next = s.next, t.conf = s.conf,
         t.speech = s.speech, t.hang = s.hang, t.open = s.open, t.fin = s.fin, t.turn = s.turn,
         t.finals = s.finals, t.ending = s.ending, t.st = s.st, t.timer = s.timer, Current(t),
         s.rev <= t.rev, t.rev = s.rev => (t.cand => s.cand)
  PROVE  Good(s, t)
<1>1. s \in CallSet /\ s.next \in Nat
  BY DEF CallInv, CallTypes, CallSet
<1>2. CallTypes(t) /\ OnePlayout(t)
  BY DEF CallInv, CallTypes, OnePlayout
<1>3. ForFinal(t) /\ Kinds(t)
  BY DEF CallInv, ForFinal, Kinds
<1>4. Replies(t)
  BY DEF CallInv, Replies
<1>5. Closing(t)
  BY DEF CallInv, Closing, Forgets
<1>6. s.next <= t.next
  BY <1>1
<1>7. Onward(s, t)
  BY <1>6 DEF Onward
<1>8. SameAttempt(s, t) /\ Undecided(s, t)
  BY DEF SameAttempt, Undecided
<1>9. Waits(s, t) /\ Moved(s, t) /\ Kept(s, t) /\ Reactive(s, t)
  BY DEF Waits, Moved, Kept, Reactive
<1> QED BY <1>2, <1>3, <1>4, <1>5, <1>7, <1>8, <1>9 DEF Good, Step, CallInv, Follows

\* A candidate outdates what was prepared.
LEMMA CandidateDoes ==
  ASSUME NEW s, CallInv(s)
  PROVE  LET t == Candidate(s)
         IN  /\ Good(s, t) /\ t \in CallSet /\ t.att = s.att /\ t.pl = s.pl /\ t.next = s.next /\ t.conf = s.conf
             /\ t.speech = s.speech /\ t.hang = s.hang /\ t.open = s.open /\ t.fin = s.fin /\ t.turn = s.turn
             /\ t.finals = s.finals /\ t.ending = s.ending /\ t.st = s.st /\ t.timer = s.timer /\ t.eng = NoTask
             /\ t.rev = s.rev + 1 \/ (t.rev = s.rev /\ s.cand)
<1>1. s \in CallSet /\ s.rev \in Nat
  BY DEF CallInv, CallTypes, CallSet
<1>2. CASE s.cand
  <2>1. Candidate(s) = s
    BY <1>2 DEF Candidate
  <2>2. s.eng = NoTask
    BY <1>2 DEF CallInv, Current
  <2> QED BY <1>1, <1>2, <2>1, <2>2, SameGood
<1>3. CASE ~s.cand
  <2> DEFINE i == Invalidate(s)
             t == [i EXCEPT !.cand = TRUE]
  <2>1. Candidate(s) = t
    BY <1>3 DEF Candidate
  <2>2. /\ i \in CallSet /\ i.att = s.att /\ i.conf = s.conf /\ i.turn = s.turn /\ i.st = s.st /\ i.ending = s.ending
        /\ i.next = s.next /\ i.fin = s.fin /\ i.speech = s.speech /\ i.hang = s.hang /\ i.timer = s.timer
        /\ i.rev = s.rev + 1 /\ i.eng = NoTask /\ i.finals = s.finals /\ i.pl = s.pl /\ i.open = s.open
    BY <1>1, InvalidateDoes
  <2> HIDE DEF i
  <2>3. /\ t \in CallSet /\ t.att = i.att /\ t.conf = i.conf /\ t.turn = i.turn /\ t.st = i.st /\ t.ending = i.ending
        /\ t.next = i.next /\ t.fin = i.fin /\ t.speech = i.speech /\ t.hang = i.hang /\ t.timer = i.timer
        /\ t.rev = i.rev /\ t.eng = i.eng /\ t.finals = i.finals /\ t.pl = i.pl /\ t.open = i.open
    <3>1. i \in CallSet
      BY <2>2
    <3> QED BY <3>1 DEF CallSet
  <2> HIDE DEF t
  <2>4. /\ t.att = s.att /\ t.conf = s.conf /\ t.turn = s.turn /\ t.st = s.st /\ t.ending = s.ending
        /\ t.next = s.next /\ t.fin = s.fin /\ t.speech = s.speech /\ t.hang = s.hang /\ t.timer = s.timer
        /\ t.rev = s.rev + 1 /\ t.eng = NoTask /\ t.finals = s.finals /\ t.pl = s.pl /\ t.open = s.open
    BY <2>2, <2>3
  <2>5. s.rev <= t.rev /\ t.rev # s.rev
    BY <1>1, <2>4
  <2>6. Current(t)
    BY <2>4 DEF Current
  <2>7. Good(s, t)
    BY <2>3, <2>4, <2>5, <2>6, ListenGood
  <2> QED BY <2>1, <2>3, <2>4, <2>7
<1> QED BY <1>2, <1>3

\* A partial touches neither the gate nor the turn.
LEMMA PartialKeeps ==
  ASSUME NEW s \in CallSet, NEW text \in TextSet
  PROVE  LET t == Partial(s, text)
         IN  t.speech = s.speech /\ t.ending = s.ending /\ t.turn = s.turn /\ t.next = s.next /\ t.st = s.st
<1> DEFINE heard == [s EXCEPT !.part = text]
           kept == IF s.att.id # 0 /\ s.att.hyp # text THEN Cancel(heard) ELSE heard
           timer == [NoTimer EXCEPT !.turn = s.turn, !.text = text]
           t == Partial(s, text)
<1>1. heard \in CallSet /\ heard.speech = s.speech /\ heard.ending = s.ending /\ heard.turn = s.turn /\ heard.next = s.next
      /\ heard.st = s.st
  BY DEF CallSet
<1>2. t = s \/ t = [s EXCEPT !.pre = text] \/ t = heard \/ t = [kept EXCEPT !.stable = timer]
  BY DEF Partial
<1> HIDE DEF heard, timer, t
<1>3. kept \in CallSet /\ kept.speech = s.speech /\ kept.ending = s.ending /\ kept.turn = s.turn /\ kept.next = s.next
      /\ kept.st = s.st
  BY <1>1, CancelDoes
<1> HIDE DEF kept
<1>4. CASE t = [kept EXCEPT !.stable = timer]
  BY <1>3, <1>4, ZenonT(60) DEF CallSet, t
<1>5. CASE t = [s EXCEPT !.pre = text]
  BY <1>5 DEF CallSet, t
<1> QED BY <1>1, <1>2, <1>4, <1>5 DEF t

LEMMA ConfirmedGood ==
  ASSUME NEW s, CallInv(s), s.st \in Quiet, ~s.ending
  PROVE  Good(s, Confirmed(s))
<1> DEFINE k == Candidate(s)
           q == IF s.st \in {"Playing", "Releasing"} THEN Cancel(k) ELSE k
           turn == q.turn + 1
           n == [q EXCEPT
                 !.turn = turn, !.part = "", !.fin = "", !.cand = FALSE,
                 !.silent = FALSE, !.susp = FALSE, !.checks = 0,
                 !.closeAt = FALSE, !.st = "Speaking", !.pre = ""]
           t == Confirmed(s)
<1>1. t = IF s.pre = "" THEN n ELSE Partial(n, s.pre)
  BY DEF Confirmed
<1>2. s \in CallSet /\ s.turn \in Nat /\ s.rev \in Nat /\ s.next \in Nat /\ s.pre \in TextSet
  BY TextsOf DEF CallInv, CallTypes, CallSet
<1>3. /\ Good(s, k) /\ k \in CallSet /\ k.att = s.att /\ k.pl = s.pl /\ k.next = s.next /\ k.conf = s.conf
      /\ k.speech = s.speech /\ k.open = s.open /\ k.turn = s.turn
      /\ k.finals = s.finals /\ k.ending = s.ending /\ k.st = s.st /\ k.eng = NoTask
      /\ k.rev = s.rev + 1 \/ (k.rev = s.rev /\ s.cand)
  BY CandidateDoes
<1> HIDE DEF k
<1>4. CallInv(k) /\ Base(k)
  BY <1>3, CallBase DEF Good, Step
<1>5. /\ q \in CallSet /\ q.next = s.next /\ q.conf = s.conf
      /\ q.speech = s.speech /\ q.open = s.open /\ q.turn = s.turn
      /\ q.finals = s.finals /\ q.ending = s.ending /\ q.eng = NoTask
      /\ q.rev = s.rev + 1 \/ (q.rev = s.rev /\ s.cand)
      /\ Base(q)
      /\ (q.att = NoAtt \/ (q.att = s.att /\ q.pl = s.pl /\ s.st = "Idle"))
  <2>1. CASE s.st \in {"Playing", "Releasing"}
    <3>1. /\ q \in CallSet /\ q.next = k.next /\ q.conf = k.conf
          /\ q.speech = k.speech /\ q.open = k.open /\ q.turn = k.turn /\ q.rev = k.rev
          /\ q.finals = k.finals /\ q.ending = k.ending /\ q.eng = k.eng /\ q.att = NoAtt
      BY <1>3, <2>1, CancelDoes
    <3>2. Base(q)
      BY <1>4, <2>1, CancelBase
    <3> HIDE DEF q
    <3> QED BY <1>3, <3>1, <3>2
  <2>2. CASE s.st \notin {"Playing", "Releasing"}
    <3>1. q = k /\ s.st = "Idle"
      BY <2>2 DEF Quiet
    <3> QED BY <1>3, <1>4, <3>1
  <2> QED BY <2>1, <2>2
<1> HIDE DEF q
<1>6. turn \in Nat /\ turn = s.turn + 1 /\ turn # s.turn
  BY <1>2, <1>5
<1> HIDE DEF turn
<1>7. /\ n \in CallSet /\ n.turn = turn /\ n.fin = "" /\ ~n.cand /\ n.st = "Speaking"
      /\ n.next = q.next /\ n.conf = q.conf /\ n.speech = q.speech /\ n.open = q.open /\ n.rev = q.rev
      /\ n.finals = q.finals /\ n.ending = q.ending /\ n.eng = q.eng /\ n.att = q.att /\ n.pl = q.pl
  <2> DEFINE e == ""
  <2>1. q \in CallSet /\ e \in TextSet /\ turn \in Nat
    BY <1>5, <1>6, Blank
  <2>2. n = [q EXCEPT
                 !.turn = turn, !.part = e, !.fin = e, !.cand = FALSE,
                 !.silent = FALSE, !.susp = FALSE, !.checks = 0,
                 !.closeAt = FALSE, !.st = "Speaking", !.pre = e]
    OBVIOUS
  <2> HIDE DEF e, n
  <2>3. n \in CallSet
    <3> DEFINE z == [q EXCEPT !.turn = turn, !.part = e, !.fin = e, !.cand = FALSE, !.silent = FALSE]
    <3>1. n = [z EXCEPT !.susp = FALSE, !.checks = 0, !.closeAt = FALSE, !.st = "Speaking", !.pre = e]
      BY <2>2
    <3>2. z \in CallSet
      BY <2>1, ZenonT(60) DEF CallSet
    <3>3. e \in TextSet
      BY <2>1
    <3>4. "Speaking" \in Quiet \cup Hearing \cup {"AwaitingFinal"}
      BY DEF Hearing
    <3> HIDE DEF z
    <3> QED BY <3>1, <3>2, <3>3, <3>4, ZenonT(60) DEF CallSet
  <2>4. /\ n.turn = turn /\ n.fin = e /\ ~n.cand /\ n.st = "Speaking"
        /\ n.next = q.next /\ n.conf = q.conf /\ n.speech = q.speech /\ n.open = q.open /\ n.rev = q.rev
        /\ n.finals = q.finals /\ n.ending = q.ending /\ n.eng = q.eng /\ n.att = q.att /\ n.pl = q.pl
    BY <2>1, <2>2 DEF CallSet
  <2> QED BY <2>3, <2>4 DEF e
<1> HIDE DEF n
<1>8. ~n.att.auth /\ (n.att.id # 0 => n.att = s.att /\ n.pl = s.pl /\ s.st = "Idle")
  BY <1>5, <1>7, Blank DEF CallInv, ForFinal, Responding
<1>9. CallInv(n)
  <2>1. CallTypes(n)
    BY <1>5, <1>7 DEF Base, CallTypes
  <2>2. OnePlayout(n)
    <3>1. n.pl.id # 0 => n.pl.id = n.att.id \/ n.pl.ended
      BY <1>5, <1>7 DEF Base
    <3>2. CASE n.att.id # 0
      BY <1>5, <1>7, <1>8, <3>1, <3>2 DEF CallInv, OnePlayout
    <3>3. CASE n.att.id = 0
      <4>1. ~n.att.spec
        BY <2>1, <3>3, Blank DEF CallTypes
      <4> QED BY <3>1, <3>3, <4>1 DEF OnePlayout
    <3> QED BY <3>2, <3>3
  <2>3. ForFinal(n)
    BY <1>8 DEF ForFinal
  <2>4. Kinds(n)
    <3>1. CASE n.att.id # 0
      <4>1. "minimum" \in s.conf.on
        BY <1>8, <3>1 DEF CallInv, Kinds
      <4> QED BY <1>5, <1>7, <1>8, <3>1, <4>1 DEF CallInv, Kinds
    <3>2. CASE n.att.id = 0
      <4>1. n.att = NoAtt
        BY <2>1, <3>2 DEF CallTypes
      <4> QED BY <3>2, <4>1, Blank DEF Kinds
    <3> QED BY <3>1, <3>2
  <2>5. Replies(n)
    BY <1>7 DEF Replies, Responding
  <2>6. Current(n) /\ Closing(n)
    BY <1>5, <1>7 DEF Current, Closing
  <2> QED BY <2>1, <2>2, <2>3, <2>4, <2>5, <2>6 DEF CallInv
<1>10. Follows(s, n)
  <2>1. n.next = s.next /\ (n.rev = s.rev + 1 \/ (n.rev = s.rev /\ s.cand)) /\ ~n.cand /\ n.conf = s.conf
    BY <1>5, <1>7
  <2>2. s.next <= n.next /\ s.rev <= n.rev /\ (n.rev = s.rev => s.cand)
    BY <1>2, <2>1
  <2>3. Onward(s, n)
    BY <2>1, <2>2 DEF Onward
  <2>4. n.att.id # 0 => SameAttempt(s, n) /\ Undecided(s, n)
    BY <1>8 DEF SameAttempt, Undecided
  <2> QED BY <2>3, <2>4 DEF Follows
<1>11. ASSUME NEW u, CallInv(u), Follows(n, u), u.conf = n.conf, u.speech = n.speech, u.ending = n.ending,
              u.turn = n.turn, u.next = n.next, u.st = n.st
       PROVE  Good(s, u)
  <2>1. u \in CallSet
    BY <1>11 DEF CallInv, CallTypes
  <2>2. Follows(s, u)
    BY <1>2, <1>7, <1>10, <1>11, <2>1, FollowsOn
  <2>3. u.conf = s.conf /\ u.speech = s.speech /\ u.turn # s.turn /\ u.next = s.next /\ u.st = "Speaking" /\ ~u.ending
    BY <1>5, <1>6, <1>7, <1>11
  <2>4. Waits(s, u) /\ Moved(s, u) /\ Kept(s, u) /\ Reactive(s, u)
    BY <2>3 DEF Waits, Moved, Kept, Reactive
  <2> QED BY <1>11, <2>2, <2>3, <2>4 DEF Good, Step
<1>12. CASE s.pre = ""
  <2>1. t = n
    BY <1>1, <1>12
  <2>2. Follows(n, n)
    BY <1>7, <1>9, SameGood DEF Good
  <2> QED BY <1>9, <1>11, <2>1, <2>2
<1>13. CASE s.pre # ""
  <2>1. t = Partial(n, s.pre)
    BY <1>1, <1>13
  <2>2. Good(n, Partial(n, s.pre))
    BY <1>2, <1>9, PartialGood
  <2>3. LET u == Partial(n, s.pre)
        IN  u.speech = n.speech /\ u.ending = n.ending /\ u.turn = n.turn /\ u.next = n.next /\ u.st = n.st
    BY <1>2, <1>7, PartialKeeps
  <2> HIDE DEF t
  <2>4. Good(s, t)
    BY <1>11, <2>1, <2>2, <2>3 DEF Good, Step
  <2> QED BY <2>4 DEF t
<1> QED BY <1>12, <1>13

LEMMA ResumedGood ==
  ASSUME NEW s, CallInv(s)
  PROVE  Good(s, [Resumed(s) EXCEPT !.silent = FALSE])
<1> DEFINE t == [Resumed(s) EXCEPT !.silent = FALSE]
<1>1. s \in CallSet
  BY DEF CallInv, CallTypes
<1>2. CASE s.silent /\ s.susp /\ s.st \in Hearing
  <2> DEFINE g == Cancel(s)
             e == ""
             f == g.flushRev + 1
             r == [g EXCEPT !.flushRev = f, !.susp = FALSE, !.part = e]
  <2>1. t = [r EXCEPT !.silent = FALSE]
    BY <1>2 DEF Resumed
  <2>2. g \in CallSet
    BY <1>1, CancelDoes
  <2>3. e \in TextSet
    BY Blank
  <2> HIDE DEF g, e, t
  <2>4. f \in Nat
    <3>1. g.flushRev \in Nat
      BY <2>2 DEF CallSet
    <3> QED BY <3>1
  <2> HIDE DEF f
  <2>5. r \in CallSet /\ Alike(g, r)
    BY <2>2, <2>3, <2>4, ZenonT(60) DEF CallSet, Alike
  <2> HIDE DEF r
  <2>6. t \in CallSet /\ Alike(r, t)
    <3>1. r \in CallSet
      BY <2>5
    <3> QED BY <2>1, <3>1, ZenonT(60) DEF CallSet, Alike
  <2>7. Alike(Cancel(s), t)
    BY <2>5, <2>6 DEF Alike, g
  <2>8. Good(s, t)
    BY <1>2, <2>6, <2>7, CancelGood
  <2> QED BY <2>8 DEF t
<1>3. CASE ~(s.silent /\ s.susp /\ s.st \in Hearing)
  <2>1. t = [s EXCEPT !.silent = FALSE]
    BY <1>3 DEF Resumed
  <2> HIDE DEF t
  <2>2. t \in CallSet /\ Alike(s, t) /\ t.timer = s.timer
    BY <1>1, <2>1, ZenonT(60) DEF CallSet, Alike
  <2>3. Good(s, t)
    BY <2>2, AlikeGood
  <2> QED BY <2>3 DEF t
<1> QED BY <1>2, <1>3

LEMMA FlushedAlike ==
  ASSUME NEW s \in CallSet
  PROVE  Flushed(s) \in CallSet /\ Alike(s, Flushed(s)) /\ Flushed(s).timer = s.timer
<1> DEFINE f == s.flushRev + 1
           r == [s EXCEPT !.flushed = s.turn, !.susp = TRUE, !.flushRev = f]
<1>1. s.turn \in Nat /\ f \in Nat
  <2>1. s.turn \in Nat /\ s.flushRev \in Nat
    BY DEF CallSet
  <2> QED BY <2>1
<1>2. Flushed(s) = r \/ Flushed(s) = s
  BY DEF Flushed
<1> HIDE DEF f
<1>3. r \in CallSet /\ Alike(s, r) /\ r.timer = s.timer
  BY <1>1 DEF CallSet, Alike
<1>4. Alike(s, s)
  BY DEF Alike
<1> HIDE DEF r
<1>5. CASE Flushed(s) = r
  BY <1>3, <1>5
<1>6. CASE Flushed(s) = s
  BY <1>4, <1>6
<1> QED BY <1>2, <1>5, <1>6

\* The caller has stopped: the utterance is dropped for being too short, or committed.
LEMMA StoppedGood ==
  ASSUME NEW s, CallInv(s), s.st \in Hearing, NEW t \in CallSet, t.att = s.att, t.pl = s.pl, t.next = s.next,
         t.conf = s.conf, t.speech = s.speech, t.hang = s.hang, t.open = s.open, t.fin = s.fin, t.turn = s.turn,
         t.finals = s.finals, t.ending = s.ending, t.rev = s.rev, t.eng = s.eng, t.cand => s.cand,
         \/ t.st = "Idle" /\ "minimum" \in s.conf.on
         \/ t.st = "AwaitingFinal" /\ t.timer = s.turn
  PROVE  Good(s, t)
<1>1. s \in CallSet /\ s.next \in Nat /\ s.rev \in Nat
  BY DEF CallInv, CallTypes, CallSet
<1>2. ~s.ending /\ ~s.att.auth /\ t.st \notin Responding
  BY DEF CallInv, Closing, ForFinal, Quiet, Hearing, Responding
<1>3. CallTypes(t) /\ OnePlayout(t)
  BY DEF CallInv, CallTypes, OnePlayout
<1>4. ForFinal(t)
  BY <1>2 DEF ForFinal
<1>5. Kinds(t)
  BY DEF CallInv, Kinds
<1>6. Replies(t)
  BY <1>2 DEF CallInv, Replies
<1>7. Current(t) /\ Closing(t)
  BY <1>2 DEF CallInv, Current, Closing
<1>8. s.next <= t.next /\ s.rev <= t.rev
  BY <1>1
<1>9. Onward(s, t)
  BY <1>8 DEF Onward
<1>10. SameAttempt(s, t) /\ Undecided(s, t)
  BY DEF SameAttempt, Undecided
<1>11. Waits(s, t) /\ Moved(s, t) /\ Kept(s, t) /\ Reactive(s, t)
  BY DEF Waits, Moved, Kept, Reactive
<1> QED BY <1>3, <1>4, <1>5, <1>6, <1>7, <1>9, <1>10, <1>11 DEF Good, Step, CallInv, Follows

LEMMA SilenceGood ==
  ASSUME NEW s, CallInv(s), s.conf = c.conf, s.st \in Hearing
  PROVE  /\ Good(s, [Flushed(s) EXCEPT !.silent = TRUE])
         /\ MinimumOn => Good(s, Discarded(Flushed(s)))
         /\ Good(s, Committed(Flushed(s)))
<1> DEFINE f == Flushed(s)
<1>1. s \in CallSet
  BY DEF CallInv, CallTypes
<1>2. f \in CallSet /\ Alike(s, f) /\ f.timer = s.timer
  BY <1>1, FlushedAlike
<1> HIDE DEF f
<1>3. Good(s, [f EXCEPT !.silent = TRUE])
  <2> DEFINE t == [f EXCEPT !.silent = TRUE]
  <2>1. f \in CallSet
    BY <1>2
  <2>2. t \in CallSet /\ Alike(f, t) /\ t.timer = f.timer
    BY <2>1 DEF CallSet, Alike
  <2> HIDE DEF t
  <2>3. Alike(s, t) /\ t.timer = s.timer
    BY <1>2, <2>2 DEF Alike
  <2>4. Good(s, t)
    BY <2>2, <2>3, AlikeGood
  <2> QED BY <2>4 DEF t
<1>4. ASSUME MinimumOn PROVE Good(s, Discarded(f))
  <2> DEFINE e == ""
             t == [f EXCEPT !.cand = FALSE, !.pre = e, !.silent = FALSE, !.st = "Idle"]
  <2>1. Discarded(f) = t
    BY DEF Discarded
  <2>2. f \in CallSet /\ e \in TextSet
    BY <1>2, Blank
  <2> HIDE DEF e
  <2>3. /\ t \in CallSet /\ t.st = "Idle" /\ ~t.cand /\ t.att = f.att /\ t.pl = f.pl /\ t.next = f.next
        /\ t.conf = f.conf /\ t.speech = f.speech /\ t.hang = f.hang /\ t.open = f.open /\ t.fin = f.fin
        /\ t.turn = f.turn /\ t.finals = f.finals /\ t.ending = f.ending /\ t.rev = f.rev /\ t.eng = f.eng
    <3>1. "Idle" \in Quiet \cup Hearing \cup {"AwaitingFinal"}
      BY DEF Quiet
    <3> QED BY <2>2, <3>1, ZenonT(60) DEF CallSet
  <2> HIDE DEF t
  <2>4. /\ t.att = s.att /\ t.pl = s.pl /\ t.next = s.next
        /\ t.conf = s.conf /\ t.speech = s.speech /\ t.hang = s.hang /\ t.open = s.open /\ t.fin = s.fin
        /\ t.turn = s.turn /\ t.finals = s.finals /\ t.ending = s.ending /\ t.rev = s.rev /\ t.eng = s.eng
    BY <1>2, <2>3 DEF Alike
  <2>5. "minimum" \in s.conf.on
    BY <1>4 DEF MinimumOn
  <2> QED BY <2>1, <2>3, <2>4, <2>5, StoppedGood
<1>5. Good(s, Committed(f))
  <2> DEFINE t == [f EXCEPT !.silent = FALSE, !.st = "AwaitingFinal", !.timer = f.turn]
  <2>1. Committed(f) = t
    BY DEF Committed
  <2>2. f \in CallSet /\ f.turn \in Nat
    BY <1>2 DEF CallSet
  <2>3. /\ t \in CallSet /\ t.st = "AwaitingFinal" /\ t.timer = f.turn /\ t.cand = f.cand /\ t.att = f.att
        /\ t.pl = f.pl /\ t.next = f.next
        /\ t.conf = f.conf /\ t.speech = f.speech /\ t.hang = f.hang /\ t.open = f.open /\ t.fin = f.fin
        /\ t.turn = f.turn /\ t.finals = f.finals /\ t.ending = f.ending /\ t.rev = f.rev /\ t.eng = f.eng
    BY <2>2, ZenonT(60) DEF CallSet
  <2> HIDE DEF t
  <2>4. /\ t.att = s.att /\ t.pl = s.pl /\ t.next = s.next /\ t.timer = s.turn /\ t.cand = s.cand
        /\ t.conf = s.conf /\ t.speech = s.speech /\ t.hang = s.hang /\ t.open = s.open /\ t.fin = s.fin
        /\ t.turn = s.turn /\ t.finals = s.finals /\ t.ending = s.ending /\ t.rev = s.rev /\ t.eng = s.eng
    BY <1>2, <2>3 DEF Alike
  <2> QED BY <2>1, <2>3, <2>4, StoppedGood
<1> QED BY <1>3, <1>4, <1>5 DEF f

-----------------------------------------------------------------------------
(* The channel: an event is taken, or sent                                  *)

LEMMA TailIs ==
  ASSUME NEW q \in Seq(EventSet), q # << >>
  PROVE  /\ Head(q) \in EventSet /\ Head(q) = q[1] /\ 1 \in 1..Len(q)
         /\ Tail(q) \in Seq(EventSet) /\ Len(Tail(q)) = Len(q) - 1
         /\ \A i \in 1..Len(Tail(q)) : i + 1 \in 1..Len(q) /\ Tail(q)[i] = q[i + 1] /\ i + 1 # 1
         /\ \A i \in 1..Len(q) : i = 1 \/ (i - 1 \in 1..Len(Tail(q)) /\ Tail(q)[i - 1] = q[i])
<1>1. Len(q) \in Nat /\ Len(q) # 0
  OBVIOUS
<1>2. Head(q) \in EventSet /\ Head(q) = q[1] /\ 1 \in 1..Len(q)
  BY <1>1
<1>3. Tail(q) \in Seq(EventSet) /\ Len(Tail(q)) = Len(q) - 1
  BY <1>1
<1>4. \A i \in 1..Len(Tail(q)) : i + 1 \in 1..Len(q) /\ Tail(q)[i] = q[i + 1] /\ i + 1 # 1
  BY <1>1, <1>3
<1>5. \A i \in 1..Len(q) : i = 1 \/ (i - 1 \in 1..Len(Tail(q)) /\ Tail(q)[i - 1] = q[i])
  BY <1>1, <1>3
<1> QED BY <1>2, <1>3, <1>4, <1>5

LEMMA QueueTaken ==
  ASSUME NEW s, NEW q, QueueInv(s, q), q # << >>
  PROVE  /\ Head(q) \in EventSet /\ EventInv(s, Head(q)) /\ QueueInv(s, Tail(q))
         /\ Decisive(Head(q), s.att.id) /\ s.att.direct = "no" =>
              \A i \in 1..Len(Tail(q)) : ~Unreached(Tail(q)[i], s.att.id)
<1>1. q \in Seq(EventSet) /\ \A i \in 1..Len(q) : EventInv(s, q[i])
  BY DEF QueueInv
<1>2. s.att.direct = "no" =>
        \A i, j \in 1..Len(q) : Unreached(q[i], s.att.id) /\ Decisive(q[j], s.att.id) => i = j
  BY DEF QueueInv
<1> DEFINE p == Tail(q)
<1>3. /\ Head(q) \in EventSet /\ Head(q) = q[1] /\ 1 \in 1..Len(q) /\ p \in Seq(EventSet)
      /\ \A i \in 1..Len(p) : i + 1 \in 1..Len(q) /\ p[i] = q[i + 1] /\ i + 1 # 1
  BY <1>1, TailIs
<1>4. EventInv(s, Head(q))
  BY <1>1, <1>3
<1> HIDE DEF p
<1>5. \A i \in 1..Len(p) : EventInv(s, p[i])
  <2> TAKE i \in 1..Len(p)
  <2>1. i + 1 \in 1..Len(q) /\ p[i] = q[i + 1]
    BY <1>3
  <2> QED BY <1>1, <2>1
<1>6. ASSUME s.att.direct = "no", NEW i \in 1..Len(p), NEW j \in 1..Len(p),
             Unreached(p[i], s.att.id), Decisive(p[j], s.att.id)
      PROVE  i = j
  <2>1. i + 1 \in 1..Len(q) /\ j + 1 \in 1..Len(q) /\ p[i] = q[i + 1] /\ p[j] = q[j + 1]
    BY <1>3
  <2>2. i + 1 = j + 1
    BY <1>2, <1>6, <2>1
  <2>3. i \in Nat /\ j \in Nat
    BY <1>3
  <2> QED BY <2>2, <2>3
<1>7. QueueInv(s, p)
  BY <1>3, <1>5, <1>6 DEF QueueInv
<1>8. ASSUME Decisive(Head(q), s.att.id), s.att.direct = "no", NEW i \in 1..Len(p), Unreached(p[i], s.att.id)
      PROVE  FALSE
  <2>1. i + 1 \in 1..Len(q) /\ p[i] = q[i + 1] /\ i + 1 # 1
    BY <1>3
  <2> QED BY <1>2, <1>3, <1>8, <2>1
<1> QED BY <1>3, <1>4, <1>7, <1>8 DEF p

LEMMA QueueSettled ==
  ASSUME NEW s \in CallSet, NEW t \in CallSet, Settled(s, t), NEW q, QueueInv(s, q),
         \A i \in 1..Len(q) : ~Unreached(q[i], s.att.id)
  PROVE  QueueInv(t, q)
<1>1. q \in Seq(EventSet) /\ \A i \in 1..Len(q) : q[i] \in EventSet /\ EventInv(s, q[i])
  BY DEF QueueInv
<1>2. Onward(s, t) /\ (t.att.id = 0 \/ t.att.id > s.next \/ SameAttempt(s, t))
  BY DEF Settled
<1>3. \A i \in 1..Len(q) : EventInv(t, q[i])
  BY <1>1, <1>2, EventKept
<1>4. \A i \in 1..Len(q) : ~Unreached(q[i], t.att.id)
  <2> SUFFICES ASSUME NEW i \in 1..Len(q), Unreached(q[i], t.att.id) PROVE FALSE
    OBVIOUS
  <2>1. q[i].id # 0 /\ q[i].id <= s.next /\ q[i].id = t.att.id
    BY <1>1 DEF EventSet, EventInv, Unreached
  <2>2. s.next \in Nat /\ t.att.id \in Nat
    BY DEF CallSet, AttSet
  <2>3. SameAttempt(s, t)
    BY <1>2, <2>1, <2>2
  <2> QED BY <2>3 DEF SameAttempt
<1> QED BY <1>1, <1>3, <1>4 DEF QueueInv

LEMMA AppendIs ==
  ASSUME NEW q \in Seq(EventSet), NEW e \in EventSet
  PROVE  /\ Append(q, e) \in Seq(EventSet) /\ Len(Append(q, e)) = Len(q) + 1 /\ Len(q) + 1 \in 1..Len(Append(q, e))
         /\ \A i \in 1..Len(q) : i \in 1..Len(Append(q, e)) /\ Append(q, e)[i] = q[i]
         /\ Append(q, e)[Len(q) + 1] = e
         /\ \A i \in 1..Len(Append(q, e)) : i \in 1..Len(q) \/ i = Len(q) + 1
<1>1. Len(q) \in Nat
  OBVIOUS
<1>2. Append(q, e) \in Seq(EventSet) /\ Len(Append(q, e)) = Len(q) + 1
  OBVIOUS
<1>3. \A i \in 1..Len(q) : Append(q, e)[i] = q[i]
  OBVIOUS
<1>4. Append(q, e)[Len(q) + 1] = e
  OBVIOUS
<1> QED BY <1>1, <1>2, <1>3, <1>4

\* Two events of one reply cannot both be: its model answered, and did not.
Clear(d, e, id) ==
  /\ Unreached(d, id) => ~Decisive(e, id)
  /\ Unreached(e, id) => ~Decisive(d, id)

LEMMA QueueSent ==
  ASSUME NEW s, NEW q, QueueInv(s, q), NEW e \in EventSet, EventInv(s, e),
         s.att.direct = "no" => \A i \in 1..Len(q) : Clear(q[i], e, s.att.id)
  PROVE  QueueInv(s, Append(q, e))
<1>1. q \in Seq(EventSet) /\ \A i \in 1..Len(q) : EventInv(s, q[i])
  BY DEF QueueInv
<1>2. s.att.direct = "no" =>
        \A i, j \in 1..Len(q) : Unreached(q[i], s.att.id) /\ Decisive(q[j], s.att.id) => i = j
  BY DEF QueueInv
<1> DEFINE p == Append(q, e)
           n == Len(q) + 1
<1>3. /\ p \in Seq(EventSet) /\ p[n] = e
      /\ \A i \in 1..Len(q) : p[i] = q[i]
      /\ \A i \in 1..Len(p) : i \in 1..Len(q) \/ i = n
  BY <1>1, AppendIs
<1> HIDE DEF p, n
<1>4. \A i \in 1..Len(p) : EventInv(s, p[i])
  BY <1>1, <1>3
<1>5. ASSUME s.att.direct = "no", NEW i \in 1..Len(p), NEW j \in 1..Len(p),
             Unreached(p[i], s.att.id), Decisive(p[j], s.att.id)
      PROVE  i = j
  BY <1>2, <1>3, <1>5 DEF Clear, Decisive
<1> QED BY <1>3, <1>4, <1>5 DEF QueueInv, p

LEMMA TimedSent ==
  ASSUME NEW s, NEW q \in Seq(EventSet), Timed(s, q), NEW e \in EventSet
  PROVE  Timed(s, Append(q, e))
<1> DEFINE p == Append(q, e)
<1>1. \A i \in 1..Len(q) : i \in 1..Len(p) /\ p[i] = q[i]
  BY AppendIs
<1> HIDE DEF p
<1> QED BY <1>1 DEF Timed, p

LEMMA TimedTaken ==
  ASSUME NEW s, NEW q \in Seq(EventSet), q # << >>, Timed(s, q),
         ~(Head(q).type = "timeout" /\ Head(q).turn = s.turn)
  PROVE  Timed(s, Tail(q))
<1> DEFINE p == Tail(q)
<1>1. Head(q) = q[1] /\ \A i \in 1..Len(q) : i = 1 \/ (i - 1 \in 1..Len(p) /\ p[i - 1] = q[i])
  BY TailIs
<1> HIDE DEF p
<1> SUFFICES ASSUME s.open /\ s.st = "AwaitingFinal" /\ s.conf.texts \cap Echo = {}, s.timer # s.turn
             PROVE  \E i \in 1..Len(p) : p[i].type = "timeout" /\ p[i].turn = s.turn
  BY DEF Timed, p
<1>2. PICK i \in 1..Len(q) : q[i].type = "timeout" /\ q[i].turn = s.turn
  BY DEF Timed
<1>3. i - 1 \in 1..Len(p) /\ p[i - 1] = q[i]
  BY <1>1, <1>2
<1> QED BY <1>2, <1>3

LEMMA TimedKept ==
  ASSUME NEW s, NEW t, NEW q, Timed(s, q), Waits(s, t), t.conf = s.conf, s.open
  PROVE  Timed(t, q)
  BY DEF Timed, Waits

-----------------------------------------------------------------------------
(* Steps: a good change of the record, by itself, with an event taken, or   *)
(* with one sent                                                            *)

Holds == CoordInv' /\ CurrentActs

LEMMA StepActs ==
  ASSUME Moved(c, c'), Kept(c, c'),
         c'.att.kind # "none" /\ c'.next # c.next => Head(ev).turn = c.turn /\ ~c.cand /\ c.speech
  PROVE  CurrentActs
<1>1. Moved(c, c') /\ Kept(c, c')
  OBVIOUS
<1>2. c'.speech # c.speech \/ (c'.ending /\ ~c.ending /\ c'.hang # "absent") =>
        /\ c.turn \in c'.finals /\ (c.att.owner = c.turn \/ MinimumOn)
        /\ c.att.spec => <<c.att.hyp, c'.fin>> \in Similar
  BY <1>1, Zenon DEF Moved, MinimumOn
<1>3. /\ c'.turn = c.turn /\ c.fin # "" => c'.fin = c.fin
      /\ c.ending => /\ c'.turn = c.turn /\ c'.finals = c.finals
                     /\ c'.next # c.next => c'.att.direct # "no"
  BY <1>1, Zenon DEF Kept
<1> QED BY <1>2, <1>3, Zenon DEF CurrentActs

LEMMA InvFacts ==
  ASSUME NEW s, CallInv(s)
  PROVE  s \in CallSet
  BY DEF CallInv, CallTypes

LEMMA StepHolds ==
  ASSUME CoordInv, c.open, Step(c, c'), Follows(c, c'), UNCHANGED ev,
         c'.att.kind # "none" /\ c'.next # c.next => Head(ev).turn = c.turn /\ ~c.cand /\ c.speech
  PROVE  Holds
<1>1. CallInv(c) /\ QueueInv(c, ev) /\ Timed(c, ev)
  BY DEF CoordInv
<1>2. CallInv(c') /\ c'.conf = c.conf /\ Waits(c, c')
  BY DEF Step
<1>3. c \in CallSet /\ c' \in CallSet
  BY <1>1, <1>2, InvFacts
<1>4. QueueInv(c', ev)
  BY <1>1, <1>3, QueueKept
<1>5. Timed(c', ev)
  BY <1>1, <1>2, TimedKept
<1>6. CurrentActs
  BY StepActs DEF Step
<1>7. CallInv(c') /\ QueueInv(c', ev') /\ Timed(c', ev')
  BY <1>2, <1>4, <1>5
<1> QED BY <1>6, <1>7 DEF Holds, CoordInv

LEMMA GoodHolds ==
  ASSUME CoordInv, c.open, Good(c, c'), UNCHANGED ev
  PROVE  Holds
<1>1. Step(c, c') /\ Follows(c, c') /\ Reactive(c, c')
  BY DEF Good
<1>2. ~(c'.att.kind # "none" /\ c'.next # c.next)
  BY <1>1 DEF Reactive
<1> QED BY <1>1, <1>2, StepHolds

LEMMA FramesHold ==
  ASSUME CoordInv, Frames
  PROVE  Holds
<1>1. CallInv(c)
  BY DEF CoordInv
<1>2. ASSUME NEW reached \in BOOLEAN, SpeechFrame(reached) PROVE Holds
  <2>1. c.open /\ ~c.ending /\ UNCHANGED ev
    BY <1>2 DEF SpeechFrame
  <2>2. \/ c' = Candidate(c)
        \/ c.st \in Quiet /\ c' = Confirmed(c)
        \/ c' = [Resumed(c) EXCEPT !.silent = FALSE]
    BY <1>2 DEF SpeechFrame
  <2>3. Good(c, Candidate(c)) /\ Good(c, [Resumed(c) EXCEPT !.silent = FALSE])
    BY <1>1, CandidateDoes, ResumedGood
  <2>4. c.st \in Quiet => Good(c, Confirmed(c))
    BY <1>1, <2>1, ConfirmedGood
  <2>5. Good(c, c')
    BY <2>2, <2>3, <2>4
  <2> QED BY <2>1, <2>5, GoodHolds
<1>3. ASSUME NEW reached \in BOOLEAN, NEW tooShort \in BOOLEAN, SilentFrame(reached, tooShort) PROVE Holds
  <2>1. c.open /\ ~c.ending /\ UNCHANGED ev
    BY <1>3 DEF SilentFrame
  <2>2. CASE c' = [c EXCEPT !.cand = FALSE, !.pre = ""]
    <3> DEFINE t == [c EXCEPT !.cand = FALSE, !.pre = ""]
               e == ""
    <3>1. e \in TextSet
      BY Blank
    <3>2. c \in CallSet
      BY <1>1, InvFacts
    <3>3. t = [c EXCEPT !.cand = FALSE, !.pre = e]
      OBVIOUS
    <3> HIDE DEF e
    <3>4. /\ t \in CallSet /\ t.att = c.att /\ t.pl = c.pl /\ t.next = c.next /\ t.conf = c.conf
          /\ t.speech = c.speech /\ t.hang = c.hang /\ t.open = c.open /\ t.fin = c.fin /\ t.turn = c.turn
          /\ t.finals = c.finals /\ t.ending = c.ending /\ t.st = c.st /\ t.timer = c.timer
          /\ t.rev = c.rev /\ t.eng = c.eng /\ t.cand = FALSE
      <4> HIDE DEF t
      <4> QED BY <3>1, <3>2, <3>3, ZenonT(60) DEF CallSet
    <3> HIDE DEF t
    <3>5. Current(t)
      BY <1>1, <3>4 DEF CallInv, Current
    <3>6. c.rev <= t.rev
      <4>1. c.rev \in Nat
        BY <3>2 DEF CallSet
      <4>2. t.rev = c.rev
        BY <3>4
      <4> QED BY <4>1, <4>2
    <3>7. t.rev = c.rev => (t.cand => c.cand)
      BY <3>4
    <3>8. Good(c, t)
      BY <1>1, <3>4, <3>5, <3>6, <3>7, ListenGood
    <3> QED BY <2>1, <2>2, <3>8, GoodHolds DEF t
  <2>3. CASE c.st \in Hearing /\ c' \in {[Flushed(c) EXCEPT !.silent = TRUE], Committed(Flushed(c))}
    <3>1. Good(c, [Flushed(c) EXCEPT !.silent = TRUE]) /\ Good(c, Committed(Flushed(c)))
      BY <1>1, <2>3, SilenceGood
    <3>2. Good(c, c')
      BY <2>3, <3>1
    <3> QED BY <2>1, <3>2, GoodHolds
  <2>4. CASE c.st \in Hearing /\ MinimumOn /\ c' = Discarded(Flushed(c))
    <3>1. Good(c, Discarded(Flushed(c)))
      BY <1>1, <2>4, SilenceGood
    <3> QED BY <2>1, <2>4, <3>1, GoodHolds
  <2> QED BY <1>3, <2>2, <2>3, <2>4, Zenon DEF SilentFrame
<1>4. ASSUME InvalidFrame PROVE Holds
  <2>1. Good(c, Fail(c))
    BY <1>1, FailGood
  <2> QED BY <1>4, <2>1, GoodHolds DEF InvalidFrame
<1> QED BY <1>2, <1>3, <1>4 DEF Frames

LEMMA AsrHolds ==
  ASSUME CoordInv, Asr, ~AsrError
  PROVE  Holds
<1>1. CallInv(c)
  BY DEF CoordInv
<1>2. c.conf \in Configs
  BY <1>1, TextsOf
<1>3. Texts \subseteq TextSet /\ Texts \cup {""} \subseteq TextSet
  BY <1>2, Blank, Zenon DEF Texts, TextSet
<1>4. ASSUME NEW text \in Texts, AsrPartial(text) PROVE Holds
  <2>1. Good(c, Partial(c, text))
    BY <1>1, <1>3, PartialGood
  <2> QED BY <1>4, <2>1, GoodHolds DEF AsrPartial, Fresh
<1>5. ASSUME NEW turn, NEW text \in Texts, NEW revision, AsrHypothesis(turn, revision, text) PROVE Holds
  <2>1. Good(c, Hypothesis(c, turn, revision, text))
    BY <1>1, <1>3, HypothesisGood
  <2> QED BY <1>5, <2>1, GoodHolds DEF AsrHypothesis, Fresh
<1>6. ASSUME NEW turn, NEW text \in TextSet, AsrFinal(turn, text) PROVE Holds
  <2>1. Good(c, FinalText(c, turn, text))
    BY <1>1, FinalTextGood
  <2> QED BY <1>6, <2>1, GoodHolds DEF AsrFinal
<1>7. ASSUME NEW turn, AsrUnavailable(turn) PROVE Holds
  <2>1. Good(c, Unavailable(c, turn))
    BY <1>1, UnavailableGood
  <2> QED BY <1>7, <2>1, GoodHolds DEF AsrUnavailable
<1> QED BY <1>3, <1>4, <1>5, <1>6, <1>7, Zenon DEF Asr

\* The loop is left: nothing is pending and nothing waits.
LEMMA LeftHolds ==
  ASSUME CoordInv, ~c'.open, ev' = << >>, Base(c'), c'.att.id = 0, c'.conf = c.conf, c'.speech = c.speech,
         c'.turn = c.turn, c'.fin = c.fin, c'.finals = c.finals, c'.next = c.next,
         c'.ending => c.ending /\ c'.st \in Quiet
  PROVE  Holds
<1>1. CallInv(c')
  BY FreeInv
<1>2. Moved(c, c')
  BY DEF Moved
<1>3. Kept(c, c')
  BY Zenon DEF Kept
<1>4. CurrentActs
  BY <1>2, <1>3, StepActs
<1>5. QueueInv(c', ev')
  BY DEF QueueInv
<1>6. Timed(c', ev')
  BY DEF Timed
<1> QED BY <1>1, <1>4, <1>5, <1>6 DEF Holds, CoordInv

LEMMA AsrErrorHolds ==
  ASSUME CoordInv, AsrError
  PROVE  Holds
<1> DEFINE f == Fail(c)
           t == [f EXCEPT !.open = FALSE]
<1>1. CallInv(c) /\ c' = t /\ ev' = << >>
  BY DEF CoordInv, AsrError
<1>2. Dropped(c, f) /\ ~f.ending
  BY <1>1, FailGood
<1>3. Base(f) /\ f.att.id = 0
  BY <1>1, <1>2, DroppedDoes
<1>4. f \in CallSet
  BY <1>2 DEF Dropped
<1>5. f.conf = c.conf /\ f.speech = c.speech /\ f.turn = c.turn /\ f.fin = c.fin /\ f.finals = c.finals /\ f.next = c.next
  BY <1>2 DEF Dropped
<1> HIDE DEF f
<1>6. /\ t \in CallSet /\ ~t.open /\ t.att = f.att /\ t.pl = f.pl /\ t.next = f.next /\ t.fin = f.fin /\ t.turn = f.turn
      /\ t.finals = f.finals /\ t.conf = f.conf /\ t.speech = f.speech /\ t.ending = f.ending
      /\ t.eng = f.eng /\ t.rev = f.rev /\ t.cand = f.cand
  BY <1>4, ZenonT(60) DEF CallSet
<1> HIDE DEF t
<1>7. Current(t)
  BY <1>3, <1>6 DEF Base, Current
<1>8. Base(t)
  BY <1>3, <1>6, <1>7, BaseFrom
<1> QED BY <1>1, <1>2, <1>3, <1>5, <1>6, <1>8, LeftHolds

LEMMA CloseHolds ==
  ASSUME CoordInv, Close
  PROVE  Holds
<1> DEFINE n == Invalidate(c)
           f == Cancel(n)
           p == Cleared(f.pl)
           t == [f EXCEPT !.timer = 0, !.pl = p, !.open = FALSE]
<1>1. CallInv(c) /\ c' = t /\ ev' = << >>
  BY DEF CoordInv, Close, Shutdown
<1>2. c \in CallSet /\ Base(c)
  BY <1>1, InvFacts, CallBase
<1>3. /\ n \in CallSet /\ n.conf = c.conf /\ n.st = c.st /\ n.turn = c.turn /\ n.next = c.next /\ n.fin = c.fin
      /\ n.speech = c.speech /\ n.ending = c.ending /\ n.eng = NoTask /\ n.finals = c.finals
      /\ n.pl = c.pl /\ n.att = c.att
  BY <1>2, InvalidateDoes
<1> HIDE DEF n
<1>4. /\ f \in CallSet /\ f.conf = n.conf /\ f.st = n.st /\ f.turn = n.turn /\ f.next = n.next /\ f.fin = n.fin
      /\ f.speech = n.speech /\ f.ending = n.ending /\ f.eng = n.eng /\ f.finals = n.finals /\ f.att = NoAtt
  BY <1>3, CancelDoes
<1>5. Base(n)
  <2>1. Current(n)
    BY <1>3 DEF Current
  <2> QED BY <1>2, <1>3, <2>1, BaseFrom
<1>6. Base(f)
  BY <1>5, CancelBase
<1> HIDE DEF f
<1>7. p \in PlSet /\ p.id = 0 /\ p.highest = f.pl.highest
  <2>1. f.pl \in PlSet
    BY <1>4 DEF CallSet
  <2> QED BY <2>1 DEF PlSet, Cleared, NoAttempt
<1> HIDE DEF p
<1>8. /\ t \in CallSet /\ ~t.open /\ t.att = f.att /\ t.pl = p /\ t.next = f.next /\ t.fin = f.fin /\ t.turn = f.turn
      /\ t.finals = f.finals /\ t.conf = f.conf /\ t.speech = f.speech /\ t.ending = f.ending
      /\ t.eng = f.eng /\ t.st = f.st
  <2>1. f \in CallSet /\ p \in PlSet
    BY <1>4, <1>7
  <2> QED BY <2>1, ZenonT(60) DEF CallSet
<1> HIDE DEF t
<1>9. Base(t) /\ t.att.id = 0
  <2>1. t.att.id = 0 /\ t.att = NoAtt
    BY <1>4, <1>8, Blank
  <2>2. t.pl.highest <= t.next
    BY <1>6, <1>7, <1>8 DEF Base, CallTypes
  <2>3. t.next \in Nat
    BY <1>8 DEF CallSet
  <2>4. t.att.id <= t.next
    BY <2>1, <2>3
  <2>5. CallTypes(t)
    BY <1>8, <2>1, <2>2, <2>4 DEF CallTypes
  <2>6. Current(t)
    BY <1>3, <1>4, <1>8 DEF Current
  <2>7. t.pl.id # 0 => t.pl.id = t.att.id \/ t.pl.ended
    BY <1>7, <1>8
  <2>8. f.fin # "" => f.turn \in f.finals
    BY <1>6, Zenon DEF Base
  <2>9. t.fin # "" => t.turn \in t.finals
    BY <1>8, <2>8, Zenon
  <2> QED BY <2>1, <2>5, <2>6, <2>7, <2>9, Zenon DEF Base
<1>10. c.ending => c.st \in Quiet
  BY <1>1 DEF CallInv, Closing
<1> QED BY <1>1, <1>3, <1>4, <1>8, <1>9, <1>10, LeftHolds

LEMMA ThenAlike ==
  ASSUME NEW s, CallInv(s), NEW r, Good(s, r), NEW t \in CallSet, Alike(r, t), t.timer = r.timer
  PROVE  Good(s, t)
<1>1. Step(s, r) /\ Follows(s, r) /\ Reactive(s, r) /\ CallInv(r)
  BY DEF Good, Step
<1>2. s \in CallSet /\ r \in CallSet
  BY <1>1, InvFacts
<1>3. CallInv(t)
  BY <1>1, AlikeInv
<1>4. Follows(s, t)
  <2>1. Follows(r, t)
    BY <1>2, AlikeFollows
  <2> QED BY <1>1, <1>2, <2>1, FollowsOn
<1>5. r.conf = s.conf /\ Waits(s, r) /\ Moved(s, r) /\ Kept(s, r)
  BY <1>1 DEF Step
<1>6. Waits(s, t)
  BY <1>5 DEF Waits, Alike
<1>7. Moved(s, t)
  BY <1>5 DEF Moved, Alike
<1>8. Kept(s, t)
  BY <1>5, Zenon DEF Kept, Alike
<1>9. Reactive(s, t) /\ t.conf = s.conf
  BY <1>1, <1>5 DEF Reactive, Alike
<1> QED BY <1>3, <1>4, <1>6, <1>7, <1>8, <1>9 DEF Good, Step

LEMMA OpeningHolds ==
  ASSUME CoordInv, Opening
  PROVE  Holds
<1> DEFINE e == ""
           b == Begin(c, e, TRUE, "verbatim")
           t == [b EXCEPT !.opened = TRUE]
<1>1. CallInv(c) /\ c.open /\ c.turn = 0 /\ c.att.id = 0 /\ c' = t /\ UNCHANGED ev
  BY DEF CoordInv, Opening
<1>2. e \in TextSet
  BY Blank
<1> HIDE DEF e
<1>3. Base(c)
  BY <1>1, CallBase
<1>4. Onward(c, c) /\ Moved(c, c) /\ Kept(c, c)
  BY <1>1, SameGood DEF Good, Step, Follows
<1>5. ~c.att.endReq
  BY <1>1, Blank DEF CallInv, CallTypes
<1>6. c.ending => (c.open => c.hang # "no" \/ Forgets(c))
  BY <1>1, <1>5 DEF CallInv, Closing
<1>7. c.turn \in c.finals \cup {0}
  BY <1>1
<1>8. Good(c, b)
  BY <1>1, <1>2, <1>3, <1>4, <1>6, <1>7, ReplyGood
<1> HIDE DEF b
<1>9. b \in CallSet
  BY <1>8, InvFacts DEF Good, Step
<1>10. t \in CallSet /\ Alike(b, t) /\ t.timer = b.timer
  BY <1>9 DEF CallSet, Alike
<1> HIDE DEF t
<1>11. Good(c, t)
  BY <1>1, <1>8, <1>10, ThenAlike
<1> QED BY <1>1, <1>11, GoodHolds

LEMMA EndCallFailedHolds ==
  ASSUME CoordInv, EndCallFailed
  PROVE  Holds
<1> DEFINE b == c.hang = "absent"
           t == [c EXCEPT !.ending = FALSE, !.hang = "no", !.closeAt = b]
<1>1. CallInv(c) /\ c.open /\ c' = t /\ UNCHANGED ev
  BY DEF CoordInv, EndCallFailed, Fresh
<1>2. c \in CallSet /\ b \in BOOLEAN
  BY <1>1, InvFacts
<1> HIDE DEF b
<1>3. /\ t \in CallSet /\ t.att = c.att /\ t.pl = c.pl /\ t.next = c.next /\ t.conf = c.conf
      /\ t.speech = c.speech /\ t.open = c.open /\ t.fin = c.fin /\ t.turn = c.turn
      /\ t.finals = c.finals /\ ~t.ending /\ t.st = c.st /\ t.timer = c.timer
      /\ t.rev = c.rev /\ t.eng = c.eng /\ t.cand = c.cand
  <2>1. t \in CallSet
    BY <1>2, ZenonT(60) DEF CallSet
  <2> QED BY <1>2, <2>1 DEF CallSet
<1> HIDE DEF t
<1>4. CallInv(t)
  <2>1. CallTypes(t)
    BY <1>1, <1>3 DEF CallInv, CallTypes
  <2>2. OnePlayout(t) /\ ForFinal(t)
    BY <1>1, <1>3 DEF CallInv, OnePlayout, ForFinal
  <2>3. Kinds(t) /\ Current(t)
    BY <1>1, <1>3 DEF CallInv, Kinds, Current
  <2>4. Replies(t)
    BY <1>1, <1>3, Zenon DEF CallInv, Replies
  <2>5. Closing(t)
    BY <1>3 DEF Closing
  <2> QED BY <2>1, <2>2, <2>3, <2>4, <2>5 DEF CallInv
<1>5. Follows(c, t)
  <2>1. c.next \in Nat /\ c.rev \in Nat
    BY <1>2 DEF CallSet
  <2>2. Onward(c, t)
    BY <1>3, <2>1 DEF Onward
  <2>3. SameAttempt(c, t) /\ Undecided(c, t)
    BY <1>3 DEF SameAttempt, Undecided
  <2> QED BY <2>2, <2>3 DEF Follows
<1>6. Waits(c, t) /\ Moved(c, t) /\ Reactive(c, t)
  BY <1>3 DEF Waits, Moved, Reactive
<1>7. Kept(c, t)
  BY <1>3, Zenon DEF Kept
<1>8. Good(c, t)
  BY <1>3, <1>4, <1>5, <1>6, <1>7 DEF Good, Step
<1> QED BY <1>1, <1>8, GoodHolds

LEMMA RoomHolds ==
  ASSUME CoordInv, Room
  PROVE  Holds
<1>1. ASSUME NEW text \in Texts, CallerText(text) PROVE Holds
  <2>1. CallInv(c)
    BY DEF CoordInv
  <2>2. Good(c, Text(c, text))
    BY <2>1, TextGood
  <2> QED BY <1>1, <2>2, GoodHolds DEF CallerText, Fresh
<1> QED BY <1>1, OpeningHolds, EndCallFailedHolds, CloseHolds DEF Room

LEMMA PrepareHolds ==
  ASSUME CoordInv, NEW kind \in {"idle", "close"}, c.open, IdleSafe(c), Prepare(kind)
  PROVE  Holds
<1> DEFINE task == [rev |-> c.rev, kind |-> kind, turn |-> c.turn]
           n == IF kind = "idle" THEN c.checks + 1 ELSE c.checks
           t == [c EXCEPT !.eng = task, !.checks = n]
<1>1. CallInv(c) /\ c' = t /\ UNCHANGED ev /\ ~c.cand
  BY DEF CoordInv, Prepare, IdleSafe
<1>2. c \in CallSet
  BY <1>1, InvFacts
<1>3. c.rev \in Nat /\ c.turn \in Nat /\ c.checks \in Nat
  BY <1>2 DEF CallSet
<1>4. n \in Nat /\ task \in TaskSet /\ task.rev = c.rev /\ task.turn = c.turn
  BY <1>3 DEF TaskSet
<1> HIDE DEF n, task
<1>5. /\ t \in CallSet /\ t.att = c.att /\ t.pl = c.pl /\ t.next = c.next /\ t.conf = c.conf
      /\ t.speech = c.speech /\ t.hang = c.hang /\ t.open = c.open /\ t.fin = c.fin /\ t.turn = c.turn
      /\ t.finals = c.finals /\ t.ending = c.ending /\ t.st = c.st /\ t.timer = c.timer
      /\ t.rev = c.rev /\ t.eng = task /\ t.cand = c.cand
  BY <1>2, <1>4 DEF CallSet
<1> HIDE DEF t
<1>6. Current(t)
  BY <1>1, <1>4, <1>5 DEF Current
<1>7. c.rev <= t.rev
  BY <1>3, <1>5
<1>8. Good(c, t)
  BY <1>1, <1>5, <1>6, <1>7, ListenGood
<1> QED BY <1>1, <1>8, GoodHolds

LEMMA TakenHolds ==
  ASSUME CoordInv, c.open, ev # << >>, ev' = Tail(ev), Step(c, c'), QueueInv(c', Tail(ev)),
         Head(ev).type = "timeout" /\ Head(ev).turn = c.turn => c'.st # "AwaitingFinal",
         c'.att.kind # "none" /\ c'.next # c.next => Head(ev).turn = c.turn /\ ~c.cand /\ c.speech
  PROVE  Holds
<1>1. QueueInv(c, ev) /\ Timed(c, ev)
  BY DEF CoordInv
<1>2. CallInv(c') /\ c'.conf = c.conf /\ Waits(c, c') /\ Moved(c, c') /\ Kept(c, c')
  BY DEF Step
<1>3. CurrentActs
  BY <1>2, StepActs
<1>4. Timed(c', ev')
  <2>1. CASE c'.st # "AwaitingFinal"
    BY <2>1 DEF Timed
  <2>2. CASE c'.st = "AwaitingFinal"
    <3>1. ev \in Seq(EventSet)
      BY <1>1 DEF QueueInv
    <3>2. Timed(c, Tail(ev))
      BY <1>1, <2>2, <3>1, TimedTaken
    <3>3. Timed(c', Tail(ev))
      BY <1>2, <3>2, TimedKept
    <3> QED BY <3>3
  <2> QED BY <2>1, <2>2
<1>5. QueueInv(c', ev')
  OBVIOUS
<1> QED BY <1>2, <1>3, <1>4, <1>5 DEF Holds, CoordInv

LEMMA EventIs ==
  ASSUME NEW e \in EventSet
  PROVE  /\ e.type \in {"grace", "stable", "timeout", "engage", "token", "tool", "audio", "done"}
         /\ e.type = "grace" => e.turn \in Nat /\ e.text \in TextSet \ {""} /\ e.waited \in BOOLEAN
         /\ e.type = "stable" => e.text \in TextSet
         /\ e.type \in {"token", "audio", "tool", "done"} => e.id \in Nat \ {0}
  BY DEF EventSet

LEMMA GoodTaken ==
  ASSUME CoordInv, c.open, ev # << >>, ev' = Tail(ev), Good(c, c'),
         Head(ev).type = "timeout" /\ Head(ev).turn = c.turn => c'.st # "AwaitingFinal"
  PROVE  Holds
<1>1. Step(c, c') /\ Follows(c, c') /\ Reactive(c, c')
  BY DEF Good
<1>2. ~(c'.att.kind # "none" /\ c'.next # c.next)
  BY <1>1 DEF Reactive
<1>3. CallInv(c) /\ QueueInv(c, ev) /\ CallInv(c')
  BY <1>1 DEF CoordInv, Step
<1>4. c \in CallSet /\ c' \in CallSet
  BY <1>3, InvFacts
<1>5. QueueInv(c, Tail(ev))
  BY <1>3, QueueTaken
<1>6. QueueInv(c', Tail(ev))
  BY <1>1, <1>4, <1>5, QueueKept
<1> QED BY <1>1, <1>2, <1>6, TakenHolds

LEMMA InternalHolds ==
  ASSUME CoordInv, HandleInternal
  PROVE  Holds
<1> DEFINE e == Head(ev)
<1>1. c.open /\ ev # << >> /\ c' = Internal(c, e) /\ ev' = Tail(ev)
  BY DEF HandleInternal
<1>2. CallInv(c) /\ QueueInv(c, ev)
  BY DEF CoordInv
<1>3. /\ e \in EventSet /\ EventInv(c, e) /\ QueueInv(c, Tail(ev))
      /\ Decisive(e, c.att.id) /\ c.att.direct = "no" =>
           \A i \in 1..Len(Tail(ev)) : ~Unreached(Tail(ev)[i], c.att.id)
  BY <1>1, <1>2, QueueTaken
<1>4. c \in CallSet
  BY <1>2, InvFacts
<1>5. ASSUME Good(c, c'), e.type # "timeout" PROVE Holds
  BY <1>1, <1>5, GoodTaken
<1>6. CASE e.type = "grace"
  <2>1. e.turn \in Nat /\ e.text \in TextSet \ {""} /\ e.waited \in BOOLEAN
    BY <1>3, <1>6, EventIs
  <2> HIDE DEF e
  <2>2. Good(c, FinalAfterGrace(c, e))
    BY <1>2, <2>1, GraceGood
  <2>3. c' = FinalAfterGrace(c, e)
    BY <1>1, <1>6 DEF Internal
  <2> QED BY <1>5, <1>6, <2>2, <2>3
<1>7. CASE e.type = "stable"
  <2>1. e.text \in TextSet
    BY <1>3, <1>7, EventIs
  <2> HIDE DEF e
  <2>2. Good(c, Stable(c, e))
    BY <1>2, <2>1, StableGood
  <2>3. c' = Stable(c, e)
    BY <1>1, <1>7 DEF Internal
  <2> QED BY <1>5, <1>7, <2>2, <2>3
<1>8. CASE e.type = "timeout"
  <2> DEFINE t == Unavailable(c, e.turn)
  <2>1. Good(c, t) /\ (e.turn = c.turn => t.st # "AwaitingFinal")
    BY <1>2, UnavailableGood
  <2>2. c' = t
    <3> HIDE DEF e
    <3> QED BY <1>1, <1>8 DEF Internal
  <2> HIDE DEF t
  <2> QED BY <1>1, <2>1, <2>2, GoodTaken
<1>9. CASE e.type = "engage"
  <2> DEFINE t == EngagementReady(c, e)
  <2>1. c' = t
    <3> HIDE DEF e
    <3> QED BY <1>1, <1>9 DEF Internal
  <2>2. Step(c, t) /\ Follows(c, t) /\ (t.next # c.next => e.turn = c.turn /\ ~c.cand /\ c.speech)
    BY <1>2, <1>3, <1>9, EngagementSettles
  <2> HIDE DEF t
  <2>3. t \in CallSet
    BY <2>2, InvFacts DEF Step
  <2>4. QueueInv(t, Tail(ev))
    BY <1>3, <1>4, <2>2, <2>3, QueueKept
  <2> QED BY <1>1, <1>9, <2>1, <2>2, <2>4, TakenHolds
<1>10. CASE e.type = "token"
  <2>1. e.id \in Nat \ {0}
    BY <1>3, <1>10, EventIs
  <2> HIDE DEF e
  <2>2. Good(c, Token(c, e.id))
    BY <1>2, <2>1, TokenGood
  <2>3. c' = Token(c, e.id)
    BY <1>1, <1>10 DEF Internal
  <2> QED BY <1>5, <1>10, <2>2, <2>3
<1>11. CASE e.type = "audio"
  <2>1. e.id \in Nat \ {0}
    BY <1>3, <1>11, EventIs
  <2> HIDE DEF e
  <2>2. Good(c, AudioStart(c, e.id))
    BY <1>2, <2>1, AudioStartGood
  <2>3. c' = AudioStart(c, e.id)
    BY <1>1, <1>11 DEF Internal
  <2> QED BY <1>5, <1>11, <2>2, <2>3
<1>12. CASE e.type = "done"
  <2> HIDE DEF e
  <2>2. Good(c, Done(c, e.id, e.res))
    BY <1>2, <1>3, <1>12, DoneGood
  <2>3. c' = Done(c, e.id, e.res)
    BY <1>1, <1>12 DEF Internal
  <2> QED BY <1>5, <1>12, <2>2, <2>3
<1>13. CASE e.type = "tool"
  <2> DEFINE t == Tool(c, e.id, e.tool)
  <2>1. c' = t
    <3> HIDE DEF e
    <3> QED BY <1>1, <1>13 DEF Internal
  <2>2. Settled(c, t) /\ (Good(c, t) \/ (Decisive(e, c.att.id) /\ c.att.direct = "no"))
    BY <1>2, <1>3, <1>13, ToolSettles
  <2> HIDE DEF t
  <2>3. CASE Good(c, t)
    BY <1>5, <1>13, <2>1, <2>3
  <2>4. CASE Decisive(e, c.att.id) /\ c.att.direct = "no"
    <3>1. Step(c, t) /\ Reactive(c, t)
      BY <2>2 DEF Settled
    <3>2. t \in CallSet
      BY <3>1, InvFacts DEF Step
    <3>3. QueueInv(t, Tail(ev))
      BY <1>3, <1>4, <2>2, <2>4, <3>2, QueueSettled
    <3>4. ~(t.att.kind # "none" /\ t.next # c.next)
      BY <3>1 DEF Reactive
    <3> QED BY <1>1, <1>13, <2>1, <3>1, <3>3, <3>4, TakenHolds
  <2> QED BY <2>2, <2>3, <2>4
<1>14. e.type \in {"grace", "stable", "timeout", "engage", "token", "tool", "audio", "done"}
  BY <1>3, EventIs
<1> QED BY <1>6, <1>7, <1>8, <1>9, <1>10, <1>11, <1>12, <1>13, <1>14

LEMMA SentHolds ==
  ASSUME CoordInv, c.open, Good(c, c'), NEW e \in EventSet, EventInv(c', e), ev' = Append(ev, e),
         \/ ~Decisive(e, c'.att.id)
         \/ c'.att.direct = "no" => \A i \in 1..Len(ev) : Clear(ev[i], e, c'.att.id)
  PROVE  Holds
<1>1. Step(c, c') /\ Follows(c, c') /\ Reactive(c, c')
  BY DEF Good
<1>2. CallInv(c) /\ QueueInv(c, ev) /\ Timed(c, ev)
  BY DEF CoordInv
<1>3. CallInv(c') /\ c'.conf = c.conf /\ Waits(c, c') /\ Moved(c, c') /\ Kept(c, c')
  BY <1>1 DEF Step
<1>4. ~(c'.att.kind # "none" /\ c'.next # c.next)
  BY <1>1 DEF Reactive
<1>5. CurrentActs
  BY <1>3, <1>4, StepActs
<1>6. c \in CallSet /\ c' \in CallSet /\ ev \in Seq(EventSet)
  BY <1>2, <1>3, InvFacts DEF QueueInv
<1>7. QueueInv(c', ev)
  BY <1>1, <1>2, <1>6, QueueKept
<1>8. QueueInv(c', Append(ev, e))
  <2>1. ~Decisive(e, c'.att.id) => \A i \in 1..Len(ev) : Clear(ev[i], e, c'.att.id)
    BY DEF Clear, Decisive
  <2> QED BY <1>7, <2>1, QueueSent
<1>9. Timed(c', ev)
  BY <1>2, <1>3, TimedKept
<1>10. Timed(c', Append(ev, e))
  BY <1>6, <1>9, TimedSent
<1>11. QueueInv(c', ev') /\ Timed(c', ev')
  BY <1>8, <1>10
<1> QED BY <1>3, <1>5, <1>11 DEF Holds, CoordInv

LEMMA StableFiresHolds ==
  ASSUME CoordInv, StableFires
  PROVE  Holds
<1> DEFINE t == [c EXCEPT !.stable = NoTimer]
           e == [type |-> "stable", turn |-> c.stable.turn, text |-> c.stable.text]
<1>1. CallInv(c) /\ c.open /\ c' = t /\ ev' = Append(ev, e)
  BY DEF CoordInv, StableFires, Sends
<1>2. c \in CallSet
  BY <1>1, InvFacts
<1>3. c.stable \in TimerSet /\ NoTimer \in TimerSet
  BY <1>2, Blank DEF CallSet
<1>4. t \in CallSet /\ Alike(c, t) /\ t.timer = c.timer
  BY <1>2, <1>3 DEF CallSet, Alike
<1>5. c.stable.turn \in Nat /\ c.stable.text \in TextSet
  BY <1>3 DEF TimerSet
<1>6. e \in EventSet
  BY <1>5 DEF EventSet
<1>7. e.type = "stable"
  OBVIOUS
<1> HIDE DEF t, e
<1>8. EventInv(t, e) /\ ~Decisive(e, t.att.id)
  BY <1>7 DEF EventInv, Decisive, Unreached
<1>9. Good(c, t)
  BY <1>1, <1>4, AlikeGood
<1> QED BY <1>1, <1>6, <1>8, <1>9, SentHolds

LEMMA GraceFiresHolds ==
  ASSUME CoordInv, NEW g \in c.graces, GraceFires(g)
  PROVE  Holds
<1> DEFINE t == [c EXCEPT !.graces = @ \ {g}]
           e == [type |-> "grace", turn |-> g.turn, text |-> g.text, waited |-> g.waited]
<1>1. CallInv(c) /\ c.open /\ c' = t /\ ev' = Append(ev, e)
  BY DEF CoordInv, GraceFires, Sends
<1>2. c \in CallSet
  BY <1>1, InvFacts
<1>3. c.graces \subseteq [turn : Nat, text : TextSet \ {""}, waited : BOOLEAN]
  BY <1>2 DEF CallSet
<1>4. t \in CallSet /\ Alike(c, t) /\ t.timer = c.timer
  <2> DEFINE gs == c.graces \ {g}
  <2>1. gs \in SUBSET [turn : Nat, text : TextSet \ {""}, waited : BOOLEAN]
    BY <1>3
  <2>2. t = [c EXCEPT !.graces = gs]
    OBVIOUS
  <2> HIDE DEF gs
  <2> QED BY <1>2, <2>1, <2>2 DEF CallSet, Alike
<1>5. g.turn \in Nat /\ g.text \in TextSet \ {""} /\ g.waited \in BOOLEAN
  BY <1>3
<1>6. e \in EventSet
  BY <1>5 DEF EventSet
<1>7. e.type = "grace"
  OBVIOUS
<1> HIDE DEF t, e
<1>8. EventInv(t, e) /\ ~Decisive(e, t.att.id)
  BY <1>7 DEF EventInv, Decisive, Unreached
<1>9. Good(c, t)
  BY <1>1, <1>4, AlikeGood
<1> QED BY <1>1, <1>6, <1>8, <1>9, SentHolds

\* The safety timer of the wait moves into the channel.
LEMMA FinalTimeoutHolds ==
  ASSUME CoordInv, FinalTimeout
  PROVE  Holds
<1> DEFINE t == [c EXCEPT !.timer = 0]
           e == [type |-> "timeout", turn |-> c.timer]
<1>1. CallInv(c) /\ QueueInv(c, ev) /\ Timed(c, ev) /\ c.open /\ c' = t /\ ev' = Append(ev, e)
  BY DEF CoordInv, FinalTimeout, Sends
<1>2. c \in CallSet /\ ev \in Seq(EventSet)
  BY <1>1, InvFacts DEF QueueInv
<1>3. t \in CallSet /\ Alike(c, t)
  BY <1>2 DEF CallSet, Alike
<1>4. c.timer \in Nat
  BY <1>2 DEF CallSet
<1>5. e \in EventSet
  BY <1>4 DEF EventSet
<1>6. e.type = "timeout" /\ e.turn = c.timer
  OBVIOUS
<1> HIDE DEF t, e
<1>7. EventInv(t, e) /\ ~Decisive(e, t.att.id)
  BY <1>6 DEF EventInv, Decisive, Unreached
<1>8. CallInv(t) /\ Follows(c, t)
  BY <1>1, <1>2, <1>3, AlikeInv, AlikeFollows
<1>9. Moved(c, t) /\ Kept(c, t) /\ t.next = c.next
  BY <1>3 DEF Moved, Kept, Alike
<1>10. CurrentActs
  BY <1>1, <1>9, StepActs
<1>11. QueueInv(t, Append(ev, e))
  <2>1. QueueInv(t, ev)
    BY <1>1, <1>2, <1>3, <1>8, QueueKept
  <2>2. \A i \in 1..Len(ev) : Clear(ev[i], e, t.att.id)
    BY <1>7 DEF Clear, Decisive
  <2> QED BY <1>5, <1>7, <2>1, <2>2, QueueSent
<1>12. Timed(t, Append(ev, e))
  <2> DEFINE q == Append(ev, e)
             n == Len(ev) + 1
  <2>1. /\ n \in 1..Len(q) /\ q[n] = e
        /\ \A i \in 1..Len(ev) : i \in 1..Len(q) /\ q[i] = ev[i]
    BY <1>2, <1>5, AppendIs
  <2> HIDE DEF q, n
  <2> SUFFICES ASSUME t.open /\ t.st = "AwaitingFinal" /\ t.conf.texts \cap Echo = {}
               PROVE  \E i \in 1..Len(q) : q[i].type = "timeout" /\ q[i].turn = t.turn
    BY DEF Timed, q
  <2>2. c.open /\ c.st = "AwaitingFinal" /\ c.conf.texts \cap Echo = {} /\ t.turn = c.turn
    BY <1>3 DEF Alike
  <2>3. CASE c.timer = c.turn
    BY <1>6, <2>1, <2>2, <2>3
  <2>4. CASE c.timer # c.turn
    <3>1. PICK i \in 1..Len(ev) : ev[i].type = "timeout" /\ ev[i].turn = c.turn
      BY <1>1, <2>2, <2>4 DEF Timed
    <3> QED BY <2>1, <2>2, <3>1
  <2> QED BY <2>3, <2>4
<1>13. QueueInv(c', ev') /\ Timed(c', ev') /\ CallInv(c')
  BY <1>1, <1>8, <1>11, <1>12
<1> QED BY <1>10, <1>13 DEF Holds, CoordInv

LEMMA PreparedHolds ==
  ASSUME CoordInv, NEW res \in {"speak", "silent"}, Prepared(res)
  PROVE  Holds
<1> DEFINE t == [c EXCEPT !.eng = NoTask]
           e == [type |-> "engage", rev |-> c.eng.rev, kind |-> c.eng.kind, turn |-> c.eng.turn, res |-> res]
<1>1. CallInv(c) /\ c.open /\ c.eng # NoTask /\ c' = t /\ ev' = Append(ev, e)
  BY DEF CoordInv, Prepared, Sends
<1>2. c \in CallSet /\ NoTask \in TaskSet
  BY <1>1, InvFacts, Blank
<1>3. /\ t \in CallSet /\ t.att = c.att /\ t.pl = c.pl /\ t.next = c.next /\ t.conf = c.conf
      /\ t.speech = c.speech /\ t.hang = c.hang /\ t.open = c.open /\ t.fin = c.fin /\ t.turn = c.turn
      /\ t.finals = c.finals /\ t.ending = c.ending /\ t.st = c.st /\ t.timer = c.timer
      /\ t.rev = c.rev /\ t.eng = NoTask /\ t.cand = c.cand
  BY <1>2 DEF CallSet
<1>4. c.rev \in Nat /\ c.eng \in TaskSet
  BY <1>2 DEF CallSet
<1>5. c.eng.rev \in Nat /\ c.eng.kind \in {"idle", "close"} /\ c.eng.turn \in Nat
  BY <1>1, <1>4 DEF TaskSet
<1>6. e \in EventSet
  BY <1>5 DEF EventSet
<1>7. e.type = "engage" /\ e.rev = c.eng.rev /\ e.turn = c.eng.turn
  OBVIOUS
<1> HIDE DEF t, e
<1>8. c.eng.rev = c.rev /\ c.eng.turn = c.turn /\ ~c.cand
  BY <1>1 DEF CallInv, Current
<1>9. e.rev <= t.rev /\ e.turn = t.turn /\ ~t.cand
  BY <1>3, <1>4, <1>7, <1>8
<1>10. EventInv(t, e) /\ ~Decisive(e, t.att.id)
  BY <1>7, <1>9 DEF EventInv, Decisive, Unreached
<1>11. Current(t) /\ c.rev <= t.rev
  BY <1>3, <1>4 DEF Current
<1>12. Good(c, t)
  BY <1>1, <1>3, <1>11, ListenGood
<1> QED BY <1>1, <1>6, <1>10, <1>12, SentHolds

-----------------------------------------------------------------------------
(* The generation task of the live attempt                                  *)

LEMMA GeneratingIs ==
  ASSUME CoordInv, c.att.task # "none"
  PROVE  /\ CallInv(c) /\ c \in CallSet /\ c.att \in AttSet /\ c.pl \in PlSet
         /\ c.att.id \in Nat \ {0} /\ c.att.id <= c.next
         /\ c.att.task = "run" /\ c.att.direct = "no" =>
              /\ c.att.tool = "none" /\ ~c.att.endReq
              /\ \A i \in 1..Len(ev) : ~Decisive(ev[i], c.att.id)
         /\ c.att.task \in Producing /\ c.att.direct = "no" =>
              \A i \in 1..Len(ev) : ~Unreached(ev[i], c.att.id)
<1>1. CallInv(c) /\ QueueInv(c, ev)
  BY DEF CoordInv
<1>2. c \in CallSet /\ (c.att.id = 0 => c.att = NoAtt) /\ c.att.id <= c.next
  BY <1>1 DEF CallInv, CallTypes
<1>3. c.att \in AttSet /\ c.pl \in PlSet
  BY <1>2 DEF CallSet
<1>4. c.att.id \in Nat
  BY <1>3 DEF AttSet
<1>5. c.att.id # 0
  BY <1>2, Blank
<1>6. c.att.task = "run" /\ c.att.direct = "no" => c.att.tool = "none" /\ ~c.att.endReq
  BY <1>1 DEF CallInv, Kinds
<1>7. ASSUME c.att.task = "run", c.att.direct = "no", NEW i \in 1..Len(ev), Decisive(ev[i], c.att.id)
      PROVE  FALSE
  <2>1. EventInv(c, ev[i])
    BY <1>1 DEF QueueInv
  <2> QED BY <1>7, <2>1 DEF EventInv, Decisive, Producing
<1>8. ASSUME c.att.task \in Producing, c.att.direct = "no", NEW i \in 1..Len(ev), Unreached(ev[i], c.att.id)
      PROVE  FALSE
  <2>1. EventInv(c, ev[i])
    BY <1>1 DEF QueueInv
  <2> QED BY <1>8, <2>1 DEF EventInv
<1> QED BY <1>1, <1>2, <1>3, <1>4, <1>5, <1>6, <1>7, <1>8

LEMMA GenTokenHolds ==
  ASSUME CoordInv, GenToken
  PROVE  Holds
<1> DEFINE a == [c.att EXCEPT !.told = TRUE]
           t == [c EXCEPT !.att = a]
           e == [type |-> "token", id |-> c.att.id]
<1>1. c.open /\ c' = t /\ ev' = Append(ev, e) /\ c.att.task # "none"
  BY DEF GenToken, Sends, Generating
<1>2. CallInv(c) /\ c \in CallSet /\ c.att \in AttSet /\ c.att.id \in Nat \ {0} /\ c.att.id <= c.next
  BY <1>1, GeneratingIs
<1>3. a \in AttSet /\ SameReply(c.att, a)
  BY <1>2 DEF AttSet, SameReply
<1> HIDE DEF a
<1>4. Good(c, t)
  BY <1>2, <1>3, ProgressGood
<1>5. t.next = c.next
  BY <1>2, <1>3, WithAtt DEF ButAtt
<1>6. e \in EventSet
  BY <1>2 DEF EventSet
<1>7. e.type = "token" /\ e.id = c.att.id
  OBVIOUS
<1> HIDE DEF t, e
<1>8. EventInv(t, e) /\ ~Decisive(e, t.att.id)
  BY <1>2, <1>5, <1>7 DEF EventInv, Decisive, Unreached
<1> QED BY <1>1, <1>4, <1>6, <1>8, SentHolds

LEMMA GenToolHolds ==
  ASSUME CoordInv, NEW tool \in LlmTools, GenTool(tool)
  PROVE  Holds
<1> DEFINE task == IF tool = "end" THEN "closing" ELSE "pend"
           a == [c.att EXCEPT !.task = task]
           t == [c EXCEPT !.att = a]
           e == [type |-> "tool", id |-> c.att.id, tool |-> tool]
<1>1. c.open /\ c' = t /\ ev' = Append(ev, e) /\ c.att.task \in Producing /\ c.att.direct = "no"
  BY DEF GenTool, Sends, Producing
<1>2. /\ CallInv(c) /\ c \in CallSet /\ c.att \in AttSet /\ c.att.id \in Nat \ {0} /\ c.att.id <= c.next
      /\ \A i \in 1..Len(ev) : ~Unreached(ev[i], c.att.id)
  <2>1. c.att.task # "none"
    BY <1>1 DEF Producing
  <2> QED BY <1>1, <2>1, GeneratingIs
<1>3. task \in {"none", "run", "closing", "pend", "sent"} /\ task # "run"
  OBVIOUS
<1> HIDE DEF task
<1>4. a \in AttSet /\ SameReply(c.att, a) /\ a.task = task
  BY <1>1, <1>2, <1>3 DEF AttSet, SameReply
<1> HIDE DEF a
<1>5. Good(c, t)
  BY <1>2, <1>4, ProgressGood
<1>6. t.next = c.next /\ t.att = a /\ t.conf = c.conf
  BY <1>2, <1>4, WithAtt DEF ButAtt
<1>7. tool \in {"end", "off", "open", "say", "bad"} /\ tool \in c.conf.tools
  <2>1. c.conf \in Configs
    BY <1>2, TextsOf
  <2>2. \A k \in Configs : k.tools \subseteq {"end", "off", "open", "say", "bad"}
    BY CoordinatorAssumption, Zenon
  <2> QED BY <2>1, <2>2 DEF LlmTools
<1>8. e \in EventSet
  BY <1>2, <1>7 DEF EventSet
<1>9. e.type = "tool" /\ e.id = c.att.id /\ e.tool = tool
  OBVIOUS
<1> HIDE DEF t, e
<1>10. EventInv(t, e)
  BY <1>1, <1>2, <1>3, <1>4, <1>6, <1>7, <1>9 DEF EventInv, SameReply, Unreached
<1>11. \A i \in 1..Len(ev) : Clear(ev[i], e, t.att.id)
  BY <1>2, <1>4, <1>6, <1>9 DEF SameReply, Clear, Unreached
<1> QED BY <1>1, <1>5, <1>8, <1>10, <1>11, SentHolds

LEMMA GenDoneHolds ==
  ASSUME CoordInv, c.att.task # "none", NEW res \in {"ok", "err", "llm"}, GenDone(res),
         res = "ok" => c.att.auth, res = "llm" => c.att.task = "run"
  PROVE  Holds
<1> DEFINE a == [c.att EXCEPT !.task = "sent"]
           r == [c EXCEPT !.att = a]
           b == (res = "ok") \/ c.pl.ended
           p == [c.pl EXCEPT !.ended = b]
           t == [r EXCEPT !.pl = p]
           e == [type |-> "done", id |-> c.att.id, res |-> res]
<1>1. /\ CallInv(c) /\ c \in CallSet /\ c.att \in AttSet /\ c.pl \in PlSet /\ c.att.id \in Nat \ {0}
      /\ c.att.id <= c.next
      /\ c.att.task = "run" /\ c.att.direct = "no" =>
           c.att.tool = "none" /\ ~c.att.endReq /\ \A i \in 1..Len(ev) : ~Decisive(ev[i], c.att.id)
  BY GeneratingIs
<1>2. c.open /\ ev' = Append(ev, e)
  BY DEF GenDone, Sends
<1>3. c' = [c EXCEPT !.att.task = "sent", !.pl.ended = b]
  BY DEF GenDone
<1>4. c' = t
  BY <1>1, <1>3 DEF CallSet
<1>5. a \in AttSet /\ SameReply(c.att, a) /\ a.task = "sent"
  BY <1>1 DEF AttSet, SameReply, Producing
<1> HIDE DEF a
<1>6. Good(c, r)
  BY <1>1, <1>5, ProgressGood
<1>7. r \in CallSet /\ ButAtt(c, r) /\ r.att = a
  BY <1>1, <1>5, WithAtt
<1>8. b \in BOOLEAN /\ (res = "ok" => b) /\ (c.pl.ended => b)
  OBVIOUS
<1> HIDE DEF b, r
<1>9. /\ p \in PlSet /\ p.id = c.pl.id /\ p.highest = c.pl.highest /\ p.authorized = c.pl.authorized
      /\ p.enabled = c.pl.enabled /\ p.ended = b
  BY <1>1, <1>8 DEF PlSet
<1> HIDE DEF p
<1>10. /\ t \in CallSet /\ t.att = r.att /\ t.pl = p /\ t.next = r.next /\ t.conf = r.conf
       /\ t.speech = r.speech /\ t.hang = r.hang /\ t.open = r.open /\ t.fin = r.fin /\ t.turn = r.turn
       /\ t.finals = r.finals /\ t.ending = r.ending /\ t.st = r.st /\ t.timer = r.timer
       /\ t.rev = r.rev /\ t.eng = r.eng /\ t.cand = r.cand
  BY <1>7, <1>9 DEF CallSet
<1>11. e \in EventSet
  BY <1>1 DEF EventSet
<1>12. e.type = "done" /\ e.id = c.att.id /\ e.res = res
  OBVIOUS
<1> HIDE DEF t, e
<1>13. r.pl = c.pl /\ r.next = c.next
  BY <1>7 DEF ButAtt
<1>14. CallInv(r)
  BY <1>6 DEF Good, Step
<1>15. CallInv(t)
  <2>1. CallTypes(t)
    BY <1>9, <1>10, <1>13, <1>14 DEF CallInv, CallTypes
  <2>2. OnePlayout(t)
    BY <1>8, <1>9, <1>10, <1>13, <1>14 DEF CallInv, OnePlayout
  <2>3. ForFinal(t)
    BY <1>10, <1>14 DEF CallInv, ForFinal
  <2>4. Kinds(t) /\ Current(t)
    BY <1>10, <1>14 DEF CallInv, Kinds, Current
  <2>5. Replies(t)
    BY <1>10, <1>14, Zenon DEF CallInv, Replies
  <2>6. Closing(t)
    BY <1>10, <1>14 DEF CallInv, Closing, Forgets
  <2> QED BY <2>1, <2>2, <2>3, <2>4, <2>5, <2>6 DEF CallInv
<1>16. Follows(c, t)
  <2>1. Follows(c, r)
    BY <1>6 DEF Good
  <2>2. Onward(c, t)
    BY <1>10, <2>1 DEF Follows, Onward
  <2>3. SameAttempt(c, t)
    BY <1>5, <1>7, <1>8, <1>9, <1>10 DEF SameAttempt, SameReply
  <2>4. Undecided(c, t)
    BY <1>5, <1>7, <1>10 DEF Undecided, SameReply
  <2> QED BY <2>2, <2>3, <2>4 DEF Follows
<1>17. Good(c, t)
  <2>1. Waits(c, r) /\ Moved(c, r) /\ Kept(c, r) /\ r.conf = c.conf /\ Reactive(c, r)
    BY <1>6 DEF Good, Step
  <2>2. Waits(c, t) /\ Moved(c, t) /\ t.conf = c.conf /\ Reactive(c, t)
    BY <1>10, <2>1 DEF Waits, Moved, Reactive
  <2>3. Kept(c, t)
    BY <1>10, <2>1, Zenon DEF Kept
  <2> QED BY <1>15, <1>16, <2>2, <2>3 DEF Good, Step
<1>18. EventInv(t, e)
  BY <1>1, <1>5, <1>7, <1>8, <1>9, <1>10, <1>12, <1>13 DEF EventInv, Decisive, Unreached, SameReply, Producing
<1>19. Decisive(e, t.att.id) /\ t.att.direct = "no" => \A i \in 1..Len(ev) : Clear(ev[i], e, t.att.id)
  <2>1. t.att.id = c.att.id /\ t.att.direct = c.att.direct
    BY <1>5, <1>7, <1>10 DEF SameReply
  <2>2. Decisive(e, t.att.id) => res = "llm"
    BY <1>12 DEF Decisive, Unreached
  <2> QED BY <1>1, <2>1, <2>2 DEF Clear, Decisive
<1> QED BY <1>2, <1>4, <1>11, <1>17, <1>18, <1>19, SentHolds

LEMMA GenAudioHolds ==
  ASSUME CoordInv, GenAudio
  PROVE  Holds
<1>1. Generating /\ c.att.task # "none"
  BY DEF GenAudio, Generating
<1>2. CASE GenDone("err")
  BY <1>1, <1>2, GenDoneHolds
<1>3. CASE Sends([type |-> "audio", id |-> c.att.id]) /\ c' = [c EXCEPT !.att.started = TRUE]
  <2> DEFINE a == [c.att EXCEPT !.started = TRUE]
             t == [c EXCEPT !.att = a]
             e == [type |-> "audio", id |-> c.att.id]
  <2>1. c.open /\ c' = t /\ ev' = Append(ev, e)
    BY <1>3 DEF Sends
  <2>2. CallInv(c) /\ c \in CallSet /\ c.att \in AttSet /\ c.att.id \in Nat \ {0} /\ c.att.id <= c.next
    BY <1>1, GeneratingIs
  <2>3. a \in AttSet /\ SameReply(c.att, a)
    BY <2>2 DEF AttSet, SameReply
  <2> HIDE DEF a
  <2>4. Good(c, t)
    BY <2>2, <2>3, ProgressGood
  <2>5. t.next = c.next
    BY <2>2, <2>3, WithAtt DEF ButAtt
  <2>6. e \in EventSet
    BY <2>2 DEF EventSet
  <2>7. e.type = "audio" /\ e.id = c.att.id
    OBVIOUS
  <2> HIDE DEF t, e
  <2>8. EventInv(t, e) /\ ~Decisive(e, t.att.id)
    BY <2>2, <2>5, <2>7 DEF EventInv, Decisive, Unreached
  <2> QED BY <2>1, <2>4, <2>6, <2>8, SentHolds
<1> QED BY <1>2, <1>3 DEF GenAudio

LEMMA GenerationHolds ==
  ASSUME CoordInv, Generation
  PROVE  Holds
<1>1. ASSUME GenFinish PROVE Holds
  <2> DEFINE res == IF EndAllowed(c.pl, c.att.id) THEN "ok" ELSE "err"
  <2>1. c.att.task # "none" /\ c.att.auth /\ GenDone(res)
    BY <1>1 DEF GenFinish, Generating
  <2>2. res \in {"ok", "err", "llm"} /\ res # "llm"
    OBVIOUS
  <2> HIDE DEF res
  <2> QED BY <2>1, <2>2, GenDoneHolds
<1>2. ASSUME NEW res \in {"err", "llm"}, GenFails(res) PROVE Holds
  <2>1. c.att.task # "none" /\ (res = "llm" => c.att.task = "run") /\ GenDone(res)
    BY <1>2 DEF GenFails, Generating
  <2> QED BY <1>2, <2>1, GenDoneHolds
<1> QED BY <1>1, <1>2, GenTokenHolds, GenAudioHolds, GenToolHolds DEF Generation

-----------------------------------------------------------------------------
(* The theorems                                                             *)

LEMMA CoordInit == Init => CoordInv
<1> SUFFICES ASSUME Init PROVE CoordInv
  OBVIOUS
<1> DEFINE e == ""
<1>1. e \in TextSet
  BY Blank
<1>2. PICK k \in Configs : c =
        [conf |-> k, st |-> "Idle", turn |-> 0, next |-> 0, att |-> NoAtt,
         cand |-> FALSE, silent |-> FALSE, pre |-> e, part |-> e,
         fin |-> e, flushRev |-> 0, flushed |-> 0, susp |-> FALSE,
         stable |-> NoTimer, timer |-> 0, grace |-> NoTimer,
         graces |-> {}, speech |-> TRUE, ending |-> FALSE, hang |-> "no",
         opened |-> FALSE, rev |-> 0, eng |-> NoTask, checks |-> 0,
         closeAt |-> FALSE, finals |-> {}, pl |-> NewPlayout, open |-> TRUE]
  BY DEF Init
<1>3. c.fin = ""
  BY <1>2
<1> HIDE DEF e
<1>4. ev = << >>
  BY DEF Init
<1>5. NoAtt \in AttSet /\ NoTimer \in TimerSet /\ NoTask \in TaskSet
  BY Blank
<1>6. NewPlayout \in PlSet /\ NewPlayout.id = 0 /\ NewPlayout.highest = 0
  BY DEF PlSet, NewPlayout, NoAttempt
<1>7. "Idle" \in Quiet \cup Hearing \cup {"AwaitingFinal"}
  BY DEF Quiet
<1>8. \A S : {} \in SUBSET S
  OBVIOUS
<1>9. c \in CallSet
  BY <1>1, <1>2, <1>5, <1>6, <1>7, <1>8 DEF CallSet
<1>10. /\ c.att = NoAtt /\ c.pl = NewPlayout /\ c.next = 0 /\ c.eng = NoTask /\ ~c.ending /\ c.st = "Idle"
  BY <1>2
<1>11. c.att.id = 0
  BY <1>10, Blank
<1>12. Base(c)
  <2>1. CallTypes(c)
    BY <1>6, <1>9, <1>10, <1>11 DEF CallTypes
  <2>2. Current(c)
    BY <1>10 DEF Current
  <2>3. ~(c.pl.id # 0)
    BY <1>6, <1>10
  <2> QED BY <1>3, <2>1, <2>2, <2>3, Zenon DEF Base
<1>13. CallInv(c)
  BY <1>10, <1>11, <1>12, FreeInv DEF Responding
<1>14. QueueInv(c, ev)
  BY <1>4 DEF QueueInv
<1>15. Timed(c, ev)
  BY <1>10 DEF Timed
<1> QED BY <1>13, <1>14, <1>15 DEF CoordInv

LEMMA CoordNext == CoordInv /\ [Next]_vars => CoordInv' /\ [CurrentActs]_vars
<1> SUFFICES ASSUME CoordInv, [Next]_vars PROVE CoordInv' /\ [CurrentActs]_vars
  OBVIOUS
<1>1. CASE UNCHANGED vars
  <2>1. CoordInv'
    BY <1>1 DEF vars, CoordInv
  <2> QED BY <1>1, <2>1
<1>2. CASE Next
  <2> SUFFICES Holds
    BY DEF Holds
  <2>1. CASE HandleInternal
    BY <2>1, InternalHolds
  <2>2. CASE Frames
    BY <2>2, FramesHold
  <2>3. CASE Asr
    BY <2>3, AsrHolds, AsrErrorHolds
  <2>4. CASE Room
    BY <2>4, RoomHolds
  <2>5. CASE Timers
    <3>1. ASSUME NEW g \in c.graces, GraceFires(g) PROVE Holds
      BY <3>1, GraceFiresHolds
    <3> QED BY <2>5, <3>1, StableFiresHolds, FinalTimeoutHolds DEF Timers, GraceEnds
  <2>6. CASE Engaging
    <3>1. CASE IdleOpportunity
      BY <3>1, PrepareHolds DEF IdleOpportunity
    <3>2. CASE MaybeIdleClose
      BY <3>2, PrepareHolds DEF MaybeIdleClose
    <3>3. CASE \E res \in {"speak", "silent"} : Prepared(res)
      BY <3>3, PreparedHolds
    <3> QED BY <2>6, <3>1, <3>2, <3>3 DEF Engaging
  <2>7. CASE Generation
    BY <2>7, GenerationHolds
  <2> QED BY <1>2, <2>1, <2>2, <2>3, <2>4, <2>5, <2>6, <2>7 DEF Next
<1> QED BY <1>1, <1>2

(***************************************************************************)
(* Whatever frames, transcripts, typed messages, timers and generation     *)
(* results reach the actor, and in whatever order its channel delivers     *)
(* what aborted attempts left in it, its record and its channel keep       *)
(* CoordInv.                                                               *)
(***************************************************************************)
THEOREM Invariance == Spec => []CoordInv
<1>1. CoordInv /\ [Next]_vars => CoordInv'
  BY CoordNext
<1> QED BY <1>1, CoordInit, PTL DEF Spec

(***************************************************************************)
(* PCM is released for the live, authorized attempt only, with the speech  *)
(* gate open and the current turn's final accepted.                        *)
(***************************************************************************)
THEOREM OnlyFinalSpeaksHolds == Spec => []OnlyFinalSpeaks
<1>1. CoordInv => OnlyFinalSpeaks
  <2> SUFFICES ASSUME CoordInv PROVE OnlyFinalSpeaks
    OBVIOUS
  <2>1. OnePlayout(c) /\ ForFinal(c) /\ Kinds(c)
    BY DEF CoordInv, CallInv
  <2>2. c.att.id # 0 /\ ~MinimumOn => c.att.owner = c.turn \/ c.att.kind # "none"
    BY <2>1 DEF Kinds, MinimumOn
  <2>3. ASSUME Audible PROVE c.speech /\ c.att.id = c.pl.id /\ c.att.auth
    BY <2>1, <2>3 DEF Audible, PcmAllowed, Owns, NoAttempt, OnePlayout
  <2>4. ASSUME Audible
        PROVE  /\ c.att.kind = "none" => c.turn \in c.finals \cup {0}
               /\ c.att.spec => <<c.att.hyp, c.fin>> \in Similar
    BY <2>1, <2>3, <2>4 DEF ForFinal
  <2> QED BY <2>2, <2>3, <2>4 DEF OnlyFinalSpeaks
<1> QED BY <1>1, Invariance, PTL

(***************************************************************************)
(* Something will always move an open call on: the timer of its wait, the  *)
(* attempt of its reply, or the room that ends it.                         *)
(***************************************************************************)
THEOREM NeverStrandedHolds == Spec => []NeverStranded
<1>1. CoordInv => NeverStranded
  <2> SUFFICES ASSUME CoordInv, c.open PROVE NeverStranded
    BY DEF NeverStranded
  <2>1. Timed(c, ev) /\ CallTypes(c) /\ ForFinal(c) /\ Replies(c) /\ Closing(c)
    BY DEF CoordInv, CallInv
  <2>2. c.st = "AwaitingFinal" /\ Texts \cap Echo = {} => c.timer = c.turn \/ Queued("timeout")
    BY <2>1 DEF Timed, Texts, Queued
  <2>3. c.st \in {"Releasing", "Playing"} /\ ~GraceOn => c.att.auth
    BY <2>1, Zenon DEF Replies, GraceOn, Responding
  <2>4. c.att.auth => c.att.id # 0
    BY <2>1, Blank DEF CallTypes
  <2>5. c.ending /\ ~Forgets(c) => c.hang # "no" \/ c.att.endReq
    BY <2>1 DEF Closing
  <2> QED BY <2>2, <2>3, <2>4, <2>5 DEF NeverStranded
<1> QED BY <1>1, Invariance, PTL

(***************************************************************************)
(* No step acts on the call for something that is no longer current: the   *)
(* gate and the end of the call follow the turn's final, proactive speech  *)
(* the present turn, and an ending call takes nothing new.                 *)
(***************************************************************************)
THEOREM OnlyCurrentActsHolds == Spec => OnlyCurrentActs
<1>1. CoordInv /\ [Next]_vars => [CurrentActs]_vars
  BY CoordNext
<1> QED BY <1>1, Invariance, PTL DEF Spec, OnlyCurrentActs
=============================================================================
