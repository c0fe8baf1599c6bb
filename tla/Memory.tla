------------------------------- MODULE Memory -------------------------------
(***************************************************************************)
(* The conversation memory of a call (memory.py) and the compaction task      *)
(* that the pipeline runs beside it (pipeline.py).                           *)
(*                                                                         *)
(* A message is the turn it belongs to, its kind and whether it carries the   *)
(* note that it was interrupted.  A summary is the set of messages that it    *)
(* was written from: the model that writes it is external and either covers   *)
(* all it was given or fails.  Every message costs one token.                *)
(***************************************************************************)
EXTENDS Integers, Sequences, FiniteSets, SequencesExt, TLC

CONSTANTS
  MaxRounds,  \* bound: turns of a call
  MaxTools,   \* bound: tool results since the history was cleared
  MaxClears,  \* bound: histories cleared by the browser
  Keep,       \* max(2, memory_recent_exchanges)
  Tokens      \* memory_context_tokens

ASSUME MemoryAssumption == MaxRounds \in Nat /\ MaxTools \in Nat /\ MaxClears \in Nat /\ Keep \in Nat /\ Keep >= 2 /\ Tokens \in Nat \ {0}

VARIABLES
  turns,    \* ConversationMemory.turns
  summary,  \* ConversationMemory.summary
  epoch,    \* ConversationMemory.epoch
  compact,  \* _compaction_task: {} or the snapshot it summarises
  cur,      \* the pipeline's latest turn
  idle,     \* the pipeline's state is "idle"
  said      \* history: every message retained since the history was cleared

mvars == <<turns, summary, epoch, compact, cur, idle, said>>

MessageOf(id, kind) == [of |-> id, kind |-> kind, cut |-> FALSE]
MemoryTurn(id) == [id |-> id, messages |-> <<>>, closed |-> FALSE, answered |-> FALSE, interrupted |-> FALSE, listening |-> FALSE]

MemoryInit ==
  /\ turns = <<>> /\ summary = {} /\ epoch = 0 /\ compact = {}
  /\ cur = 0 /\ idle = TRUE /\ said = {}

----------------------------------------------------------------------------
(* ConversationMemory, as functions of the list of turns                     *)

Places(ts, id) == {i \in DOMAIN ts : ts[i].id = id}

\* turn: the latest turn of that id, at the end when there is none.
TurnOf(ts, id) == IF Places(ts, id) = {} THEN Append(ts, MemoryTurn(id)) ELSE ts
Place(ts, id) == CHOOSE i \in Places(ts, id) : \A j \in Places(ts, id) : j <= i

Has(turn, kind) == \E i \in DOMAIN turn.messages : turn.messages[i].kind = kind

User(turns0, id, listening) ==
  LET ts == TurnOf(turns0, id)  t == ts[Place(ts, id)] IN
  IF Has(t, "user") THEN ts
  ELSE [ts EXCEPT ![Place(ts, id)] = [t EXCEPT !.listening = listening, !.messages = <<MessageOf(id, "user")>> \o t.messages]]

Tool(turns0, id) ==
  LET ts == TurnOf(turns0, id)  t == ts[Place(ts, id)] IN
  IF Has(t, "reply") THEN ts
  ELSE [ts EXCEPT ![Place(ts, id)] = [t EXCEPT !.messages = t.messages \o <<MessageOf(id, "request"), MessageOf(id, "reply")>>]]

Answer(turns0, id) ==
  LET ts == TurnOf(turns0, id)  t == ts[Place(ts, id)] IN
  IF t.answered THEN ts
  ELSE [ts EXCEPT ![Place(ts, id)] = [t EXCEPT !.answered = TRUE, !.messages = Append(t.messages, MessageOf(id, "answer"))]]

\* finish: the note goes on the last message of an answered turn.
Noted(t, interrupted) ==
  IF interrupted /\ ~t.interrupted /\ t.answered
  THEN [i \in DOMAIN t.messages |-> IF i = Len(t.messages) THEN [t.messages[i] EXCEPT !.cut = TRUE] ELSE t.messages[i]]
  ELSE t.messages
Finish(ts, id, interrupted) ==
  IF Places(ts, id) = {} THEN ts
  ELSE LET t == ts[Place(ts, id)] IN
       [ts EXCEPT ![Place(ts, id)] =
          [t EXCEPT !.closed = TRUE, !.interrupted = t.interrupted \/ interrupted, !.messages = Noted(t, interrupted)]]

\* _messages: what the model is shown, with the mark of listening-only speech.
Shown(ts) == [i \in DOMAIN ts |-> [of |-> ts[i].messages, listening |-> ts[i].listening /\ Has(ts[i], "user")]]
Retained(ts) == UNION {Range(ts[i].messages) : i \in DOMAIN ts}
Cost(ts) == FoldLeft(LAMBDA n, t : n + Len(t.messages), 0, ts)

\* _groups: where each exchange ends; caller fragments stay together until an
\* answer that was not interrupted.
Ends(ts) ==
  {i \in DOMAIN ts : ts[i].closed /\ (ts[i].listening \/ (ts[i].answered /\ ~ts[i].interrupted))}
    \union ({Len(ts)} \ {0})

\* compact: the turns of all but the latest Keep exchanges, the fewest
\* exchanges that fit one request, and none if one of them is not closed.
Eligible(ts) ==
  LET last == {e \in Ends(ts) : Cardinality({f \in Ends(ts) : f > e}) = Keep} IN
  IF last = {} THEN 0 ELSE CHOOSE e \in last : TRUE
Prefix(ts) ==
  LET n == Eligible(ts)
      fit == {e \in Ends(ts) : e <= n /\ Cost(SubSeq(ts, 1, e)) <= Tokens}
  IN IF fit = {} \/ ~(\A i \in 1..n : ts[i].closed) THEN 0 ELSE CHOOSE e \in fit : \A f \in fit : f <= e

\* Mutant: every message stands alone.
UnitsSingle(messages) == [i \in DOMAIN messages |-> <<messages[i]>>]

\* A tool's reply goes with its request; every other message stands alone.
Units(messages) ==
  FoldLeft(LAMBDA us, m : IF m.kind = "reply" /\ us # <<>> /\ Last(us)[1].kind = "request"
                          THEN [us EXCEPT ![Len(us)] = Append(@, m)] ELSE Append(us, <<m>>), <<>>, messages)

\* context: the latest exchanges that fit the budget beside the summary; of
\* one that alone is too large, whole units, latest first.
Context(ts) ==
  LET base == IF summary = {} THEN 0 ELSE 1
      starts == {i \in DOMAIN ts : i = 1 \/ i - 1 \in Ends(ts)}
      fit == {i \in starts : base + Cost(SubSeq(ts, i, Len(ts))) <= Tokens}
      messages(from) == FlattenSeq([i \in 1..(Len(ts) + 1 - from) |-> ts[from + i - 1].messages])
      tail == CHOOSE i \in starts : \A j \in starts : j <= i
      units == Reverse(Units(messages(tail)))
      kept == FoldLeft(LAMBDA k, u : IF base + Len(k) + Len(u) <= Tokens THEN u \o k ELSE k, <<>>, units)
  IN IF ts = <<>> THEN <<>>
     ELSE IF fit = {} THEN kept
     ELSE messages(CHOOSE i \in fit : \A j \in fit : i <= j)

----------------------------------------------------------------------------
(* The pipeline's use of it                                                  *)

\* _pause_compaction: speech, and every state but idle, cancels the task.
Paused == {}

\* What the list of turns holds from now on, told to the history variable.
Retain(ts) ==
  /\ turns' = ts
  /\ said' = (said \ (Retained(turns) \ Retained(ts))) \union (Retained(ts) \ Retained(turns))
  /\ UNCHANGED <<summary, epoch>>

\* on_final: the caller's words are retained at once.
CallerSays ==
  /\ cur < MaxRounds
  /\ \E listening \in BOOLEAN : Retain(User(turns, cur + 1, listening))
  /\ cur' = cur + 1 /\ idle' = FALSE /\ compact' = Paused

\* _retain_tool_result: from the turn's own attempt, or later from a
\* background task; nothing pauses the compaction.
RetainTool ==
  \E id \in 1..cur :
    /\ id \notin {m.of : m \in {s \in said : s.kind = "reply"}}
    /\ Cardinality({s \in said : s.kind = "reply"}) < MaxTools
    /\ Retain(Tool(turns, id))
    /\ UNCHANGED <<compact, cur, idle>>

\* _commit_attempt_text
CommitAnswer ==
  /\ ~idle /\ cur > 0
  /\ Retain(Answer(User(turns, cur, FALSE), cur))
  /\ UNCHANGED <<compact, cur, idle>>

\* _commit_attempt_text while speech is disabled.
CommitSilence ==
  /\ ~idle /\ cur > 0
  /\ LET ts == TurnOf(turns, cur) IN Retain(Finish([ts EXCEPT ![Place(ts, cur)].listening = TRUE], cur, FALSE))
  /\ idle' = TRUE
  /\ UNCHANGED <<compact, cur>>

\* The turn's audio was played.
PlaybackStops ==
  /\ ~idle /\ cur > 0
  /\ Retain(Finish(turns, cur, FALSE)) /\ idle' = TRUE
  /\ UNCHANGED <<compact, cur>>

\* _cancel_attempt: what was heard of the answer is retained; also after the
\* turn was closed, when its attempt still waits for a transfer or a hang-up.
Interrupted ==
  /\ cur > 0 /\ \E i \in DOMAIN turns : turns[i].id = cur /\ ~turns[i].interrupted
  /\ \E heard \in BOOLEAN : Retain(Finish(IF heard THEN Answer(turns, cur) ELSE turns, cur, TRUE))
  /\ idle' \in {idle, TRUE}
  /\ UNCHANGED <<compact, cur>>

\* clear_history
Clear ==
  /\ epoch < MaxClears
  /\ epoch' = epoch + 1 /\ turns' = <<>> /\ summary' = {} /\ said' = {} /\ compact' = Paused
  /\ UNCHANGED <<cur, idle>>

\* _memory_loop, _maybe_compact: the snapshot is taken before the request.
MaybeCompact ==
  /\ idle /\ compact = {} /\ Prefix(turns) > 0
  /\ LET old == SubSeq(turns, 1, Prefix(turns)) IN
     compact' = {[ids |-> [i \in DOMAIN old |-> old[i].id], epoch |-> epoch, shown |-> Shown(old), covers |-> summary \union Retained(old)]}
  /\ UNCHANGED <<turns, summary, epoch, cur, idle, said>>

\* Mutant: applied without comparing what the turns hold now.
CompactedBlind ==
  \E c \in compact :
    /\ summary' = c.covers /\ turns' = SubSeq(turns, Len(c.ids) + 1, Len(turns)) /\ compact' = {}
    /\ UNCHANGED <<epoch, cur, idle, said>>

\* The summary is applied only to the turns that it was written from.
Compacted ==
  \E c \in compact :
    LET n == Len(c.ids)
        current == SubSeq(turns, 1, IF Len(turns) < n THEN Len(turns) ELSE n)
        same == epoch = c.epoch /\ [i \in DOMAIN current |-> current[i].id] = c.ids /\ Shown(current) = c.shown
    IN /\ summary' = IF same THEN c.covers ELSE summary
       /\ turns' = IF same THEN SubSeq(turns, n + 1, Len(turns)) ELSE turns
       /\ compact' = {}
       /\ UNCHANGED <<epoch, cur, idle, said>>

\* The model times out or writes no valid summary.
CompactionFails ==
  /\ compact # {} /\ compact' = {}
  /\ UNCHANGED <<turns, summary, epoch, cur, idle, said>>

Remembers ==
  \/ CallerSays \/ RetainTool \/ CommitAnswer \/ CommitSilence \/ PlaybackStops \/ Interrupted
  \/ Clear \/ MaybeCompact \/ Compacted \/ CompactionFails

----------------------------------------------------------------------------
(* Properties                                                               *)

\* Whatever is retained while a summary is being written, every message since
\* the history was cleared is either still among the turns or covered by the
\* summary, and none is in both (memory.py:247: the snapshot is compared before
\* it replaces the prefix).
Whole == said = Retained(turns) \union summary /\ Retained(turns) \cap summary = {}

\* Beside that, the context of a request stays within its budget and shows a
\* tool's result exactly when it shows the call, also of an exchange that does
\* not fit (memory.py:188).
NothingForgotten ==
  LET shown == Range(Context(turns)) IN
  /\ Whole
  /\ Len(Context(turns)) <= Tokens
  /\ {m.of : m \in {s \in shown : s.kind = "request"}} = {m.of : m \in {s \in shown : s.kind = "reply"}}
=============================================================================
