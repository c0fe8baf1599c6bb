------------------------------ MODULE Timeline ------------------------------
(***************************************************************************)
(* What the LiveKit agent does with the events of a conversation             *)
(* (_wire_session_timeline of main.py and SalonAgent), composed with the job  *)
(* of module Session: its tasks are background tasks of the job, and the      *)
(* cleanup of the job drains them.                                          *)
(*                                                                         *)
(* The handlers are synchronous; each starts tasks that wait for services:    *)
(* a knowledge search whose result replaces the live instructions, the        *)
(* message written to the conversation, and the ticket opened when the agent  *)
(* says there is one and no tool made it.  Contents are numbered in the order  *)
(* they are first said.                                                     *)
(***************************************************************************)
EXTENDS Session

CONSTANTS
  MaxItems,   \* bound: events of a conversation
  MaxReply    \* bound: chunks of a reply

ASSUME TimelineAssumption == MaxItems \in Nat /\ MaxReply \in Nat

VARIABLES
  talk,    \* userdata: turn_index, last_user_transcript, last_dynamic_knowledge_query,
           \* last_create_ticket_success_turn and _result, last_persisted_assistant_content;
           \* and the tool create_ticket under way
  reply    \* what llm_node made of a reply: [chunks, spoken, call]

tvars == <<talk, reply>>
vars == <<svars, tvars>>


\* What the agent's words claim about a ticket: nothing; that there is one, or
\* that the one asked for failed; or an update that also reads as a creation.
Claims == {"none", "reconcile", "update"}
NoReply == [chunks |-> <<>>, spoken |-> <<>>, call |-> "none"]

Init ==
  /\ SessionInit
  /\ talk = [items |-> 0, turn |-> 0, user |-> 0, known |-> 0, saved |-> FALSE, ticketTurn |-> -1,
             result |-> "none", tool |-> "no"]
  /\ reply = NoReply

\* The session was started.  It is not over with the job's shutdown: what is under
\* way is drained, or interrupted, while the cleanup runs, and its events come then.
\* The conversation of a job that was cleaned up before it started is left out.
Live == "wait" \in hooks /\ shut # "early" /\ talk.items < conf.items
TooLate == \E c \in Callers : clean[c].pc \notin {"no", "lock", "usage"}
Task(kind, i, about) == [kind |-> kind, item |-> i, about |-> about, late |-> TooLate]
Same == UNCHANGED <<conf, boot, main, shut, hooks, tracker, clean, done, holder, heart, rec, egress, srv>>

\* _schedule_dynamic_knowledge_refresh: unless its search was the last one applied.
Refresh(content, i) == IF content # talk.known THEN {Task("refresh", i, content)} ELSE {}

\* The message is written by a task, or at once to the local file.
Save(kind, i) == IF conf.service THEN {Task(kind, i, 0)} ELSE {}

----------------------------------------------------------------------------
\* A final transcript opens a turn.
UserInputTranscribed ==
  /\ Live
  /\ LET i == talk.items + 1
     IN /\ talk' = [talk EXCEPT !.items = i, !.turn = @ + 1, !.user = i]
        /\ bg' = bg \union Refresh(i, i)
  /\ Same /\ UNCHANGED reply

\* The caller's item: what was transcribed, or several transcripts in one,
\* which counts as another turn.
UserItemAdded(merged) ==
  /\ Live /\ talk.user > 0
  /\ LET i == talk.items + 1
         content == IF merged THEN i ELSE talk.user
     IN /\ talk' = [talk EXCEPT !.items = i, !.turn = IF merged THEN @ + 1 ELSE @, !.user = content]
        /\ bg' = bg \union Save("message", i) \union Refresh(content, i)
  /\ Same /\ UNCHANGED reply

\* The agent's item: nothing more when it repeats the last one saved or its
\* beginning; else it is written, and its claim is looked at by a task.
AssistantItemAdded(claim, repeats) ==
  /\ Live /\ (repeats => talk.saved)
  /\ LET i == talk.items + 1
         claims == IF claim = "none" THEN {} ELSE {Task(claim, i, -1)}
     IN /\ talk' = [talk EXCEPT !.items = i, !.saved = @ \/ (~repeats /\ ~conf.service)]
        /\ bg' = IF repeats THEN bg ELSE bg \union Save("answer", i) \union claims
  /\ Same /\ UNCHANGED reply

\* _recent_ticket_reuse_result: the last result is a record, of this turn or the
\* one before, and the same ticket is asked for.
Reuses(same) == same /\ talk.result = "record" /\ talk.turn - talk.ticketTurn <= 1

\* The model calls create_ticket.
CreateTicket(same) ==
  /\ Live /\ talk.tool = "no"
  /\ talk' = [talk EXCEPT !.items = @ + 1, !.tool = IF Reuses(same) THEN "done" ELSE "open"]
  /\ Same /\ UNCHANGED <<bg, reply>>

CreateTicketAnswered ==
  /\ talk.tool = "open"
  /\ talk' \in {[talk EXCEPT !.tool = "done"],
                [talk EXCEPT !.tool = "done", !.ticketTurn = talk.turn, !.result = "record"]}
  /\ Same /\ UNCHANGED <<bg, reply>>

\* function_tools_executed: the output is text by now, so that neither a failure
\* nor, later, the ticket to reuse is recognized; the call is told to the session.
ToolsExecuted ==
  /\ talk.tool = "done"
  /\ talk' = [talk EXCEPT !.tool = "no", !.ticketTurn = talk.turn, !.result = "text"]
  /\ bg' = Persist(bg, Task("told", talk.items, 0), tracker)
  /\ Same /\ UNCHANGED reply

----------------------------------------------------------------------------
\* The search answers, perhaps with nothing; the snippets replace those of any
\* earlier search.
Refreshed(t) ==
  /\ t.kind = "refresh" /\ bg' = bg \ {t}
  /\ talk' \in {talk, [talk EXCEPT !.known = t.about]}
  /\ Same /\ UNCHANGED reply

Written(t) ==
  /\ t.kind \in {"message", "answer", "told", "opened"} /\ bg' = bg \ {t}
  /\ talk' \in {talk, [talk EXCEPT !.saved = @ \/ t.kind = "answer"]}
  /\ Same /\ UNCHANGED reply

\* _reconcile_ticket_claim_if_needed: a ticket is to be opened unless a tool
\* opened one in this turn, or an earlier one is said to be updated.
Reconcile(t) ==
  LET skips == talk.ticketTurn = talk.turn \/ (talk.ticketTurn >= 0 /\ t.kind = "update")
  IN /\ t.kind \in {"reconcile", "update"} /\ t.about < 0
     /\ bg' = (bg \ {t}) \union IF skips THEN {} ELSE {[t EXCEPT !.about = talk.turn]}
     /\ Same /\ UNCHANGED <<talk, reply>>

\* The ticket is opened, and the session told by another task; or it is not.
Reconciled(t) ==
  /\ t.kind \in {"reconcile", "update"} /\ t.about >= 0
  /\ \/ /\ talk' = [talk EXCEPT !.ticketTurn = t.about, !.result = "record"]
        /\ bg' = Persist(bg \ {t}, [t EXCEPT !.kind = "opened", !.about = 0], tracker)
     \/ bg' = bg \ {t} /\ UNCHANGED talk
  /\ Same /\ UNCHANGED reply

----------------------------------------------------------------------------
(* llm_node: a reply that is a tool call written as text is held back and     *)
(* made a call.  Chunks: blank, "<function>", what follows it, other text, a   *)
(* structured call.                                                         *)

Chunks == {"blank", "marker", "args", "text", "tool"}

\* The first chunk that shows the reply is no textual call.
Decides(c, k) == c[k] = "tool" \/ (c[k] # "blank" /\ c[k] # "marker" /\ \A j \in 1 .. k - 1 : c[j] # "marker")
Visible(c) == SelectSeq(c, LAMBDA x : x # "tool")

\* parse_textual_function_call: the whole reply is one call of a tool of this turn.
Parses(c, allowed) ==
  allowed /\ \E k \in DOMAIN c : /\ c[k] = "marker" /\ k < Len(c) /\ c[k + 1] = "args"
                                 /\ \A j \in DOMAIN c : j \notin {k, k + 1} => c[j] = "blank"

\* Mutant of LlmNode: the probe is over with the first chunk that is not blank.
LlmNodeEager(c, allowed) ==
  LET ends == {k \in DOMAIN c : c[k] # "blank"}
      first == CHOOSE k \in ends : \A j \in ends : k <= j
  IN IF ends = {} THEN [spoken |-> c, call |-> "none"]
     ELSE [spoken |-> Visible(c), call |-> IF \E k \in DOMAIN c : c[k] = "tool" THEN "structured" ELSE "none"]

LlmNode(c, allowed) ==
  LET ends == {k \in DOMAIN c : Decides(c, k)}
      first == CHOOSE k \in ends : \A j \in ends : k <= j
  IN IF ends # {}
     THEN [spoken |-> IF c[first] = "tool" THEN Visible(SubSeq(c, first, Len(c))) ELSE Visible(c),
           call |-> IF \E k \in DOMAIN c : c[k] = "tool" THEN "structured" ELSE "none"]
     ELSE IF Parses(c, allowed) THEN [spoken |-> <<>>, call |-> "recovered"]
     ELSE IF \E k \in DOMAIN c : c[k] = "marker" THEN [spoken |-> <<"apology">>, call |-> "none"]
     ELSE [spoken |-> c, call |-> "none"]

Outcomes == {"answers", "unavailable", "fails"}

\* FallbackGoogleLLM, FallbackGroqLLM: the backup is asked when the model is not
\* available, which is known before any chunk; any other error is raised.
Streamed(c, primary, backup) == IF primary = "answers" \/ (primary = "unavailable" /\ backup) THEN c ELSE <<>>

\* A reply is generated.  Replies do not depend on one another: one is enough.
Replies(c, allowed) ==
  /\ conf.replies /\ main = "wait" /\ shut = "no" /\ reply = NoReply
  /\ \E primary \in Outcomes, backup \in BOOLEAN :
       LET chunks == Streamed(c, primary, backup)
           said == LlmNode(chunks, allowed)
       IN reply' = [chunks |-> chunks, spoken |-> said.spoken, call |-> said.call]
  /\ UNCHANGED <<svars, talk>>

----------------------------------------------------------------------------
Conversation ==
  \/ UserInputTranscribed \/ CreateTicketAnswered \/ ToolsExecuted
  \/ \E same \in BOOLEAN : CreateTicket(same)
  \/ \E merged \in BOOLEAN : UserItemAdded(merged)
  \/ \E claim \in Claims, repeats \in BOOLEAN : AssistantItemAdded(claim, repeats)
  \/ \E n \in 1 .. MaxReply : \E c \in [1 .. n -> Chunks], allowed \in BOOLEAN : Replies(c, allowed)

Work(t) == Refreshed(t) \/ Written(t) \/ Reconcile(t) \/ Reconciled(t)
Working == \E t \in bg : Work(t)

Next ==
  \/ SessionNext /\ UNCHANGED tvars
  \/ Conversation
  \/ Working

Spec == Init /\ [][Next]_vars

FairSpec == Spec /\ SessionFairness /\ WF_vars(Working)

\* A reply that is text and begins with the markup of a call is never spoken,
\* whether the call can be recovered or not (SalonAgent.llm_node).
MarkupHeld ==
  LET c == reply.chunks
  IN (\E k \in DOMAIN c : c[k] = "marker" /\ \A j \in 1 .. k - 1 : c[j] = "blank") /\ (\A k \in DOMAIN c : c[k] # "tool")
       => \A k \in DOMAIN reply.spoken : reply.spoken[k] \notin {"marker", "args"}

----------------------------------------------------------------------------
(* The inductive invariant the proofs use.                                   *)

Kinds == {"started", "exhausted", "recording", "recorded", "ready", "ended", "refresh", "message", "answer", "told",
          "opened", "reconcile", "update"}
Places == {"claim", "resolve", "await", "config", "authorize", "build", "start", "join", "wait", "finally", "cleanup", "raised"}
Cleaning == {"usage", "drain", "poll", "status", "events", "drained", "call"}
Steps == Cleaning \union {"no", "lock", "end"}

CleanSet == [pc : Steps, tracker : BOOLEAN, wait : SUBSET (Kinds \X Nat \X BOOLEAN),
             result : {"none", "unavailable", "processing", "available", "failed"}]
HeartSet == [pc : {"none", "sleep", "post", "delete", "end"}, failures : Nat]
TaskSet == [kind : Kinds, item : Nat, about : Int, late : BOOLEAN]
RecSet == [pc : {"none", "start", "update", "end"}, id : BOOLEAN]
SrvSet == [session : {"none", "open", "ended"},
           status : {"none", "recording", "unavailable", "processing", "available", "failed"},
           settled : BOOLEAN, beats : Nat, usage : {0, 1}, call : {"none", "finished"}]
TalkSet == [items : Nat, turn : Nat, user : Nat, known : Int, saved : BOOLEAN, ticketTurn : Int,
            result : {"none", "record", "text"}, tool : {"no", "open", "done"}]

AgentTypes ==
  /\ main \in Places /\ shut \in {"no", "early", "yes"} /\ hooks \subseteq {"cleanup", "wait"}
  /\ tracker \in BOOLEAN /\ done \in BOOLEAN /\ holder \in Callers \union {"none"}
  /\ clean \in [Callers -> CleanSet] /\ heart \in HeartSet /\ bg \subseteq TaskSet /\ rec \in RecSet
  /\ egress \in {"none", "running", "complete", "failed"} /\ srv \in SrvSet /\ talk \in TalkSet

\* One call of the cleanup works, holding the lock, and the other finds it done;
\* the usage is reported by the one that works; and no heart beats from then on
\* unless the job was shut down early.
OneCleaner ==
  /\ \A c \in Callers : /\ clean[c].pc \in Cleaning => holder = c /\ done
                        /\ clean[c].pc = "usage" => srv.usage = 0
  /\ shut = "no" => clean["callback"].pc = "no"
  /\ clean["finally"].pc # "no" => main = "cleanup"
  /\ done => \E c \in Callers : clean[c].pc # "no"
  /\ (done /\ shut # "early") => heart.pc \in {"none", "end"}
  /\ (srv.usage = 1 \/ srv.settled) => done

\* What the job does only while its call is on, and the cleanup only after it,
\* with the same exception.
Phases ==
  /\ "cleanup" \in hooks => main \notin {"claim", "resolve", "await", "config", "authorize"}
  /\ heart.pc # "none" => main \in {"wait", "finally", "cleanup"}
  /\ rec.pc \in {"start", "update"} => Event("recording") \in bg
  /\ (shut # "early" /\ \E c \in Callers : clean[c].pc # "no") => main \in {"finally", "cleanup", "raised"}

\* The tasks that start others.
Parents == {"recording", "reconcile", "update"}

\* The first drain ends when no task is left that could start another, but for
\* those that came too late; the second waits for all but these.
Drains ==
  shut # "early" =>
    /\ \A c \in Callers : \A t \in bg : ~t.late =>
         /\ clean[c].pc = "drain" /\ t.kind \in Parents => <<t.kind, t.item, t.late>> \in clean[c].wait
         /\ clean[c].pc \in {"poll", "status", "events", "drained"} => t.kind \notin Parents
         /\ clean[c].pc = "drained" => <<t.kind, t.item, t.late>> \in clean[c].wait
    /\ srv.settled => rec.pc \in {"none", "end"}

\* The outbound call is known before anything else is.
Known ==
  /\ conf.lang \in Languages /\ DOMAIN boot = {"here", "granted", "claimed", "id", "voice"}
  /\ boot.claimed => main # "claim" /\ (conf.recipient => main # "await")

AgentInv == AgentTypes /\ OneCleaner /\ Phases /\ Drains /\ Known /\ IdentityKept
=============================================================================
