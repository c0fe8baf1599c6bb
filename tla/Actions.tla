------------------------------ MODULE Actions ------------------------------
(***************************************************************************)
(* What a caller can have done: bank requests, tickets and e-mails, from    *)
(* the model's tool call to the request that leaves the worker              *)
(* (latency_lab/pipeline.py, banking_tools.py, action_tools.py,             *)
(* directory_email.py and the tool part of engagement.py).                  *)
(*                                                                         *)
(* One attempt answers the caller at a time (module Turns); the caller may  *)
(* speak at any moment, which cancels it.  With engagement a request that   *)
(* was started goes on without its attempt (asyncio.shield), but for the    *)
(* two that keep their attempt posted while they run (the e-mail to the     *)
(* saved address, the directory lookup): these end with it.  With           *)
(* background tools a request has no attempt.  Each action is the code      *)
(* between two awaits.                                                      *)
(***************************************************************************)
EXTENDS Naturals, Sequences, FiniteSets

CONSTANTS
  MaxOps,    \* bound: operations the bank prepares
  MaxBoxes,  \* bound: e-mail addresses a caller may name, the saved one included
  MaxTasks,  \* bound: requests in progress at a time
  MaxTurns,  \* bound: caller turns of a call
  MaxRounds, \* bound: tool rounds of one turn (engagement_bank_tool_rounds)
  Confs      \* the calls explored: their settings, the tools offered, the caller's turns

BankTools == {"read", "prepare", "execute"}
Tools == BankTools \union {"ticket", "email", "directory"}

ASSUME ActionsAssumption ==
  /\ MaxOps \in Nat /\ MaxBoxes \in Nat \ {0} /\ MaxTasks \in Nat /\ MaxTurns \in Nat /\ MaxRounds \in Nat
  /\ Confs \subseteq [engaged : BOOLEAN, background : BOOLEAN, voice : BOOLEAN,
                 tools : SUBSET Tools, turns : 1 .. MaxTurns]

VARIABLES
  conf,
  att,       \* the current attempt, as far as it handles tools
  pending_action,  \* the call that awaits the caller's confirmation
  prepared,  \* banking.prepared: the operation of the latest preview, or 0
  mail,      \* directory_email: [prep, outbox], and swapped (history): the addresses
             \* prepared while a confirmed request had not taken its own yet
  tasks,     \* requests in progress
  oper,      \* engagement.operation
  voice,     \* voice verification: [status, gen, checked, owner]
  turns,     \* caller turns so far
  bank,      \* external: [issued, posts], what the services received
  agreed     \* history: the calls that a caller turn confirmed

vars == <<conf, att, pending_action, prepared, mail, tasks, oper, voice, turns, bank, agreed>>

OpIds == 1 .. MaxOps
Slots == 1 .. MaxTasks
Boxes == 1 .. MaxBoxes     \* e-mail destinations
Saved == 1                 \* the address saved for the caller

\* A call names the operation to execute or the destination of an e-mail.
Call(tool, op) == [tool |-> tool, op |-> op]
NoCall == Call("none", 0)
NoTask == [pc |-> "free", call |-> NoCall, ok |-> FALSE, bg |-> FALSE, left |-> FALSE,
           gen |-> 0, op |-> 0]
NoOper == [state |-> "none", call |-> NoCall, slot |-> 0, result |-> "none"]
NoAtt == [pc |-> "none", call |-> NoCall, same |-> FALSE, slot |-> 0, rounds |-> 0, reask |-> 0]

Init ==
  /\ conf \in Confs
  /\ att = NoAtt /\ pending_action = NoCall /\ prepared = 0
  /\ mail = [prep |-> 0, outbox |-> [b \in Boxes |-> "none"], swapped |-> {}]
  /\ tasks = [s \in Slots |-> NoTask] /\ oper = NoOper
  /\ voice = [status |-> "pending", gen |-> 0, checked |-> 0, owner |-> <<>>]
  /\ turns = 0
  /\ bank = [issued |-> 0, posts |-> [o \in OpIds |-> 0], mails |-> [b \in Boxes |-> 0]]
  /\ agreed = {}

Free == {s \in Slots : tasks[s].pc = "free"}
Slot == CHOOSE s \in Free : TRUE
NewTask(call, ok, bg) == [NoTask EXCEPT !.pc = "begin", !.call = call, !.ok = ok, !.bg = bg]

----------------------------------------------------------------------------
(* The caller.                                                              *)

\* The address of the e-mail that a request took.
Box(s) == tasks[s].op

\* Requests that keep the attempt they started with posted.
Posting(s) == tasks[s].call.tool = "directory" \/ (tasks[s].call.tool = "email" /\ ~tasks[s].ok)

\* The outbox, when a request is cancelled: an e-mail under way is uncertain.
Abandoned(s) ==
  IF tasks[s].call.tool = "email" /\ tasks[s].pc = "posted"
  THEN [mail EXCEPT !.outbox[Box(s)] = "unknown"] ELSE mail

\* The attempt is cancelled while it waits: without engagement its request is
\* too; with it the request goes on, or learns that its attempt has left.
Interrupts ==
  IF conf.engaged
  THEN tasks' = [tasks EXCEPT ![att.slot].left = Posting(att.slot)] /\ UNCHANGED mail
  ELSE tasks' = [tasks EXCEPT ![att.slot] = NoTask] /\ mail' = Abandoned(att.slot)

\* The caller speaks: the attempt is cancelled, the utterance is kept for
\* verification, and a new attempt looks at the pending action first.
CallerTurn(isOwner) ==
  /\ turns < conf.turns /\ (isOwner \/ conf.voice)
  /\ turns' = turns + 1
  /\ voice' = IF conf.voice THEN [voice EXCEPT !.gen = @ + 1, !.owner = Append(@, isOwner)] ELSE voice
  /\ IF att.pc = "wait" THEN Interrupts ELSE UNCHANGED <<tasks, mail>>
  /\ att' = [NoAtt EXCEPT !.pc = IF pending_action # NoCall THEN "decide" ELSE "plan", !.call = pending_action,
                          !.same = TRUE, !.reask = IF pending_action = att.call THEN att.reask ELSE 0]
  /\ UNCHANGED <<conf, pending_action, prepared, oper, bank, agreed>>

----------------------------------------------------------------------------
(* Engagement.run_tool                                                      *)

Starts(call, ok) ==
  /\ Free # {}
  /\ tasks' = [tasks EXCEPT ![Slot] = NewTask(call, ok, FALSE)]
  /\ oper' = IF conf.engaged THEN [state |-> "running", call |-> call, slot |-> Slot, result |-> "none"] ELSE oper
  /\ att' = [att EXCEPT !.pc = "wait", !.call = call, !.slot = Slot]

\* Mutant of RunTool: the operation in progress is not looked at.
RunToolAlways(call, ok) == Starts(call, ok)

\* A caller interrupt cancels speech, not a request already sent: the same call
\* joins the one in progress, another one is answered "pending", and after an
\* unknown outcome nothing is sent (but a confirmed e-mail's, whose result is no
\* dict: see Ends).
RunTool(call, ok) ==
  IF conf.engaged /\ oper.state = "done" /\ oper.result = "unknown"
  THEN att' = [att EXCEPT !.pc = "result", !.call = call] /\ UNCHANGED <<tasks, oper>>
  ELSE IF conf.engaged /\ oper.state = "running"
  THEN /\ att' = IF oper.call = call THEN [att EXCEPT !.pc = "wait", !.call = call, !.slot = oper.slot]
                 ELSE [att EXCEPT !.pc = "result", !.call = call]
       /\ UNCHANGED <<tasks, oper>>
  ELSE Starts(call, ok)

----------------------------------------------------------------------------
(* _handle_pending_action: the model classifies the caller's reply.          *)

\* The pending action was replaced while the reply was classified.
DecisionStale ==
  /\ att.pc = "decide" /\ ~att.same
  /\ att' = NoAtt
  /\ UNCHANGED <<conf, pending_action, prepared, mail, tasks, oper, voice, turns, bank, agreed>>

Confirm ==
  /\ att.pc = "decide" /\ att.same
  /\ pending_action' = NoCall
  /\ agreed' = agreed \union {pending_action}
  /\ RunTool(pending_action, TRUE)
  /\ UNCHANGED <<conf, prepared, mail, voice, turns, bank>>

Reject ==
  /\ att.pc = "decide" /\ att.same
  /\ pending_action' = NoCall /\ prepared' = 0
  /\ mail' = IF pending_action.tool = "email" THEN [mail EXCEPT !.prep = 0] ELSE mail
  /\ att' = NoAtt
  /\ UNCHANGED <<conf, tasks, oper, voice, turns, bank, agreed>>

Revise ==
  /\ att.pc = "decide" /\ att.same
  /\ pending_action' = NoCall /\ prepared' = 0
  /\ att' = [NoAtt EXCEPT !.pc = "plan"]
  /\ UNCHANGED <<conf, mail, tasks, oper, voice, turns, bank, agreed>>

\* An unclear reply: the question is asked again, twice at most for the bank
\* and the e-mail; a ticket is asked about in new words, or given up.
Unclear ==
  /\ att.pc = "decide" /\ att.same
  /\ \/ /\ pending_action.tool # "ticket" /\ att.reask < 2
        /\ att' = [NoAtt EXCEPT !.call = pending_action, !.reask = att.reask + 1]
        /\ UNCHANGED <<pending_action, prepared>>
     \/ /\ pending_action.tool # "ticket" /\ att.reask = 2
        /\ pending_action' = NoCall /\ att' = NoAtt
        /\ prepared' = IF pending_action.tool = "execute" THEN 0 ELSE prepared
     \/ /\ pending_action.tool = "ticket"
        /\ pending_action' \in {pending_action, NoCall} /\ att' = NoAtt
        /\ UNCHANGED prepared
  /\ UNCHANGED <<conf, mail, tasks, oper, voice, turns, bank, agreed>>

----------------------------------------------------------------------------
(* _generate and _run_banking_tools: what the model may ask for.             *)

\* After a directory lookup only its list can be e-mailed.
Plans(tool) == att.pc = "plan" /\ tool \in conf.tools /\ (att.call.tool = "directory" => tool = "email")

NoTool ==
  /\ att.pc = "plan"
  /\ att' = NoAtt
  /\ UNCHANGED <<conf, pending_action, prepared, mail, tasks, oper, voice, turns, bank, agreed>>

\* _dispatch_background_tool: not through run_tool; the turn ends.
Dispatch(call) ==
  /\ Free # {}
  /\ tasks' = [tasks EXCEPT ![Slot] = NewTask(call, FALSE, TRUE)]
  /\ oper' = IF conf.engaged THEN [state |-> "running", call |-> call, slot |-> Slot, result |-> "none"] ELSE oper
  /\ att' = NoAtt

BankTool(tool) ==
  /\ Plans(tool) /\ tool \in {"read", "prepare"}
  /\ IF conf.background THEN Dispatch(Call(tool, 0)) ELSE RunTool(Call(tool, 0), FALSE)
  /\ UNCHANGED <<conf, pending_action, prepared, mail, voice, turns, bank, agreed>>

\* Mutant of BankExecute: the tool call counts as the confirmation.
BankExecuteUnasked(o) ==
  /\ Plans("execute") /\ o \in 1 .. bank.issued
  /\ RunTool(Call("execute", o), TRUE)
  /\ UNCHANGED <<conf, pending_action, prepared, mail, voice, turns, bank, agreed>>

\* The model asks to execute: with a preview the caller is asked first
\* (_request_bank_confirmation), without one the request is refused later.
BankExecute(o) ==
  /\ Plans("execute") /\ o \in 1 .. bank.issued
  /\ IF prepared # 0
     THEN /\ pending_action' = Call("execute", prepared) /\ att' = NoAtt
          /\ UNCHANGED <<tasks, oper>>
     ELSE /\ IF conf.background THEN Dispatch(Call("execute", o)) ELSE RunTool(Call("execute", o), FALSE)
          /\ UNCHANGED pending_action
  /\ UNCHANGED <<conf, prepared, mail, voice, turns, bank, agreed>>

\* A ticket or an ordinary e-mail: the question is written by the model, which
\* may fail.
TicketAsked ==
  /\ Plans("ticket")
  /\ pending_action' \in {NoCall, Call("ticket", 0)} /\ att' = NoAtt
  /\ UNCHANGED <<conf, prepared, mail, tasks, oper, voice, turns, bank, agreed>>

\* Mutant of EmailPrepared: any address is used at once.
EmailPreparedUnasked(box) ==
  /\ Plans("email")
  /\ mail' = [mail EXCEPT !.prep = box]
  /\ RunTool(Call("email", box), TRUE) /\ UNCHANGED <<pending_action, prepared>>
  /\ UNCHANGED <<conf, voice, turns, bank, agreed>>

\* A confirmed e-mail that has not taken its address yet: execute_action first
\* reports its start (pipeline.py:1895).
Awaited == {s \in Slots : tasks[s].pc = "begin" /\ tasks[s].call.tool = "email" /\ tasks[s].ok}

\* _prepare_directory_email: the address replaces the one prepared before; the
\* saved one is used at once, another one has to be confirmed (and replaces a
\* bank preview).
EmailPrepared(box) ==
  /\ Plans("email")
  /\ mail' = [mail EXCEPT !.prep = box, !.swapped = IF Awaited # {} THEN @ \union {box} ELSE @]
  /\ IF box = Saved
     THEN RunTool(Call("email", box), FALSE) /\ UNCHANGED <<pending_action, prepared>>
     ELSE /\ pending_action' = Call("email", box) /\ prepared' = 0 /\ att' = NoAtt
          /\ UNCHANGED <<tasks, oper>>
  /\ UNCHANGED <<conf, voice, turns, bank, agreed>>

\* _run_directory_lookup, once the question is clear.
DirectoryLookup ==
  /\ Plans("directory")
  /\ RunTool(Call("directory", 0), FALSE)
  /\ UNCHANGED <<conf, pending_action, prepared, mail, voice, turns, bank, agreed>>

----------------------------------------------------------------------------
(* A request: BankingTools.execute, ActionToolExecutor, DirectoryEmail.send. *)

\* Mutant of Ends: the waiting attempt is not resumed.
EndsUnheard(s, result) ==
  /\ tasks' = [tasks EXCEPT ![s] = NoTask]
  /\ oper' = IF oper.slot # s THEN oper ELSE NoOper
  /\ UNCHANGED att

\* The result of a request, and what waits for it.  A background task drops its
\* operation.  A request whose attempt has left raises CancelledError instead of
\* a result: its operation can be started again, and an attempt that joined it is
\* cancelled with it.  "unknown" is a dict with that status: a confirmed e-mail
\* returns an ActionResult, which engagement.py:239 does not look at.
Ends(s, result) ==
  /\ tasks' = [tasks EXCEPT ![s] = IF @.bg /\ @.call.tool = "prepare" THEN [@ EXCEPT !.pc = "deliver"] ELSE NoTask]
  /\ oper' = IF oper.slot # s \/ oper.state # "running" THEN oper
             ELSE IF tasks[s].bg \/ tasks[s].left THEN NoOper
             ELSE [oper EXCEPT !.state = "done", !.slot = 0,
                               !.result = IF result = "unknown" /\ tasks[s].ok THEN "failed" ELSE result]
  /\ att' = IF att.pc # "wait" \/ att.slot # s THEN att
            ELSE IF tasks[s].left THEN NoAtt ELSE [att EXCEPT !.pc = "result", !.slot = 0]

\* Mutant of Refused: the operation id is not compared with the preview's.
RefusedAnyPreview(s) == prepared = 0 \/ ~tasks[s].ok

\* "The latest preview must be confirmed in a separate caller turn."
Refused(s) == prepared = 0 \/ tasks[s].call.op # prepared \/ ~tasks[s].ok

\* Mutant of PreviewLeft: the preview stays.
PreviewLeftAlways(call) == prepared

\* A preview is forgotten before a new one is asked for or this one is executed.
PreviewLeft(call) == IF call.tool \in {"prepare", "execute"} THEN 0 ELSE prepared

\* The request leaves, in the same step as the checks before it.
Sent(s) ==
  LET c == tasks[s].call
  IN /\ prepared' = PreviewLeft(c)
     /\ tasks' = [tasks EXCEPT ![s].pc = "posted"]
     /\ bank' = CASE c.tool = "execute" -> [bank EXCEPT !.posts[c.op] = @ + 1]
                  [] c.tool = "email" -> [bank EXCEPT !.mails[Box(s)] = @ + 1]
                  [] OTHER -> bank
     /\ mail' = IF c.tool = "email" THEN [mail EXCEPT !.outbox[Box(s)] = "sending"] ELSE mail
     /\ UNCHANGED <<oper, att>>

\* Up to the first await: the checks of _execute, or the claim of the e-mail that
\* is prepared now, whose list is then looked up again.
TaskBegins(s) ==
  /\ tasks[s].pc = "begin"
  /\ LET c == tasks[s].call
         claimed == mail.prep # 0 /\ (mail.prep # Saved => tasks[s].ok)
     IN CASE c.tool = "execute" /\ Refused(s) ->
               Ends(s, "failed") /\ UNCHANGED <<prepared, mail, bank>>
          [] c.tool = "email" ->
               /\ mail' = [mail EXCEPT !.prep = 0]
               /\ IF claimed
                  THEN /\ tasks' = [tasks EXCEPT ![s].pc = "lookup", ![s].op = mail.prep]
                       /\ UNCHANGED <<oper, att>>
                  ELSE Ends(s, "failed")
               /\ UNCHANGED <<prepared, bank>>
          [] c.tool # "email" /\ ~(c.tool = "execute" /\ Refused(s)) ->
               IF conf.voice /\ c.tool \in BankTools
               THEN /\ tasks' = [tasks EXCEPT ![s].pc = "session", ![s].gen = voice.gen]
                    /\ prepared' = IF c.tool = "prepare" THEN 0 ELSE prepared
                    /\ UNCHANGED <<oper, att, mail, bank>>
               ELSE Sent(s)
  /\ UNCHANGED <<conf, pending_action, voice, turns, agreed>>

\* compare(): the verification service answers about the kept utterance, or fails.
Verdicts(g) == IF g = 0 THEN {FALSE} ELSE {voice.owner[g], FALSE}

\* authorize(): the session is checked with the captured utterance ...
SessionChecked(s) ==
  /\ tasks[s].pc = "session"
  /\ \E v \in Verdicts(tasks[s].gen) :
       voice' = IF tasks[s].gen = 0 \/ voice.status = "verified" \/ tasks[s].gen <= voice.checked THEN voice
                ELSE [voice EXCEPT !.checked = tasks[s].gen, !.status = IF v THEN "verified" ELSE "failed"]
  /\ tasks' = [tasks EXCEPT ![s].pc = "compare"]
  /\ UNCHANGED <<conf, att, pending_action, prepared, mail, oper, turns, bank, agreed>>

\* Mutant of Authorized: a verified session is enough.
AuthorizedBySession(s, v) == voice.status = "verified"

\* ... and the utterance is compared once more: it must still be the latest.
Authorized(s, v) ==
  /\ v /\ tasks[s].gen = voice.gen /\ voice.status = "verified"

ActionChecked(s) ==
  /\ tasks[s].pc = "compare"
  /\ \E v \in Verdicts(tasks[s].gen) :
       IF Authorized(s, v)
       THEN Sent(s)
       ELSE Ends(s, "failed") /\ UNCHANGED <<prepared, mail, bank>>
  /\ UNCHANGED <<conf, pending_action, voice, turns, agreed>>

\* Mutant of Recorded: only an accepted e-mail counts.
RecordedAccepted(box) == mail.outbox[box] = "accepted"

\* The outbox has a row for this session, search and recipient.
Recorded(box) == mail.outbox[box] # "none"

\* The e-mail, once the list is fresh: not sent when the same one is recorded
\* in the outbox already, nor when the list is gone.
EmailPosts(s) ==
  /\ tasks[s].pc = "lookup"
  /\ IF Recorded(Box(s))
     THEN /\ Ends(s, IF mail.outbox[Box(s)] = "accepted" THEN "ok" ELSE "unknown")
          /\ UNCHANGED <<prepared, bank, mail>>
     ELSE Sent(s)
  /\ UNCHANGED <<conf, pending_action, voice, turns, agreed>>

ListUnavailable(s) ==
  /\ tasks[s].pc = "lookup"
  /\ Ends(s, "failed")
  /\ UNCHANGED <<conf, pending_action, prepared, mail, voice, turns, bank, agreed>>

Answered(s) ==
  /\ tasks[s].pc = "posted"
  /\ LET c == tasks[s].call
     IN /\ IF c.tool = "prepare" /\ bank.issued < MaxOps
           THEN bank' = [bank EXCEPT !.issued = @ + 1] /\ prepared' = bank.issued + 1
           ELSE UNCHANGED <<bank, prepared>>
        /\ mail' = IF c.tool = "email" THEN [mail EXCEPT !.outbox[Box(s)] = "accepted"]
                   ELSE mail
  /\ Ends(s, "ok")
  /\ UNCHANGED <<conf, pending_action, voice, turns, agreed>>

\* A lost or refused answer: "failed" for the bank and the ticket; a lost one of
\* the e-mail is "unknown".
Unanswered(s) ==
  /\ tasks[s].pc = "posted"
  /\ \E r \in {"failed", "unknown"} :
       /\ r = "unknown" => tasks[s].call.tool = "email"
       /\ mail' = IF tasks[s].call.tool = "email" THEN [mail EXCEPT !.outbox[Box(s)] = r] ELSE mail
       /\ Ends(s, r)
  /\ UNCHANGED <<conf, pending_action, prepared, voice, turns, bank, agreed>>

\* The request sees that its attempt has left (send_with_updates and
\* read_with_update look every few seconds).
Dropped(s) ==
  /\ tasks[s].pc # "free" /\ tasks[s].left
  /\ mail' = Abandoned(s)
  /\ Ends(s, "failed")
  /\ UNCHANGED <<conf, pending_action, prepared, voice, turns, bank, agreed>>

----------------------------------------------------------------------------
(* What follows a result.                                                   *)

\* The attempt that waited: after a preview the caller is asked; otherwise the
\* model goes on, within the rounds of the turn, or with the list it looked up.
ResultUsed ==
  /\ att.pc = "result"
  /\ IF att.call.tool = "prepare" /\ prepared # 0
     THEN pending_action' = Call("execute", prepared) /\ att' = NoAtt
     ELSE /\ \/ att' = NoAtt
             \/ /\ att.rounds < MaxRounds /\ att.call.tool \in {"read", "prepare"}
                /\ att' = [NoAtt EXCEPT !.pc = "plan", !.rounds = att.rounds + 1]
             \/ /\ att.call.tool = "directory"
                /\ att' = [NoAtt EXCEPT !.pc = "plan", !.call = att.call]
          /\ UNCHANGED pending_action
  /\ UNCHANGED <<conf, prepared, mail, tasks, oper, voice, turns, bank, agreed>>

\* _deliver_tool_result of a background preview: the preview is read, the model
\* words the question, and then the caller is asked about what was read.
PreviewRead(s) ==
  /\ tasks[s].pc = "deliver"
  /\ tasks' = [tasks EXCEPT ![s] = IF prepared = 0 THEN NoTask ELSE [@ EXCEPT !.pc = "word", !.op = prepared]]
  /\ UNCHANGED <<conf, att, pending_action, prepared, mail, oper, voice, turns, bank, agreed>>

PreviewAsked(s) ==
  /\ tasks[s].pc = "word"
  /\ pending_action' = Call("execute", tasks[s].op)
  /\ att' = [att EXCEPT !.same = FALSE]
  /\ tasks' = [tasks EXCEPT ![s] = NoTask]
  /\ UNCHANGED <<conf, prepared, mail, oper, voice, turns, bank, agreed>>

----------------------------------------------------------------------------
(* The verification monitor and the check each utterance starts.             *)

UtteranceChecked ==
  /\ conf.voice /\ voice.gen > voice.checked /\ voice.status # "verified"
  /\ \E v \in Verdicts(voice.gen) :
       voice' = [voice EXCEPT !.checked = voice.gen, !.status = IF v THEN "verified" ELSE "failed"]
  /\ UNCHANGED <<conf, att, pending_action, prepared, mail, tasks, oper, turns, bank, agreed>>

PeriodicCheck ==
  /\ conf.voice /\ voice.gen > 0
  /\ \E v \in Verdicts(voice.gen) : voice' = [voice EXCEPT !.status = IF v THEN "verified" ELSE "failed"]
  /\ UNCHANGED <<conf, att, pending_action, prepared, mail, tasks, oper, turns, bank, agreed>>

Request(s) ==
  \/ TaskBegins(s) \/ SessionChecked(s) \/ ActionChecked(s) \/ EmailPosts(s) \/ ListUnavailable(s)
  \/ Answered(s) \/ Unanswered(s) \/ Dropped(s) \/ PreviewRead(s) \/ PreviewAsked(s)

Next ==
  \/ \E b \in BOOLEAN : CallerTurn(b)
  \/ DecisionStale \/ Confirm \/ Reject \/ Revise \/ Unclear \/ NoTool
  \/ \E tool \in Tools : BankTool(tool)
  \/ \E o \in OpIds : BankExecute(o)
  \/ TicketAsked \/ DirectoryLookup
  \/ \E b \in Boxes : EmailPrepared(b)
  \/ \E s \in Slots : Request(s)
  \/ ResultUsed \/ UtteranceChecked \/ PeriodicCheck

Spec == Init /\ [][Next]_vars

\* Requests are bounded by timeouts, so each step of one happens.
FairSpec == Spec /\ \A s \in Slots : WF_vars(Request(s))

----------------------------------------------------------------------------
(* Properties                                                               *)

\* An address the caller confirmed, or, with engagement, one that was prepared
\* while a confirmed e-mail had not taken its own address yet: that e-mail then
\* goes to the newer address, whatever the caller says of it (pipeline.py:1895-1903).
Confirmed(b) == Call("email", b) \in agreed \/ (conf.engaged /\ b \in mail.swapped)

\* Nothing is done but with the caller's word.  What the bank is asked to
\* execute was previewed and then confirmed, by that operation's id, in a caller
\* turn, and (for requests kept in the foreground) is the newest preview.  An
\* e-mail to an address that is not the saved one leaves only in a request that
\* a caller turn confirmed, and to the address that was confirmed, the one case
\* above excepted.  With voice verification a bank request leaves only if the
\* utterance that was the latest when it was authorised is the account owner's.
Authorised ==
  /\ [](/\ \A o \in OpIds : bank.posts[o] > 0 => Call("execute", o) \in agreed
        /\ \A b \in Boxes \ {Saved} : bank.mails[b] > 0 => Confirmed(b)
        /\ \A s \in Slots : tasks[s].pc = "posted" =>
             /\ tasks[s].call.tool = "email" /\ Box(s) # Saved => tasks[s].call \in agreed
             /\ conf.voice /\ tasks[s].call.tool \in BankTools
                  => tasks[s].gen > 0 /\ voice.owner[tasks[s].gen])
  /\ [][\A o \in OpIds : ~conf.background /\ bank'.posts[o] > bank.posts[o] => o = bank.issued]_vars

\* The one combination of settings DoneOnce leaves out: with engagement,
\* background tools and voice verification together a background request
\* overwrites the record of the confirmed one that is still being verified
\* (engagement.py:219), its preview stays (banking_tools.py:329), and a caller who
\* confirms it again can have it executed twice.
OneExecution == ~(conf.engaged /\ conf.background /\ conf.voice)

\* Nothing is done twice: a prepared operation is executed and a destination
\* gets a list at most once, whatever the caller interrupts, repeats or confirms
\* again, and also when a request was cancelled or its answer lost; and no
\* second request is dispatched while one kept in the foreground is unresolved
\* (engagement.py:237).
DoneOnce ==
  /\ OneExecution => \A o \in OpIds : bank.posts[o] <= 1
  /\ \A b \in Boxes : bank.mails[b] <= 1
  /\ conf.engaged /\ ~conf.background => Cardinality({s \in Slots : tasks[s].pc # "free"}) <= 1

\* An attempt that waits for a request is answered, or the caller speaks; only
\* one that joined a request whose own attempt had left goes without an answer
\* (pipeline.py:2073, engagement.py:279).
WaitEnds ==
  /\ att.pc = "wait" ~> att.pc # "wait"
  /\ [][att.pc = "wait" /\ att'.pc = "none" => tasks[att.slot].left]_vars

----------------------------------------------------------------------------
(* The inductive invariant behind DoneOnce and Authorised                    *)

CallSet == [tool : Tools \union {"none"}, op : Nat]
TaskSet == [pc : {"free", "begin", "lookup", "session", "compare", "posted", "deliver", "word"},
            call : CallSet, ok : BOOLEAN, bg : BOOLEAN, left : BOOLEAN, gen : Nat, op : Nat]
AttSet == [pc : {"none", "decide", "plan", "wait", "result"}, call : CallSet, same : BOOLEAN,
           slot : Slots \union {0}, rounds : Nat, reask : Nat]
OperSet == [state : {"none", "running", "done"}, call : CallSet, slot : Slots \union {0},
            result : {"none", "ok", "failed", "unknown"}]

ActionsTypes ==
  /\ conf \in Confs /\ pending_action \in CallSet
  /\ att \in AttSet /\ (att.pc = "wait" => att.slot # 0)
  /\ oper \in OperSet /\ (oper.state = "running" => oper.slot # 0)
  /\ prepared \in {0, bank.issued}
  /\ mail \in [prep : Boxes \union {0}, swapped : SUBSET Boxes,
               outbox : [Boxes -> {"none", "sending", "accepted", "failed", "unknown"}]]
  /\ tasks \in [Slots -> TaskSet]
  /\ voice \in [status : {"pending", "verified", "failed"}, gen : Nat, checked : Nat, owner : Seq(BOOLEAN)]
  /\ Len(voice.owner) = voice.gen
  /\ bank \in [issued : 0 .. MaxOps, posts : [OpIds -> Nat], mails : [Boxes -> Nat]]

\* A request in the foreground is the one the attempt waits for, or the one
\* engagement knows of; a background request is one of the bank's, unconfirmed.
Kept ==
  \A s \in Slots : tasks[s].pc # "free" =>
    /\ tasks[s].bg => conf.background /\ ~tasks[s].ok /\ tasks[s].call.tool \in BankTools
    /\ ~tasks[s].bg /\ ~conf.engaged => att.pc = "wait" /\ att.slot = s
    /\ conf.engaged /\ ~conf.background => oper.state = "running" /\ oper.slot = s

\* What is confirmed was agreed, and names an operation or an address.
Consent ==
  /\ pending_action.tool = "execute" => pending_action.op \in OpIds
  /\ pending_action.tool = "email" => pending_action.op \in Boxes
  /\ \A s \in Slots :
       /\ tasks[s].ok => tasks[s].call \in agreed
       /\ tasks[s].call.tool = "execute" => tasks[s].call.op \in OpIds
       /\ tasks[s].call.tool = "email" => tasks[s].call.op \in Boxes
       /\ tasks[s].pc = "word" => tasks[s].op \in OpIds

\* An execution that is being verified has not been sent, and is the newest.
Executions ==
  /\ \A o \in OpIds : bank.posts[o] > 0 => o # prepared /\ o <= bank.issued /\ Call("execute", o) \in agreed
  /\ OneExecution => \A o \in OpIds : bank.posts[o] <= 1
  /\ \A s \in Slots : tasks[s].pc \in {"session", "compare"} =>
       /\ conf.voice /\ tasks[s].call.tool # "email"
       /\ tasks[s].call.tool = "execute" =>
            /\ tasks[s].ok /\ tasks[s].call.op <= bank.issued
            /\ OneExecution => bank.posts[tasks[s].call.op] = 0
            /\ ~conf.background => tasks[s].call.op = bank.issued

\* An e-mail that left is in the outbox.
Mails ==
  /\ \A b \in Boxes : bank.mails[b] <= 1 /\ (bank.mails[b] > 0 => mail.outbox[b] # "none")
  /\ \A s \in Slots :
       /\ tasks[s].pc = "lookup" => tasks[s].call.tool = "email"
       /\ tasks[s].pc \in {"lookup", "posted"} /\ tasks[s].call.tool = "email" => Box(s) \in Boxes

\* The utterance a request was verified with is the owner's.
Speakers ==
  \A s \in Slots :
    /\ tasks[s].gen <= voice.gen
    /\ tasks[s].pc = "posted" /\ conf.voice /\ tasks[s].call.tool \in BankTools
         => tasks[s].gen > 0 /\ voice.owner[tasks[s].gen]

ActionsInv == ActionsTypes /\ Kept /\ Consent /\ Executions /\ Mails /\ Speakers

\* The address that is prepared, awaits its confirmation, is taken and mailed.
Addresses ==
  /\ ~conf.engaged => mail.swapped = {}
  /\ pending_action.tool = "email" => mail.prep \in {0, Saved, pending_action.op}
  /\ \A s \in Awaited : mail.prep \in {0, Saved, tasks[s].call.op} \union mail.swapped
  /\ \A s \in Slots :
       tasks[s].pc \in {"lookup", "posted"} /\ tasks[s].call.tool = "email" /\ Box(s) # Saved
         => tasks[s].ok /\ Confirmed(Box(s))
  /\ \A b \in Boxes \ {Saved} : bank.mails[b] > 0 => Confirmed(b)
=============================================================================
