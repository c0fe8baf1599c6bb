--------------------------- MODULE ActionsProofs ---------------------------
(***************************************************************************)
(* Proofs about what a caller sets off: Actions for every set of calls,     *)
(* every number of operations, requests in progress, caller turns and tool  *)
(* rounds, and Approval for any number of ceremonies and contexts: its      *)
(* inductive invariant, that a credential stays in its context, and that    *)
(* both flows implement the abstract Ceremony.                              *)
(***************************************************************************)
EXTENDS Actions, Approval, FiniteSetTheorems, TLAPS

USE DEF BankTools

\* A call is a tool and the operation or address it names.
LEMMA CallFields ==
  ASSUME NEW tool \in Tools \union {"none"}, NEW op \in Nat
  PROVE  /\ Call(tool, op) \in CallSet /\ NoCall \in CallSet
         /\ Call(tool, op).tool = tool /\ Call(tool, op).op = op
  BY ActionsAssumption DEF Call, NoCall, CallSet

\* What a new request is.
LEMMA NewTaskFields ==
  ASSUME NEW call \in CallSet, NEW ok \in BOOLEAN, NEW bg \in BOOLEAN
  PROVE  /\ NoTask \in TaskSet /\ NoTask.pc = "free" /\ ~NoTask.ok /\ ~NoTask.bg
         /\ NoTask.gen = 0 /\ NoTask.call.tool = "none"
         /\ NewTask(call, ok, bg) \in TaskSet
         /\ NewTask(call, ok, bg).pc = "begin" /\ NewTask(call, ok, bg).call = call
         /\ NewTask(call, ok, bg).ok = ok /\ NewTask(call, ok, bg).bg = bg
         /\ NewTask(call, ok, bg).gen = 0
<1>1. NoTask = [pc |-> "free", call |-> NoCall, ok |-> FALSE, bg |-> FALSE, left |-> FALSE, gen |-> 0, op |-> 0]
  BY DEF NoTask
<1>2. NoCall \in CallSet /\ NoCall.tool = "none"
  BY ActionsAssumption DEF NoCall, Call, CallSet
<1>3. NoTask \in TaskSet
  BY <1>1, <1>2, ActionsAssumption DEF TaskSet
<1>4. ASSUME NEW t \in TaskSet
      PROVE  LET u == [t EXCEPT !.pc = "begin", !.call = call, !.ok = ok, !.bg = bg]
             IN  u \in TaskSet /\ u.pc = "begin" /\ u.call = call /\ u.ok = ok /\ u.bg = bg /\ u.gen = t.gen
  BY DEF TaskSet
<1> QED BY <1>1, <1>2, <1>3, <1>4 DEF NewTask

\* A new request of an attempt is not in the background.
LEMMA NewForeground ==
  ASSUME NEW call \in CallSet, NEW ok \in BOOLEAN
  PROVE  NewTask(call, ok, FALSE).bg = FALSE
  BY NewTaskFields, Zenon

\* A request keeps its other fields when one changes.
LEMMA TaskFields ==
  ASSUME NEW t \in TaskSet,
         NEW p \in {"free", "begin", "lookup", "session", "compare", "posted", "deliver", "word"},
         NEW ok \in BOOLEAN, NEW g \in Nat, NEW o \in Nat
  PROVE  /\ [t EXCEPT !.pc = p] \in TaskSet
         /\ [t EXCEPT !.pc = p, !.ok = ok] \in TaskSet
         /\ [t EXCEPT !.pc = p, !.gen = g] \in TaskSet
         /\ [t EXCEPT !.pc = p, !.op = o] \in TaskSet
  BY DEF TaskSet

\* No attempt.
LEMMA NoAttFields ==
  /\ NoAtt \in AttSet /\ NoAtt.pc = "none" /\ NoAtt.slot = 0
  /\ NoOper \in OperSet /\ NoOper.state = "none"
<1>1. NoCall \in CallSet
  BY ActionsAssumption DEF NoCall, Call, CallSet
<1> QED BY <1>1 DEF NoAtt, NoOper, AttSet, OperSet

\* A free place for a request.
LEMMA SlotFree == Free # {} => Slot \in Slots /\ tasks[Slot].pc = "free"
  BY DEF Slot, Free

-----------------------------------------------------------------------------
(* The conversation: steps that touch no request                            *)

\* The attempt and the preview move; nothing in progress does.
LEMMA TalkKeeps ==
  ASSUME ActionsInv, UNCHANGED <<conf, tasks, oper, voice, bank, agreed>>,
         prepared' \in {prepared, 0},
         mail' \in [prep : Boxes \union {0}, swapped : SUBSET Boxes, outbox : {mail.outbox}],
         pending_action' \in CallSet,
         pending_action'.tool = "execute" => pending_action'.op \in OpIds,
         pending_action'.tool = "email" => pending_action'.op \in Boxes,
         att' \in AttSet, att'.pc # "wait", att.pc # "wait"
  PROVE  ActionsInv'
<1> USE DEF ActionsInv
<1>1. ActionsTypes'
  BY DEF ActionsTypes
<1>2. Kept'
  BY DEF Kept
<1>3. Consent'
  BY DEF Consent
<1>4. Executions'
  <2>1. \A o \in OpIds : o # 0
    BY DEF OpIds
  <2> QED BY <2>1 DEF Executions, OneExecution
<1>5. Mails'
  BY DEF Mails, ActionsTypes, Box
<1>6. Speakers'
  BY DEF Speakers
<1> QED BY <1>1, <1>2, <1>3, <1>4, <1>5, <1>6

-----------------------------------------------------------------------------
(* A request starts                                                         *)

\* A request is added in a free place.
Adds(call, ok, bg) ==
  \E s \in Slots : tasks[s].pc = "free" /\ tasks' = [tasks EXCEPT ![s] = NewTask(call, ok, bg)]

\* What a new request keeps of everything but who waits for it.
LEMMA AddKeeps ==
  ASSUME ActionsInv, NEW call \in CallSet, NEW ok \in BOOLEAN, NEW bg \in BOOLEAN,
         Adds(call, ok, bg), UNCHANGED <<conf, voice, bank, prepared>>,
         mail' \in [prep : Boxes \union {0}, swapped : SUBSET Boxes, outbox : {mail.outbox}],
         pending_action' \in {pending_action, NoCall}, agreed \subseteq agreed', ok => call \in agreed',
         call.tool = "execute" => call.op \in OpIds, call.tool = "email" => call.op \in Boxes
  PROVE  /\ tasks' \in [Slots -> TaskSet] /\ pending_action' \in CallSet
         /\ Consent' /\ Executions' /\ Mails' /\ Speakers'
<1> USE DEF ActionsInv
<1>1. PICK s \in Slots : tasks[s].pc = "free" /\ tasks' = [tasks EXCEPT ![s] = NewTask(call, ok, bg)]
  BY DEF Adds
<1> DEFINE t == NewTask(call, ok, bg)
<1>2. /\ t \in TaskSet /\ t.pc = "begin" /\ t.call = call /\ t.ok = ok /\ t.gen = 0
  BY NewTaskFields
<1> HIDE DEF t
<1>3. tasks \in [Slots -> TaskSet]
  BY DEF ActionsTypes
<1>4. /\ tasks' \in [Slots -> TaskSet] /\ tasks'[s] = t
      /\ \A r \in Slots : r # s => tasks'[r] = tasks[r]
  BY <1>1, <1>2, <1>3 DEF t
<1>5. pending_action' \in CallSet /\ (pending_action' = pending_action \/ pending_action'.tool = "none")
  BY ActionsAssumption DEF NoCall, Call, CallSet, ActionsTypes
<1>6. Consent'
  <2>1. /\ pending_action'.tool = "execute" => pending_action'.op \in OpIds
        /\ pending_action'.tool = "email" => pending_action'.op \in Boxes
    BY <1>5 DEF Consent
  <2>2. ASSUME NEW r \in Slots
        PROVE  /\ tasks'[r].ok => tasks'[r].call \in agreed'
               /\ tasks'[r].call.tool = "execute" => tasks'[r].call.op \in OpIds
               /\ tasks'[r].call.tool = "email" => tasks'[r].call.op \in Boxes
               /\ tasks'[r].pc = "word" => tasks'[r].op \in OpIds
    BY <1>2, <1>4 DEF Consent
  <2> QED BY <2>1, <2>2 DEF Consent
<1>7. Executions'
  <2>1. \A o \in OpIds : bank'.posts[o] > 0 =>
          o # prepared' /\ o <= bank'.issued /\ Call("execute", o) \in agreed'
    BY DEF Executions
  <2>2. OneExecution' => \A o \in OpIds : bank'.posts[o] <= 1
    BY DEF Executions, OneExecution
  <2>3. ASSUME NEW r \in Slots, tasks'[r].pc \in {"session", "compare"}
        PROVE  tasks'[r] = tasks[r] /\ tasks[r].pc \in {"session", "compare"}
    BY <1>2, <1>4, <2>3
  <2> QED BY <2>1, <2>2, <2>3 DEF Executions, OneExecution
<1>8. Mails'
  <2>1. mail'.outbox = mail.outbox
    OBVIOUS
  <2>2. ASSUME NEW r \in Slots
        PROVE  /\ tasks'[r].pc = "lookup" => tasks'[r].call.tool = "email"
               /\ tasks'[r].pc \in {"lookup", "posted"} /\ tasks'[r].call.tool = "email" => tasks'[r].op \in Boxes
    BY <1>2, <1>4 DEF Mails, Box
  <2> QED BY <2>1, <2>2 DEF Mails, Box
<1>9. Speakers'
  <2>1. voice.gen \in Nat
    BY DEF ActionsTypes
  <2> QED BY <1>2, <1>4, <2>1 DEF Speakers
<1> QED BY <1>4, <1>5, <1>6, <1>7, <1>8, <1>9

\* run_tool adds a request that the attempt waits for, and only where none is
\* in the foreground; else it adds nothing and the attempt waits or has its answer.
LEMMA RunToolDoes ==
  ASSUME ActionsInv, NEW call \in CallSet, NEW ok \in BOOLEAN, RunTool(call, ok),
         att.pc \in {"decide", "plan"}
  PROVE  /\ att' \in AttSet /\ (att'.pc = "wait" => att'.slot # 0)
         /\ oper' \in OperSet /\ (oper'.state = "running" => oper'.slot # 0)
         /\ \/ UNCHANGED <<tasks, oper>>
            \/ /\ Adds(call, ok, FALSE) /\ att'.pc = "wait" /\ tasks[att'.slot].pc = "free"
               /\ tasks' = [tasks EXCEPT ![att'.slot] = NewTask(call, ok, FALSE)]
               /\ conf.engaged => /\ oper.state # "running" /\ oper'.state = "running"
                                  /\ oper'.slot = att'.slot
<1> USE DEF ActionsInv
<1>1. /\ att \in AttSet /\ oper \in OperSet /\ (oper.state = "running" => oper.slot # 0)
  BY DEF ActionsTypes
<1>2. ASSUME NEW p \in {"wait", "result"}, NEW s \in Slots \union {0}
      PROVE  /\ [att EXCEPT !.pc = p, !.call = call] \in AttSet
             /\ [att EXCEPT !.pc = p, !.call = call].pc = p
             /\ [att EXCEPT !.pc = p, !.call = call, !.slot = s] \in AttSet
             /\ [att EXCEPT !.pc = p, !.call = call, !.slot = s].pc = p
             /\ [att EXCEPT !.pc = p, !.call = call, !.slot = s].slot = s
  BY <1>1 DEF AttSet
<1>3. CASE conf.engaged /\ oper.state = "done" /\ oper.result = "unknown"
  BY <1>1, <1>2, <1>3 DEF RunTool
<1>4. CASE conf.engaged /\ oper.state = "running"
  <2>1. oper.slot \in Slots \union {0} /\ oper.slot # 0
    BY <1>1, <1>4 DEF OperSet
  <2>2. UNCHANGED <<tasks, oper>>
    BY <1>4 DEF RunTool
  <2>3. att' \in {[att EXCEPT !.pc = "wait", !.call = call, !.slot = oper.slot],
                  [att EXCEPT !.pc = "result", !.call = call]}
    BY <1>4 DEF RunTool
  <2>4. att' \in AttSet /\ (att'.pc = "wait" => att'.slot # 0)
    <3>1. CASE att' = [att EXCEPT !.pc = "wait", !.call = call, !.slot = oper.slot]
      <4>1. att' \in AttSet /\ att'.slot = oper.slot
        BY <1>2, <2>1, <3>1
      <4> QED BY <2>1, <4>1
    <3>2. CASE att' = [att EXCEPT !.pc = "result", !.call = call]
      <4>1. att' \in AttSet /\ att'.pc = "result"
        BY <1>2, <3>2
      <4> QED BY <4>1
    <3> QED BY <2>3, <3>1, <3>2
  <2> QED BY <1>1, <2>2, <2>4
<1>5. CASE Starts(call, ok) /\ ~(conf.engaged /\ oper.state = "running")
  <2>1. PICK s \in Slots : s = Slot /\ tasks[s].pc = "free"
    BY <1>5, SlotFree DEF Starts
  <2>2. /\ tasks' = [tasks EXCEPT ![s] = NewTask(call, ok, FALSE)]
        /\ att' = [att EXCEPT !.pc = "wait", !.call = call, !.slot = s]
        /\ conf.engaged => oper' = [state |-> "running", call |-> call, slot |-> s, result |-> "none"]
        /\ ~conf.engaged => oper' = oper
    BY <1>5, <2>1 DEF Starts
  <2>3. att' \in AttSet /\ att'.pc = "wait" /\ att'.slot = s /\ s # 0
    <3>1. att' \in AttSet /\ att'.pc = "wait" /\ att'.slot = s
      BY <1>2, <2>2
    <3> QED BY <3>1 DEF Slots
  <2>4. Adds(call, ok, FALSE)
    BY <2>1, <2>2 DEF Adds
  <2>5. oper' \in OperSet /\ (oper'.state = "running" => oper'.slot # 0)
    BY <1>1, <2>2, <2>3 DEF OperSet
  <2>6. tasks[att'.slot].pc = "free" /\ tasks' = [tasks EXCEPT ![att'.slot] = NewTask(call, ok, FALSE)]
    BY <2>1, <2>2, <2>3, Zenon
  <2>7. conf.engaged => oper.state # "running" /\ oper'.state = "running" /\ oper'.slot = att'.slot
    BY <1>5, <2>2, <2>3
  <2> QED BY <2>3, <2>4, <2>5, <2>6, <2>7
<1> QED BY <1>3, <1>4, <1>5 DEF RunTool

\* The caller's attempt calls a tool.
LEMMA RunToolKeeps ==
  ASSUME ActionsInv, NEW call \in CallSet, NEW ok \in BOOLEAN, RunTool(call, ok),
         att.pc \in {"decide", "plan"}, UNCHANGED <<conf, voice, bank, prepared>>,
         mail' \in [prep : Boxes \union {0}, swapped : SUBSET Boxes, outbox : {mail.outbox}],
         pending_action' \in {pending_action, NoCall}, agreed \subseteq agreed', ok => call \in agreed',
         call.tool = "execute" => call.op \in OpIds, call.tool = "email" => call.op \in Boxes
  PROVE  ActionsInv'
<1> USE DEF ActionsInv
<1>1. /\ att' \in AttSet /\ (att'.pc = "wait" => att'.slot # 0)
      /\ oper' \in OperSet /\ (oper'.state = "running" => oper'.slot # 0)
  BY RunToolDoes
<1>2. pending_action' \in CallSet /\ (pending_action' = pending_action \/ pending_action'.tool = "none")
  BY ActionsAssumption DEF NoCall, Call, CallSet, ActionsTypes
<1>3. CASE UNCHANGED <<tasks, oper>>
  <2>1. ActionsTypes'
    BY <1>1, <1>2, <1>3 DEF ActionsTypes
  <2>2. Kept'
    BY <1>3 DEF Kept
  <2>3. Consent'
    BY <1>2, <1>3 DEF Consent
  <2>4. Executions'
    BY <1>3 DEF Executions, OneExecution
  <2>5. Mails'
    BY <1>3 DEF Mails, Box
  <2>6. Speakers'
    BY <1>3 DEF Speakers
  <2> QED BY <2>1, <2>2, <2>3, <2>4, <2>5, <2>6
<1>4. ASSUME Adds(call, ok, FALSE), att'.pc = "wait", tasks[att'.slot].pc = "free",
             tasks' = [tasks EXCEPT ![att'.slot] = NewTask(call, ok, FALSE)],
             conf.engaged => /\ oper.state # "running" /\ oper'.state = "running"
                             /\ oper'.slot = att'.slot
      PROVE  ActionsInv'
  <2>1. /\ tasks' \in [Slots -> TaskSet] /\ pending_action' \in CallSet
        /\ Consent' /\ Executions' /\ Mails' /\ Speakers'
    BY <1>4, AddKeeps
  <2>2. ActionsTypes'
    BY <1>1, <2>1 DEF ActionsTypes
  <2>3. att'.slot \in Slots /\ tasks \in [Slots -> TaskSet]
    BY <1>1, <1>4 DEF AttSet, ActionsTypes
  <2>4. Kept'
    <3> SUFFICES ASSUME NEW s \in Slots, tasks'[s].pc # "free"
                 PROVE  /\ tasks'[s].bg => conf.background /\ ~tasks'[s].ok /\ tasks'[s].call.tool \in BankTools
                        /\ ~tasks'[s].bg /\ ~conf.engaged => att'.pc = "wait" /\ att'.slot = s
                        /\ conf.engaged /\ ~conf.background => oper'.state = "running" /\ oper'.slot = s
      BY DEF Kept
    <3>1. CASE s = att'.slot
      <4>1. tasks'[s].bg = FALSE
        <5>1. tasks'[s] = NewTask(call, ok, FALSE)
          BY <1>4, <2>3, <3>1
        <5>2. NewTask(call, ok, FALSE).bg = FALSE
          BY NewForeground
        <5> QED BY <5>1, <5>2
      <4> QED BY <1>4, <3>1, <4>1
    <3>2. CASE s # att'.slot
      <4>1. tasks'[s] = tasks[s]
        BY <1>4, <2>3, <3>2
      <4> QED BY <1>4, <4>1 DEF Kept
    <3> QED BY <3>1, <3>2
  <2> QED BY <2>1, <2>2, <2>4
<1> QED BY <1>3, <1>4, RunToolDoes

\* A bank call goes to the background: nobody waits for it.
LEMMA DispatchKeeps ==
  ASSUME ActionsInv, NEW call \in CallSet, Dispatch(call), conf.background,
         att.pc = "plan", UNCHANGED <<conf, pending_action, mail, voice, bank, prepared, agreed>>,
         call.tool \in BankTools, call.tool = "execute" => call.op \in OpIds
  PROVE  ActionsInv'
<1> USE DEF ActionsInv
<1>1. PICK s \in Slots : s = Slot /\ tasks[s].pc = "free"
  BY SlotFree DEF Dispatch
<1>2. /\ tasks' = [tasks EXCEPT ![s] = NewTask(call, FALSE, TRUE)] /\ att' = NoAtt
      /\ oper' \in {oper, [state |-> "running", call |-> call, slot |-> s, result |-> "none"]}
  BY <1>1 DEF Dispatch
<1>3. Adds(call, FALSE, TRUE)
  BY <1>1, <1>2 DEF Adds
<1>4. /\ tasks' \in [Slots -> TaskSet] /\ pending_action' \in CallSet
      /\ Consent' /\ Executions' /\ Mails' /\ Speakers'
  <2>1. mail' \in [prep : Boxes \union {0}, swapped : SUBSET Boxes, outbox : {mail.outbox}]
    BY DEF ActionsTypes
  <2>2. FALSE \in BOOLEAN /\ TRUE \in BOOLEAN /\ call.tool # "email"
    OBVIOUS
  <2>3. conf' = conf /\ voice' = voice /\ bank' = bank /\ prepared' = prepared /\ pending_action' = pending_action
        /\ agreed' = agreed
    OBVIOUS
  <2> QED BY <1>3, <2>1, <2>2, <2>3, AddKeeps, Zenon
<1>5. ActionsTypes'
  <2>1. oper' \in OperSet /\ (oper'.state = "running" => oper'.slot # 0)
    BY <1>2 DEF ActionsTypes, OperSet, Slots
  <2> QED BY <1>2, <1>4, <2>1, NoAttFields DEF ActionsTypes
<1>6. Kept'
  <2> SUFFICES ASSUME NEW r \in Slots, tasks'[r].pc # "free"
               PROVE  /\ tasks'[r].bg => conf.background /\ ~tasks'[r].ok /\ tasks'[r].call.tool \in BankTools
                      /\ ~tasks'[r].bg /\ ~conf.engaged => att'.pc = "wait" /\ att'.slot = r
    BY DEF Kept
  <2>1. CASE r = s
    <3>1. tasks'[r] = NewTask(call, FALSE, TRUE)
      BY <1>2, <2>1 DEF ActionsTypes
    <3>2. /\ NewTask(call, FALSE, TRUE).bg = TRUE /\ NewTask(call, FALSE, TRUE).ok = FALSE
          /\ NewTask(call, FALSE, TRUE).call = call
      BY NewTaskFields, Zenon
    <3> QED BY <3>1, <3>2
  <2>2. CASE r # s
    <3>1. tasks'[r] = tasks[r]
      BY <1>2, <2>2 DEF ActionsTypes
    <3> QED BY <3>1 DEF Kept
  <2> QED BY <2>1, <2>2
<1> QED BY <1>4, <1>5, <1>6

-----------------------------------------------------------------------------
(* A request goes on                                                        *)

\* A request that ends leaves its place, or delivers a preview; nobody waits
\* for it any more.
LEMMA EndsKeeps ==
  ASSUME ActionsInv, NEW s \in Slots, NEW r \in {"ok", "failed", "unknown"}, Ends(s, r),
         tasks[s].pc # "free", conf' = conf
  PROVE  /\ att' \in AttSet /\ (att'.pc = "wait" => att'.slot # 0)
         /\ oper' \in OperSet /\ (oper'.state = "running" => oper'.slot # 0)
         /\ tasks' \in [Slots -> TaskSet] /\ Kept'
         /\ \A q \in Slots : \/ q # s /\ tasks'[q] = tasks[q]
                             \/ tasks'[q] = NoTask
                             \/ q = s /\ tasks[s].bg /\ tasks'[q] = [tasks[q] EXCEPT !.pc = "deliver"]
<1> USE DEF ActionsInv
<1>1. /\ att \in AttSet /\ (att.pc = "wait" => att.slot # 0) /\ tasks \in [Slots -> TaskSet]
      /\ oper \in OperSet /\ (oper.state = "running" => oper.slot # 0)
  BY DEF ActionsTypes
<1>2. att' \in AttSet /\ (att'.pc = "wait" => att'.slot # 0)
      /\ (att'.pc = "wait" <=> att.pc = "wait" /\ att.slot # s) /\ (att'.pc = "wait" => att'.slot = att.slot)
  <2>1. CASE att.pc = "wait" /\ att.slot = s
    <3>1. att' \in {NoAtt, [att EXCEPT !.pc = "result", !.slot = 0]}
      BY <2>1 DEF Ends
    <3>2. att' \in AttSet /\ att'.pc # "wait"
      BY <1>1, <3>1, NoAttFields DEF AttSet
    <3> QED BY <2>1, <3>2
  <2>2. CASE ~(att.pc = "wait" /\ att.slot = s)
    <3>1. att' = att
      BY <2>2 DEF Ends
    <3> QED BY <1>1, <2>2, <3>1
  <2> QED BY <2>1, <2>2
<1>3. /\ oper' \in OperSet /\ (oper'.state = "running" => oper'.slot # 0)
      /\ oper.state = "running" /\ oper.slot # s => oper' = oper
  <2>1. CASE oper.slot # s \/ oper.state # "running"
    BY <1>1, <2>1 DEF Ends
  <2>2. CASE oper.slot = s /\ oper.state = "running" /\ (tasks[s].bg \/ tasks[s].left)
    BY <2>2, NoAttFields DEF Ends
  <2>3. CASE oper.slot = s /\ oper.state = "running" /\ ~(tasks[s].bg \/ tasks[s].left)
    <3>1. PICK x \in {"ok", "failed", "unknown"} : oper' = [oper EXCEPT !.state = "done", !.result = x, !.slot = 0]
      BY <2>3 DEF Ends
    <3>2. oper' \in OperSet /\ oper'.state = "done"
      BY <1>1, <3>1 DEF OperSet
    <3> QED BY <2>3, <3>2
  <2> QED BY <2>1, <2>2, <2>3
<1>4. PICK t \in TaskSet : /\ tasks' = [tasks EXCEPT ![s] = t]
                           /\ \/ t = NoTask
                              \/ tasks[s].bg /\ t = [tasks[s] EXCEPT !.pc = "deliver"]
  <2>1. NoTask \in TaskSet /\ [tasks[s] EXCEPT !.pc = "deliver"] \in TaskSet
    BY <1>1, ActionsAssumption DEF NoTask, NoCall, Call, CallSet, TaskSet
  <2>2. CASE tasks[s].bg /\ tasks[s].call.tool = "prepare"
    <3>1. tasks' = [tasks EXCEPT ![s] = [tasks[s] EXCEPT !.pc = "deliver"]]
      BY <2>2 DEF Ends
    <3> QED BY <2>1, <2>2, <3>1
  <2>3. CASE ~(tasks[s].bg /\ tasks[s].call.tool = "prepare")
    <3>1. tasks' = [tasks EXCEPT ![s] = NoTask]
      BY <2>3 DEF Ends
    <3> QED BY <2>1, <3>1
  <2> QED BY <2>2, <2>3
<1>5. /\ tasks' \in [Slots -> TaskSet] /\ tasks'[s] = t
      /\ \A q \in Slots : q # s => tasks'[q] = tasks[q]
  BY <1>1, <1>4
<1>6. /\ t.pc # "free" => /\ t.bg /\ tasks[s].bg /\ t.ok = tasks[s].ok /\ t.call = tasks[s].call
  BY <1>1, <1>4 DEF NoTask, TaskSet
<1>7. Kept'
  <2> SUFFICES ASSUME NEW q \in Slots, tasks'[q].pc # "free"
               PROVE  /\ tasks'[q].bg => conf.background /\ ~tasks'[q].ok /\ tasks'[q].call.tool \in BankTools
                      /\ ~tasks'[q].bg /\ ~conf.engaged => att'.pc = "wait" /\ att'.slot = q
                      /\ conf.engaged /\ ~conf.background => oper'.state = "running" /\ oper'.slot = q
    BY DEF Kept
  <2>1. CASE q = s
    BY <1>5, <1>6, <2>1 DEF Kept
  <2>2. CASE q # s
    <3>1. tasks'[q] = tasks[q]
      BY <1>5, <2>2
    <3> QED BY <1>2, <1>3, <2>2, <3>1 DEF Kept
  <2> QED BY <2>1, <2>2
<1> QED BY <1>2, <1>3, <1>4, <1>5, <1>7

\* Two requests in the foreground are one, unless background tools make
\* engagement forget the first.
LEMMA Alone ==
  ASSUME ActionsInv, ~(conf.engaged /\ conf.background),
         NEW s \in Slots, NEW q \in Slots, tasks[s].pc # "free", tasks[q].pc # "free",
         ~tasks[s].bg, ~tasks[q].bg
  PROVE  s = q
  BY DEF ActionsInv, Kept

MailSet == [prep : Boxes \union {0}, swapped : SUBSET Boxes, outbox : [Boxes -> {"none", "sending", "accepted", "failed", "unknown"}]]

\* A request ends, with or without a preview for its caller.
LEMMA EndKeeps ==
  ASSUME ActionsInv, NEW s \in Slots, NEW r \in {"ok", "failed", "unknown"}, Ends(s, r),
         tasks[s].pc # "free", UNCHANGED <<conf, pending_action, voice, agreed>>,
         \/ UNCHANGED <<bank, prepared>>
         \/ /\ bank.issued < MaxOps /\ bank' = [bank EXCEPT !.issued = @ + 1]
            /\ prepared' = bank.issued + 1,
         mail' \in MailSet,
         \A b \in Boxes : mail.outbox[b] # "none" => mail'.outbox[b] # "none"
  PROVE  ActionsInv'
<1> USE DEF ActionsInv
<1>1. /\ att' \in AttSet /\ (att'.pc = "wait" => att'.slot # 0)
      /\ oper' \in OperSet /\ (oper'.state = "running" => oper'.slot # 0)
      /\ tasks' \in [Slots -> TaskSet] /\ Kept'
      /\ \A q \in Slots : \/ q # s /\ tasks'[q] = tasks[q]
                          \/ tasks'[q] = NoTask
                          \/ q = s /\ tasks[s].bg /\ tasks'[q] = [tasks[q] EXCEPT !.pc = "deliver"]
  BY EndsKeeps
<1>2. /\ bank' \in [issued : 0 .. MaxOps, posts : [OpIds -> Nat], mails : [Boxes -> Nat]]
      /\ bank'.posts = bank.posts /\ bank'.mails = bank.mails
      /\ bank.issued \in Nat /\ bank.issued <= bank'.issued /\ prepared' \in {0, bank'.issued}
      /\ prepared' = prepared \/ prepared' > bank.issued
      /\ bank' = bank \/ bank'.issued = bank.issued + 1
  <2>1. /\ bank \in [issued : 0 .. MaxOps, posts : [OpIds -> Nat], mails : [Boxes -> Nat]]
        /\ prepared \in {0, bank.issued} /\ MaxOps \in Nat
    BY ActionsAssumption DEF ActionsTypes
  <2>2. CASE UNCHANGED <<bank, prepared>>
    BY <2>1, <2>2
  <2>3. CASE /\ bank.issued < MaxOps /\ bank' = [bank EXCEPT !.issued = @ + 1]
             /\ prepared' = bank.issued + 1
    <3>1. /\ bank'.issued = bank.issued + 1 /\ bank'.posts = bank.posts /\ bank'.mails = bank.mails
          /\ bank' \in [issued : {bank.issued + 1}, posts : [OpIds -> Nat], mails : [Boxes -> Nat]]
      BY <2>1, <2>3
    <3>2. bank.issued + 1 \in 0 .. MaxOps
      BY <2>1, <2>3
    <3> QED BY <2>1, <2>3, <3>1, <3>2
  <2> QED BY <2>2, <2>3
<1>3. ActionsTypes'
  BY <1>1, <1>2 DEF ActionsTypes, MailSet
<1>4. \A q \in Slots : \/ q # s /\ tasks'[q] = tasks[q]
                       \/ /\ tasks'[q].pc = "free" /\ ~tasks'[q].ok /\ tasks'[q].gen = 0
                          /\ tasks'[q].call.tool = "none"
                       \/ /\ tasks'[q].pc = "deliver" /\ tasks'[q].ok = tasks[q].ok
                          /\ tasks'[q].gen = tasks[q].gen /\ tasks'[q].call = tasks[q].call
  <2>1. NoTask.pc = "free" /\ ~NoTask.ok /\ NoTask.gen = 0 /\ NoTask.call.tool = "none"
    BY DEF NoTask, NoCall, Call
  <2>2. ASSUME NEW q \in Slots
        PROVE  LET u == [tasks[q] EXCEPT !.pc = "deliver"]
               IN  /\ u.pc = "deliver" /\ u.ok = tasks[q].ok /\ u.gen = tasks[q].gen
                   /\ u.call = tasks[q].call
    BY DEF ActionsTypes, TaskSet
  <2> SUFFICES ASSUME NEW q \in Slots
               PROVE  \/ q # s /\ tasks'[q] = tasks[q]
                      \/ /\ tasks'[q].pc = "free" /\ ~tasks'[q].ok /\ tasks'[q].gen = 0
                         /\ tasks'[q].call.tool = "none"
                      \/ /\ tasks'[q].pc = "deliver" /\ tasks'[q].ok = tasks[q].ok
                         /\ tasks'[q].gen = tasks[q].gen /\ tasks'[q].call = tasks[q].call
    OBVIOUS
  <2>3. CASE q # s /\ tasks'[q] = tasks[q]
    BY <2>3
  <2>4. CASE tasks'[q] = NoTask
    BY <2>1, <2>4
  <2>5. CASE tasks'[q] = [tasks[q] EXCEPT !.pc = "deliver"]
    BY <2>2, <2>5
  <2>6. (q # s /\ tasks'[q] = tasks[q]) \/ tasks'[q] = NoTask \/ tasks'[q] = [tasks[q] EXCEPT !.pc = "deliver"]
    BY <1>1
  <2> QED BY <2>3, <2>4, <2>5, <2>6
<1>5. Consent'
  BY <1>4 DEF Consent
<1>6. Executions'
  <2>1. \A o \in OpIds : bank'.posts[o] > 0 =>
          o # prepared' /\ o <= bank'.issued /\ Call("execute", o) \in agreed'
    BY <1>2 DEF Executions, OpIds
  <2>2. OneExecution' => \A o \in OpIds : bank'.posts[o] <= 1
    BY <1>2 DEF Executions, OneExecution
  <2>3. ASSUME NEW q \in Slots, tasks'[q].pc \in {"session", "compare"}
        PROVE  /\ conf.voice /\ tasks'[q].call.tool # "email"
               /\ tasks'[q].call.tool = "execute" =>
                    /\ tasks'[q].ok /\ tasks'[q].call.op <= bank'.issued
                    /\ OneExecution => bank'.posts[tasks'[q].call.op] = 0
                    /\ ~conf.background => tasks'[q].call.op = bank'.issued
    <3>1. q # s /\ tasks'[q] = tasks[q] /\ tasks[q].pc \in {"session", "compare"}
      BY <1>4, <2>3
    <3>2. /\ conf.voice /\ tasks[q].call.tool # "email"
          /\ tasks[q].call.tool = "execute" =>
               /\ tasks[q].ok /\ tasks[q].call.op <= bank.issued
               /\ OneExecution => bank.posts[tasks[q].call.op] = 0
               /\ ~conf.background => tasks[q].call.op = bank.issued
      BY <3>1 DEF Executions
    <3>3. conf.background
      <4> SUFFICES ASSUME ~conf.background PROVE FALSE
        OBVIOUS
      <4>1. tasks[q].pc # "free" /\ ~tasks[q].bg /\ ~tasks[s].bg
        BY <3>1 DEF Kept
      <4> QED BY <3>1, <4>1, Alone
    <3>4. tasks[q].call.op \in Nat
      BY DEF ActionsTypes, TaskSet, CallSet
    <3> QED BY <1>2, <3>1, <3>2, <3>3, <3>4
  <2> QED BY <2>1, <2>2, <2>3 DEF Executions, OneExecution
<1>7. Mails'
  <2>1. ASSUME NEW q \in Slots
        PROVE  /\ tasks'[q].pc = "lookup" => tasks'[q].call.tool = "email"
               /\ tasks'[q].pc \in {"lookup", "posted"} /\ tasks'[q].call.tool = "email" => tasks'[q].op \in Boxes
    BY <1>4 DEF Mails, Box
  <2>2. \A b \in Boxes : bank'.mails[b] <= 1 /\ (bank'.mails[b] > 0 => mail'.outbox[b] # "none")
    BY <1>2 DEF Mails
  <2> QED BY <2>1, <2>2 DEF Mails, Box
<1>8. Speakers'
  <2>1. voice.gen \in Nat
    BY DEF ActionsTypes
  <2> QED BY <1>4, <2>1 DEF Speakers
<1> QED BY <1>1, <1>3, <1>5, <1>6, <1>7, <1>8

\* A request leaves.
LEMMA SentKeeps ==
  ASSUME ActionsInv, NEW s \in Slots, Sent(s), UNCHANGED <<conf, pending_action, voice, agreed>>,
         tasks[s].pc \in {"begin", "compare", "lookup"},
         tasks[s].call.tool = "execute" =>
           /\ tasks[s].ok /\ tasks[s].call.op <= bank.issued
           /\ OneExecution => /\ bank.posts[tasks[s].call.op] = 0
                              /\ \A q \in Slots \ {s} : tasks[q].pc \in {"session", "compare"}
                                                        => tasks[q].call # tasks[s].call,
         tasks[s].call.tool = "email" => tasks[s].pc = "lookup" /\ mail.outbox[Box(s)] = "none",
         conf.voice /\ tasks[s].call.tool \in BankTools
           => tasks[s].gen > 0 /\ voice.owner[tasks[s].gen]
  PROVE  ActionsInv'
<1> USE DEF ActionsInv
<1> DEFINE c == tasks[s].call
<1>1. /\ tasks \in [Slots -> TaskSet] /\ tasks[s] \in TaskSet /\ c \in CallSet
      /\ c.op \in Nat /\ MaxOps \in Nat
      /\ bank \in [issued : 0 .. MaxOps, posts : [OpIds -> Nat], mails : [Boxes -> Nat]]
      /\ mail \in MailSet /\ bank.issued \in Nat
      /\ c.tool = "email" => Box(s) \in Boxes
  <2>1. tasks \in [Slots -> TaskSet] /\ tasks[s] \in TaskSet
    BY DEF ActionsTypes
  <2>2. c \in CallSet
    BY <2>1 DEF TaskSet
  <2>3. c.op \in Nat
    BY <2>2 DEF CallSet
  <2>4. mail \in MailSet
    BY DEF ActionsTypes, MailSet
  <2>5. MaxOps \in Nat /\ bank \in [issued : 0 .. MaxOps, posts : [OpIds -> Nat], mails : [Boxes -> Nat]]
    BY ActionsAssumption DEF ActionsTypes
  <2>6. bank.issued \in Nat
    BY <2>5
  <2>7. c.tool = "email" => Box(s) \in Boxes
    BY DEF Mails
  <2> QED BY <2>1, <2>2, <2>3, <2>4, <2>5, <2>6, <2>7
<1>2. /\ tasks' \in [Slots -> TaskSet]
      /\ \A q \in Slots \ {s} : tasks'[q] = tasks[q]
      /\ tasks'[s].pc = "posted" /\ tasks'[s].call = c /\ tasks'[s].ok = tasks[s].ok
      /\ tasks'[s].bg = tasks[s].bg /\ tasks'[s].gen = tasks[s].gen /\ tasks'[s].op = tasks[s].op
  <2>1. tasks' = [tasks EXCEPT ![s] = [tasks[s] EXCEPT !.pc = "posted"]]
    BY DEF Sent
  <2>2. LET u == [tasks[s] EXCEPT !.pc = "posted"]
        IN  u \in TaskSet /\ u.pc = "posted" /\ u.call = c /\ u.ok = tasks[s].ok /\ u.bg = tasks[s].bg
            /\ u.gen = tasks[s].gen /\ u.op = tasks[s].op
    BY <1>1 DEF TaskSet
  <2> QED BY <1>1, <2>1, <2>2
<1>3. /\ c.tool = "execute" => bank' = [bank EXCEPT !.posts[c.op] = @ + 1] /\ mail' = mail
      /\ c.tool = "email" => /\ bank' = [bank EXCEPT !.mails[Box(s)] = @ + 1]
                             /\ mail' = [mail EXCEPT !.outbox[Box(s)] = "sending"]
      /\ c.tool \notin {"execute", "email"} => bank' = bank /\ mail' = mail
      /\ prepared' = IF c.tool \in {"prepare", "execute"} THEN 0 ELSE prepared
      /\ UNCHANGED <<oper, att>>
  BY DEF Sent, PreviewLeft
<1>4. /\ bank' \in [issued : {bank.issued}, posts : [OpIds -> Nat], mails : [Boxes -> Nat]]
      /\ mail' \in MailSet
      /\ c.tool # "execute" => bank'.posts = bank.posts
      /\ c.tool = "execute" => /\ c.op \in OpIds /\ bank'.posts[c.op] = bank.posts[c.op] + 1
                               /\ \A o \in OpIds \ {c.op} : bank'.posts[o] = bank.posts[o]
      /\ c.tool # "email" => bank'.mails = bank.mails /\ mail' = mail
      /\ c.tool = "email" => /\ bank'.mails[Box(s)] = bank.mails[Box(s)] + 1
                             /\ \A b \in Boxes \ {Box(s)} : bank'.mails[b] = bank.mails[b]
                             /\ mail'.outbox[Box(s)] = "sending"
                             /\ \A b \in Boxes \ {Box(s)} : mail'.outbox[b] = mail.outbox[b]
  <2>1. CASE c.tool = "execute"
    <3>1. c.op \in OpIds
      BY <1>1, <2>1 DEF Consent, OpIds
    <3> QED BY <1>1, <1>3, <2>1, <3>1
  <2>2. CASE c.tool = "email"
    <3>1. bank' = [bank EXCEPT !.mails[Box(s)] = @ + 1] /\ mail' = [mail EXCEPT !.outbox[Box(s)] = "sending"]
      BY <1>3, <2>2
    <3>2. Box(s) \in Boxes
      BY <1>1, <2>2
    <3> HIDE DEF ActionsInv, c
    <3>3. /\ mail' \in MailSet /\ mail'.outbox[Box(s)] = "sending"
          /\ \A b \in Boxes \ {Box(s)} : mail'.outbox[b] = mail.outbox[b]
      BY <1>1, <3>1, <3>2 DEF MailSet
    <3> QED BY <1>1, <2>2, <3>1, <3>2, <3>3
  <2>3. CASE c.tool \notin {"execute", "email"}
    BY <1>1, <1>3, <2>3
  <2> QED BY <2>1, <2>2, <2>3
<1>5. /\ bank'.issued = bank.issued /\ prepared' \in {0, prepared}
      /\ bank' \in [issued : 0 .. MaxOps, posts : [OpIds -> Nat], mails : [Boxes -> Nat]]
  BY <1>1, <1>3, <1>4
<1>6. ActionsTypes'
  BY <1>2, <1>3, <1>4, <1>5 DEF ActionsTypes, MailSet
<1>7. Kept'
  <2> SUFFICES ASSUME NEW q \in Slots, tasks'[q].pc # "free"
               PROVE  /\ tasks'[q].bg => conf.background /\ ~tasks'[q].ok /\ tasks'[q].call.tool \in BankTools
                      /\ ~tasks'[q].bg /\ ~conf.engaged => att'.pc = "wait" /\ att'.slot = q
                      /\ conf.engaged /\ ~conf.background => oper'.state = "running" /\ oper'.slot = q
    BY DEF Kept
  <2>1. /\ tasks[q].pc # "free" /\ tasks'[q].bg = tasks[q].bg /\ tasks'[q].ok = tasks[q].ok
        /\ tasks'[q].call = tasks[q].call
    BY <1>2
  <2> QED BY <1>3, <2>1 DEF Kept
<1>8. Consent'
  BY <1>2 DEF Consent
<1>9. Executions'
  <2>1. ASSUME NEW o \in OpIds, bank'.posts[o] > 0
        PROVE  o # prepared' /\ o <= bank'.issued /\ Call("execute", o) \in agreed'
    <3>0. o # 0
      BY DEF OpIds
    <3>1. CASE c.tool = "execute" /\ o = c.op
      <4>1. prepared' = 0 /\ c.op <= bank.issued /\ c \in agreed
        BY <1>3, <3>1 DEF Consent
      <4>2. c = Call("execute", o)
        BY <1>1, <3>1 DEF CallSet, Call
      <4> QED BY <1>5, <3>0, <3>1, <4>1, <4>2
    <3>2. CASE ~(c.tool = "execute" /\ o = c.op)
      <4>1. bank.posts[o] > 0
        BY <1>4, <2>1, <3>2
      <4> QED BY <1>5, <3>0, <4>1 DEF Executions
    <3> QED BY <3>1, <3>2
  <2>2. ASSUME OneExecution, NEW o \in OpIds PROVE bank'.posts[o] <= 1
    <3>1. CASE c.tool = "execute" /\ o = c.op
      BY <1>4, <2>2, <3>1
    <3>2. CASE ~(c.tool = "execute" /\ o = c.op)
      BY <1>4, <2>2, <3>2 DEF Executions
    <3> QED BY <3>1, <3>2
  <2>3. ASSUME NEW q \in Slots, tasks'[q].pc \in {"session", "compare"}
        PROVE  /\ conf.voice /\ tasks'[q].call.tool # "email"
               /\ tasks'[q].call.tool = "execute" =>
                    /\ tasks'[q].ok /\ tasks'[q].call.op <= bank'.issued
                    /\ OneExecution => bank'.posts[tasks'[q].call.op] = 0
                    /\ ~conf.background => tasks'[q].call.op = bank'.issued
    <3>1. q # s /\ tasks'[q] = tasks[q] /\ tasks[q].pc \in {"session", "compare"}
      BY <1>2, <2>3
    <3>2. /\ conf.voice /\ tasks[q].call.tool # "email"
          /\ tasks[q].call.tool = "execute" =>
               /\ tasks[q].ok /\ tasks[q].call.op <= bank.issued
               /\ OneExecution => bank.posts[tasks[q].call.op] = 0
               /\ ~conf.background => tasks[q].call.op = bank.issued
      BY <3>1 DEF Executions
    <3>3. ASSUME OneExecution, tasks[q].call.tool = "execute"
          PROVE  bank'.posts[tasks[q].call.op] = 0
      <4>1. tasks[q].call.op \in OpIds /\ tasks[q].call \in CallSet
        BY <1>1, <3>3 DEF Consent, OpIds, TaskSet, CallSet
      <4>2. ~(c.tool = "execute" /\ c.op = tasks[q].call.op)
        <5>1. c.tool = "execute" => c # tasks[q].call
          BY <3>1, <3>3
        <5> QED BY <1>1, <3>3, <4>1, <5>1 DEF CallSet
      <4> QED BY <1>4, <3>2, <3>3, <4>1, <4>2
    <3> QED BY <1>5, <3>1, <3>2, <3>3
  <2> QED BY <2>1, <2>2, <2>3 DEF Executions, OneExecution
<1>10. Mails'
  <2>1. ASSUME NEW b \in Boxes
        PROVE  bank'.mails[b] <= 1 /\ (bank'.mails[b] > 0 => mail'.outbox[b] # "none")
    <3>1. bank.mails[b] \in Nat /\ bank.mails[b] <= 1 /\ (bank.mails[b] > 0 => mail.outbox[b] # "none")
      BY <1>1 DEF Mails
    <3>2. CASE c.tool = "email" /\ b = Box(s)
      BY <1>4, <3>1, <3>2
    <3>3. CASE ~(c.tool = "email" /\ b = Box(s))
      BY <1>4, <3>1, <3>3
    <3> QED BY <3>2, <3>3
  <2>2. \A q \in Slots : tasks'[q].pc \in {"lookup", "posted"} /\ tasks'[q].call.tool = "email" => Box(q)' \in Boxes
    BY <1>2 DEF Mails, Box
  <2>3. \A q \in Slots : tasks'[q].pc = "lookup" => tasks'[q].call.tool = "email"
    BY <1>2 DEF Mails
  <2> QED BY <2>1, <2>2, <2>3 DEF Mails
<1>11. Speakers'
  BY <1>2 DEF Speakers
<1> QED BY <1>6, <1>7, <1>8, <1>9, <1>10, <1>11

VoiceSet == [status : {"pending", "verified", "failed"}, gen : Nat, checked : Nat, owner : Seq(BOOLEAN)]

\* A request takes a step inside the worker, or leaves its place.
LEMMA MoveKeeps ==
  ASSUME ActionsInv, NEW s \in Slots, NEW t \in TaskSet, tasks' = [tasks EXCEPT ![s] = t],
         tasks[s].pc # "free", UNCHANGED <<conf, oper, bank, agreed>>,
         prepared' \in {prepared, 0},
         mail' \in [prep : Boxes \union {0}, swapped : SUBSET Boxes, outbox : {mail.outbox}],
         voice' \in VoiceSet, voice'.gen = voice.gen, voice'.owner = voice.owner,
         att' \in AttSet, att'.pc = att.pc, att'.slot = att.slot,
         pending_action' \in CallSet,
         pending_action'.tool = "execute" => pending_action'.op \in OpIds,
         pending_action'.tool = "email" => pending_action'.op \in Boxes,
         t.ok => t.call \in agreed, t.gen <= voice.gen, t.pc # "posted",
         t.pc # "free" => t.call = tasks[s].call /\ t.bg = tasks[s].bg /\ (t.bg => ~t.ok),
         t.pc = "free" => t.call.tool = "none",
         t.pc = "word" => t.op \in OpIds,
         t.pc = "lookup" => t.call.tool = "email" /\ t.op \in Boxes,
         t.pc \in {"session", "compare"} =>
           /\ conf.voice /\ t.call.tool # "email"
           /\ t.call.tool = "execute" =>
                /\ t.ok /\ t.call.op <= bank.issued
                /\ OneExecution => bank.posts[t.call.op] = 0
                /\ ~conf.background => t.call.op = bank.issued
  PROVE  ActionsInv'
<1> USE DEF ActionsInv
<1>1. /\ tasks' \in [Slots -> TaskSet] /\ tasks'[s] = t
      /\ \A q \in Slots \ {s} : tasks'[q] = tasks[q]
  BY DEF ActionsTypes
<1>2. ActionsTypes'
  <2>1. /\ att' \in AttSet /\ (att'.pc = "wait" => att'.slot # 0)
        /\ oper' \in OperSet /\ (oper'.state = "running" => oper'.slot # 0)
        /\ conf' \in Confs /\ pending_action' \in CallSet
    BY DEF ActionsTypes
  <2>2. prepared' \in {0, bank'.issued}
        /\ bank' \in [issued : 0 .. MaxOps, posts : [OpIds -> Nat], mails : [Boxes -> Nat]]
    BY DEF ActionsTypes
  <2>3. mail' \in [prep : Boxes \union {0}, swapped : SUBSET Boxes, outbox : [Boxes -> {"none", "sending", "accepted", "failed", "unknown"}]]
    BY DEF ActionsTypes
  <2>4. voice' \in [status : {"pending", "verified", "failed"}, gen : Nat, checked : Nat, owner : Seq(BOOLEAN)]
        /\ Len(voice'.owner) = voice'.gen
    BY DEF ActionsTypes, VoiceSet
  <2> QED BY <1>1, <2>1, <2>2, <2>3, <2>4 DEF ActionsTypes
<1>3. Kept'
  <2> SUFFICES ASSUME NEW q \in Slots, tasks'[q].pc # "free"
               PROVE  /\ tasks'[q].bg => conf.background /\ ~tasks'[q].ok /\ tasks'[q].call.tool \in BankTools
                      /\ ~tasks'[q].bg /\ ~conf.engaged => att'.pc = "wait" /\ att'.slot = q
                      /\ conf.engaged /\ ~conf.background => oper'.state = "running" /\ oper'.slot = q
    BY DEF Kept
  <2>1. CASE q = s
    BY <1>1, <2>1 DEF Kept
  <2>2. CASE q # s
    BY <1>1, <2>2 DEF Kept
  <2> QED BY <2>1, <2>2
<1>4. Consent'
  <2>1. ASSUME NEW q \in Slots
        PROVE  /\ tasks'[q].ok => tasks'[q].call \in agreed'
               /\ tasks'[q].call.tool = "execute" => tasks'[q].call.op \in OpIds
               /\ tasks'[q].call.tool = "email" => tasks'[q].call.op \in Boxes
               /\ tasks'[q].pc = "word" => tasks'[q].op \in OpIds
    BY <1>1 DEF Consent
  <2> QED BY <2>1 DEF Consent
<1>5. Executions'
  <2>1. \A o \in OpIds : o # 0
    BY DEF OpIds
  <2>2. \A o \in OpIds : bank'.posts[o] > 0 =>
          o # prepared' /\ o <= bank'.issued /\ Call("execute", o) \in agreed'
    BY <2>1 DEF Executions
  <2>3. OneExecution' => \A o \in OpIds : bank'.posts[o] <= 1
    BY DEF Executions, OneExecution
  <2>4. ASSUME NEW q \in Slots, tasks'[q].pc \in {"session", "compare"}
        PROVE  /\ conf.voice /\ tasks'[q].call.tool # "email"
               /\ tasks'[q].call.tool = "execute" =>
                    /\ tasks'[q].ok /\ tasks'[q].call.op <= bank'.issued
                    /\ OneExecution => bank'.posts[tasks'[q].call.op] = 0
                    /\ ~conf.background => tasks'[q].call.op = bank'.issued
    <3>1. CASE q = s
      BY <1>1, <2>4, <3>1
    <3>2. CASE q # s
      BY <1>1, <2>4, <3>2 DEF Executions
    <3> QED BY <3>1, <3>2
  <2> QED BY <2>2, <2>3, <2>4 DEF Executions, OneExecution
<1>6. Mails'
  <2>1. mail'.outbox = mail.outbox
    OBVIOUS
  <2> QED BY <1>1, <2>1 DEF Mails, Box
<1>7. Speakers'
  BY <1>1 DEF Speakers
<1> QED BY <1>2, <1>3, <1>4, <1>5, <1>6, <1>7

\* The verification's state moves alone.
LEMMA VoiceKeeps ==
  ASSUME ActionsInv, UNCHANGED <<conf, att, pending_action, prepared, mail, tasks, oper, bank, agreed>>,
         voice' \in VoiceSet, voice'.gen = voice.gen, voice'.owner = voice.owner
  PROVE  ActionsInv'
<1> USE DEF ActionsInv
<1>1. ActionsTypes'
  BY DEF ActionsTypes, VoiceSet
<1>2. Kept' /\ Consent' /\ Mails'
  BY DEF Kept, Consent, Mails, Box
<1>3. Executions'
  BY DEF Executions, OneExecution
<1>4. Speakers'
  BY DEF Speakers
<1> QED BY <1>1, <1>2, <1>3, <1>4

-----------------------------------------------------------------------------
(* The actions                                                              *)

\* The caller's turn cancels the request that its attempt waits for, or tells it
\* that the attempt has left.
LEMMA InterruptsTasks ==
  ASSUME ActionsInv, NEW w \in BOOLEAN, CallerTurn(w)
  PROVE  /\ tasks' \in [Slots -> TaskSet]
         /\ \A q \in Slots : \/ /\ ~conf.engaged /\ att.pc = "wait" => q # att.slot
                                /\ tasks'[q].pc = tasks[q].pc /\ tasks'[q].ok = tasks[q].ok /\ tasks'[q].bg = tasks[q].bg
                                /\ tasks'[q].gen = tasks[q].gen /\ tasks'[q].call = tasks[q].call
                                /\ tasks'[q].op = tasks[q].op
                             \/ /\ ~conf.engaged /\ att.pc = "wait" /\ q = att.slot
                                /\ tasks'[q].pc = "free" /\ ~tasks'[q].ok
                                /\ tasks'[q].gen = 0 /\ tasks'[q].call.tool = "none"
<1> DEFINE Cancels == ~conf.engaged /\ att.pc = "wait"
<1>1. /\ tasks \in [Slots -> TaskSet] /\ att \in AttSet /\ (att.pc = "wait" => att.slot # 0)
  BY DEF ActionsInv, ActionsTypes
<1>5. att.pc = "wait" => att.slot \in Slots
  BY <1>1 DEF AttSet
<1>2. CASE Cancels
  <2>1. tasks' = [tasks EXCEPT ![att.slot] = NoTask]
    BY <1>2 DEF CallerTurn, Interrupts
  <2>2. /\ NoTask \in TaskSet /\ NoTask.pc = "free" /\ ~NoTask.ok /\ NoTask.gen = 0
        /\ NoTask.call.tool = "none"
    BY ActionsAssumption DEF NoTask, NoCall, Call, CallSet, TaskSet
  <2> HIDE DEF ActionsInv
  <2> QED BY <1>1, <1>5, <1>2, <2>1, <2>2
<1>3. CASE conf.engaged /\ att.pc = "wait"
  <2>1. PICK b \in BOOLEAN : tasks' = [tasks EXCEPT ![att.slot].left = b]
    BY <1>3 DEF CallerTurn, Interrupts, Posting
  <2>2. ASSUME NEW t \in TaskSet
        PROVE  LET u == [t EXCEPT !.left = b]
               IN  /\ u \in TaskSet /\ u.pc = t.pc /\ u.ok = t.ok /\ u.bg = t.bg
                   /\ u.gen = t.gen /\ u.call = t.call /\ u.op = t.op
    BY DEF TaskSet
  <2>3. tasks' = [tasks EXCEPT ![att.slot] = [tasks[att.slot] EXCEPT !.left = b]]
    BY <1>1, <1>5, <1>3, <2>1
  <2> HIDE DEF ActionsInv
  <2> QED BY <1>1, <1>5, <1>3, <2>2, <2>3
<1>4. CASE att.pc # "wait"
  <2>1. tasks' = tasks
    BY <1>4 DEF CallerTurn
  <2> QED BY <1>1, <1>4, <2>1
<1> QED BY <1>2, <1>3, <1>4

\* The caller speaks.
LEMMA CallerTurnKeeps ==
  ASSUME ActionsInv, NEW w \in BOOLEAN, CallerTurn(w)
  PROVE  ActionsInv'
<1> USE DEF ActionsInv
<1> DEFINE Cancels == ~conf.engaged /\ att.pc = "wait"
<1>1. /\ tasks \in [Slots -> TaskSet] /\ att \in AttSet /\ mail \in MailSet /\ voice \in VoiceSet
      /\ Len(voice.owner) = voice.gen /\ pending_action \in CallSet
  BY DEF ActionsTypes, MailSet, VoiceSet
<1>2. UNCHANGED <<conf, pending_action, prepared, oper, bank, agreed>>
  BY DEF CallerTurn
<1>3. /\ att' \in AttSet /\ att'.pc # "wait"
  <2>1. att' = [NoAtt EXCEPT !.pc = IF pending_action # NoCall THEN "decide" ELSE "plan", !.call = pending_action,
                             !.same = TRUE, !.reask = IF pending_action = att.call THEN att.reask ELSE 0]
    BY DEF CallerTurn
  <2>2. ASSUME NEW a \in AttSet, NEW p \in {"decide", "plan"}, NEW n \in Nat
        PROVE  LET b == [a EXCEPT !.pc = p, !.call = pending_action, !.same = TRUE, !.reask = n]
               IN  b \in AttSet /\ b.pc = p
    BY <1>1 DEF AttSet
  <2>3. (IF pending_action = att.call THEN att.reask ELSE 0) \in Nat
        /\ (IF pending_action # NoCall THEN "decide" ELSE "plan") \in {"decide", "plan"}
    BY <1>1 DEF AttSet
  <2>4. NoAtt \in AttSet
    BY NoAttFields
  <2> HIDE DEF ActionsInv
  <2> QED BY <2>1, <2>2, <2>3, <2>4
<1>4. /\ tasks' \in [Slots -> TaskSet]
      /\ \A q \in Slots : \/ /\ Cancels => q # att.slot
                             /\ tasks'[q].pc = tasks[q].pc /\ tasks'[q].ok = tasks[q].ok /\ tasks'[q].bg = tasks[q].bg
                             /\ tasks'[q].gen = tasks[q].gen /\ tasks'[q].call = tasks[q].call
                             /\ tasks'[q].op = tasks[q].op
                          \/ /\ Cancels /\ q = att.slot /\ tasks'[q].pc = "free" /\ ~tasks'[q].ok
                             /\ tasks'[q].gen = 0 /\ tasks'[q].call.tool = "none"
  BY InterruptsTasks
<1>5. /\ mail' \in MailSet /\ \A b \in Boxes : mail.outbox[b] # "none" => mail'.outbox[b] # "none"
  <2>1. \/ mail' = mail
        \/ \E b : mail' = [mail EXCEPT !.outbox[b] = "unknown"]
    BY DEF CallerTurn, Interrupts, Abandoned
  <2> QED BY <1>1, <2>1 DEF MailSet
<1>6. /\ voice' \in VoiceSet /\ Len(voice'.owner) = voice'.gen /\ voice.gen <= voice'.gen
      /\ \A g \in 1 .. voice.gen : voice'.owner[g] = voice.owner[g]
  <2>1. CASE conf.voice
    <3>1. voice' = [voice EXCEPT !.gen = @ + 1, !.owner = Append(@, w)]
      BY <2>1 DEF CallerTurn
    <3>2. voice.owner \in Seq(BOOLEAN) /\ voice.gen \in Nat
      BY <1>1 DEF VoiceSet
    <3>3. /\ Append(voice.owner, w) \in Seq(BOOLEAN) /\ Len(Append(voice.owner, w)) = voice.gen + 1
          /\ \A g \in 1 .. voice.gen : Append(voice.owner, w)[g] = voice.owner[g]
      BY <1>1, <3>2
    <3>4. voice'.gen = voice.gen + 1 /\ voice'.owner = Append(voice.owner, w) /\ voice' \in VoiceSet
      <4> DEFINE q == Append(voice.owner, w)
      <4>1. voice' = [voice EXCEPT !.gen = voice.gen + 1, !.owner = q]
        BY <1>1, <3>1 DEF VoiceSet
      <4>2. voice.gen + 1 \in Nat /\ q \in Seq(BOOLEAN)
        BY <3>2, <3>3
      <4> HIDE DEF q, ActionsInv
      <4>3. voice' \in VoiceSet /\ voice'.gen = voice.gen + 1 /\ voice'.owner = q
        <5>1. voice \in VoiceSet
          BY <1>1
        <5> QED BY <4>1, <4>2, <5>1 DEF VoiceSet
      <4> QED BY <4>3 DEF q
    <3> QED BY <3>2, <3>3, <3>4
  <2>2. CASE ~conf.voice
    <3>1. voice' = voice
      BY <2>2 DEF CallerTurn
    <3>2. voice.gen \in Nat
      BY <1>1 DEF VoiceSet
    <3> QED BY <1>1, <3>1, <3>2
  <2> QED BY <2>1, <2>2
<1> HIDE DEF Cancels
<1>7. ActionsTypes'
  BY <1>2, <1>3, <1>4, <1>5, <1>6 DEF ActionsTypes, MailSet, VoiceSet
<1>8. Kept'
  <2> SUFFICES ASSUME NEW q \in Slots, tasks'[q].pc # "free"
               PROVE  /\ tasks'[q].bg => conf.background /\ ~tasks'[q].ok /\ tasks'[q].call.tool \in BankTools
                      /\ tasks'[q].bg \/ conf.engaged
                      /\ conf.engaged /\ ~conf.background => oper'.state = "running" /\ oper'.slot = q
    BY <1>2 DEF Kept
  <2>1. /\ tasks'[q].pc = tasks[q].pc /\ tasks'[q].ok = tasks[q].ok /\ tasks'[q].bg = tasks[q].bg
        /\ tasks'[q].call = tasks[q].call /\ (Cancels => q # att.slot)
    BY <1>4
  <2>2. tasks[q].bg \/ conf.engaged
    <3> SUFFICES ASSUME ~tasks[q].bg, ~conf.engaged PROVE FALSE
      OBVIOUS
    <3>1. att.pc = "wait" /\ att.slot = q
      BY <2>1 DEF Kept
    <3> QED BY <2>1, <3>1 DEF Cancels, Slots
  <2> QED BY <1>2, <2>1, <2>2 DEF Kept
<1>9. Consent'
  BY <1>2, <1>4 DEF Consent
<1>10. Executions'
  <2>1. \A q \in Slots : tasks'[q].pc \in {"session", "compare"} =>
          tasks'[q].pc = tasks[q].pc /\ tasks'[q].ok = tasks[q].ok /\ tasks'[q].call = tasks[q].call
    BY <1>4
  <2> QED BY <1>2, <2>1 DEF Executions, OneExecution
<1>11. Mails'
  BY <1>2, <1>4, <1>5 DEF Mails, Box
<1>12. Speakers'
  <2>1. ASSUME NEW q \in Slots
        PROVE  /\ tasks'[q].gen <= voice'.gen
               /\ tasks'[q].pc = "posted" /\ conf'.voice /\ tasks'[q].call.tool \in BankTools
                    => tasks'[q].gen > 0 /\ voice'.owner[tasks'[q].gen]
    <3>1. voice.gen \in Nat /\ voice'.gen \in Nat /\ tasks[q].gen \in Nat
      BY <1>1, <1>6 DEF VoiceSet, TaskSet
    <3>2. CASE /\ tasks'[q].pc = tasks[q].pc /\ tasks'[q].gen = tasks[q].gen /\ tasks'[q].call = tasks[q].call
      <4>1. tasks[q].gen <= voice.gen
        BY DEF Speakers
      <4>2. ASSUME tasks[q].pc = "posted", conf.voice, tasks[q].call.tool \in BankTools
            PROVE  tasks[q].gen > 0 /\ voice'.owner[tasks[q].gen]
        <5>1. tasks[q].gen > 0 /\ voice.owner[tasks[q].gen]
          BY <4>2 DEF Speakers
        <5>2. tasks[q].gen \in 1 .. voice.gen
          BY <3>1, <4>1, <5>1
        <5> QED BY <1>6, <5>1, <5>2
      <4> QED BY <1>2, <1>6, <3>1, <3>2, <4>1, <4>2
    <3>3. CASE tasks'[q].pc = "free" /\ tasks'[q].gen = 0
      BY <3>1, <3>3
    <3> QED BY <1>4, <3>2, <3>3
  <2> QED BY <2>1 DEF Speakers
<1> QED BY <1>7, <1>8, <1>9, <1>10, <1>11, <1>12

\* What the attempt becomes when it ends, is replanned or asks again.
LEMMA AttNext ==
  ASSUME NEW call \in CallSet, NEW n \in Nat
  PROVE  /\ LET a == [NoAtt EXCEPT !.pc = "plan"]
            IN  a \in AttSet /\ a.pc = "plan"
         /\ LET a == [NoAtt EXCEPT !.pc = "plan", !.rounds = n]
            IN  a \in AttSet /\ a.pc = "plan"
         /\ LET a == [NoAtt EXCEPT !.pc = "plan", !.call = call]
            IN  a \in AttSet /\ a.pc = "plan"
         /\ LET a == [NoAtt EXCEPT !.call = call, !.reask = n]
            IN  a \in AttSet /\ a.pc = "none"
<1>1. NoAtt \in AttSet /\ NoAtt.pc = "none"
  BY NoAttFields
<1>2. ASSUME NEW a \in AttSet
      PROVE  /\ [a EXCEPT !.pc = "plan"] \in AttSet /\ [a EXCEPT !.pc = "plan"].pc = "plan"
             /\ [a EXCEPT !.pc = "plan", !.rounds = n] \in AttSet
             /\ [a EXCEPT !.pc = "plan", !.rounds = n].pc = "plan"
             /\ [a EXCEPT !.pc = "plan", !.call = call] \in AttSet
             /\ [a EXCEPT !.pc = "plan", !.call = call].pc = "plan"
             /\ [a EXCEPT !.call = call, !.reask = n] \in AttSet
             /\ [a EXCEPT !.call = call, !.reask = n].pc = a.pc
  BY DEF AttSet
<1> QED BY <1>1, <1>2

\* The caller's reply to a question ends in words.
LEMMA ReplyKeeps ==
  ASSUME ActionsInv, DecisionStale \/ Reject \/ Revise \/ Unclear \/ NoTool
  PROVE  ActionsInv'
<1>1. /\ pending_action \in CallSet /\ NoCall \in CallSet /\ NoCall.tool = "none" /\ att \in AttSet
      /\ pending_action.tool = "execute" => pending_action.op \in OpIds
      /\ pending_action.tool = "email" => pending_action.op \in Boxes
      /\ mail \in [prep : Boxes \union {0}, swapped : SUBSET Boxes, outbox : {mail.outbox}]
  BY ActionsAssumption DEF ActionsInv, ActionsTypes, Consent, NoCall, Call, CallSet
<1>2. /\ UNCHANGED <<conf, tasks, oper, voice, bank, agreed>> /\ att.pc # "wait"
      /\ prepared' \in {prepared, 0} /\ pending_action' \in {pending_action, NoCall}
  BY DEF DecisionStale, Reject, Revise, Unclear, NoTool
<1>3. mail' \in [prep : Boxes \union {0}, swapped : SUBSET Boxes, outbox : {mail.outbox}]
  <2>1. mail' \in {mail, [mail EXCEPT !.prep = 0]}
    BY DEF DecisionStale, Reject, Revise, Unclear, NoTool
  <2> QED BY <1>1, <2>1
<1>4. att' \in AttSet /\ att'.pc # "wait"
  <2>1. \/ att' = NoAtt \/ att' = [NoAtt EXCEPT !.pc = "plan"]
        \/ att' = [NoAtt EXCEPT !.call = pending_action, !.reask = att.reask + 1]
    BY DEF DecisionStale, Reject, Revise, Unclear, NoTool
  <2>2. att.reask + 1 \in Nat
    BY <1>1 DEF AttSet
  <2>3. NoAtt \in AttSet /\ NoAtt.pc # "wait"
    BY NoAttFields
  <2>4. [NoAtt EXCEPT !.pc = "plan"] \in AttSet /\ [NoAtt EXCEPT !.pc = "plan"].pc # "wait"
    BY <1>1, <2>2, AttNext
  <2>5. LET a == [NoAtt EXCEPT !.call = pending_action, !.reask = att.reask + 1]
        IN  a \in AttSet /\ a.pc # "wait"
    BY <1>1, <2>2, AttNext
  <2> QED BY <2>1, <2>3, <2>4, <2>5
<1>5. /\ pending_action' \in CallSet
      /\ pending_action'.tool = "execute" => pending_action'.op \in OpIds
      /\ pending_action'.tool = "email" => pending_action'.op \in Boxes
  BY <1>1, <1>2
<1> QED BY <1>2, <1>3, <1>4, <1>5, TalkKeeps

\* The caller confirms: the call he was asked about is made.
LEMMA ConfirmKeeps ==
  ASSUME ActionsInv, Confirm
  PROVE  ActionsInv'
<1>1. /\ pending_action \in CallSet
      /\ pending_action.tool = "execute" => pending_action.op \in OpIds
      /\ pending_action.tool = "email" => pending_action.op \in Boxes
      /\ mail \in [prep : Boxes \union {0}, swapped : SUBSET Boxes, outbox : {mail.outbox}]
  BY DEF ActionsInv, ActionsTypes, Consent
<1>2. /\ att.pc \in {"decide", "plan"} /\ UNCHANGED <<conf, voice, bank, prepared>> /\ mail' = mail
      /\ pending_action' \in {pending_action, NoCall} /\ agreed \subseteq agreed' /\ pending_action \in agreed'
  BY DEF Confirm
<1>3. RunTool(pending_action, TRUE)
  BY DEF Confirm
<1>4. TRUE \in BOOLEAN
  OBVIOUS
<1>5. mail' \in [prep : Boxes \union {0}, swapped : SUBSET Boxes, outbox : {mail.outbox}]
  BY <1>1, <1>2
<1>6. \A call \in CallSet, ok \in BOOLEAN :
        /\ RunTool(call, ok) /\ (ok => call \in agreed')
        /\ call.tool = "execute" => call.op \in OpIds
        /\ call.tool = "email" => call.op \in Boxes
        => ActionsInv'
  BY <1>2, <1>5, RunToolKeeps
<1> QED BY <1>1, <1>2, <1>3, <1>4, <1>6, Zenon

\* The attempt calls a tool on its own: nothing it asks for counts as confirmed.
LEMMA AskKeeps ==
  ASSUME ActionsInv, NEW call \in CallSet, RunTool(call, FALSE), att.pc = "plan",
         UNCHANGED <<conf, voice, bank, prepared, pending_action, agreed>>,
         mail' \in [prep : Boxes \union {0}, swapped : SUBSET Boxes, outbox : {mail.outbox}],
         call.tool = "execute" => call.op \in OpIds, call.tool = "email" => call.op \in Boxes
  PROVE  ActionsInv'
<1>1. /\ att.pc \in {"decide", "plan"} /\ UNCHANGED <<conf, voice, bank, prepared>>
      /\ pending_action' \in {pending_action, NoCall} /\ agreed \subseteq agreed'
  OBVIOUS
<1>2. \A ok \in BOOLEAN : RunTool(call, ok) /\ (ok => call \in agreed') => ActionsInv'
  BY <1>1, RunToolKeeps
<1>3. FALSE \in BOOLEAN
  OBVIOUS
<1> QED BY <1>2, <1>3, Zenon

\* A bank tool.
LEMMA BankToolKeeps ==
  ASSUME ActionsInv, NEW tool \in Tools, BankTool(tool)
  PROVE  ActionsInv'
<1>1. /\ att.pc = "plan" /\ tool \in {"read", "prepare"}
      /\ UNCHANGED <<conf, pending_action, prepared, mail, voice, bank, agreed>>
  BY DEF BankTool, Plans
<1>2. PICK call \in CallSet : call = Call(tool, 0) /\ call.tool = tool
  BY ActionsAssumption, CallFields
<1>3. mail' \in [prep : Boxes \union {0}, swapped : SUBSET Boxes, outbox : {mail.outbox}]
  BY <1>1 DEF ActionsInv, ActionsTypes
<1>4. /\ conf.background => Dispatch(call)
      /\ ~conf.background => RunTool(call, FALSE)
  BY <1>2 DEF BankTool
<1>5. /\ call.tool \in BankTools /\ call.tool # "execute" /\ call.tool # "email"
  BY <1>1, <1>2
<1>6. CASE conf.background
  BY <1>1, <1>4, <1>5, <1>6, DispatchKeeps
<1>7. CASE ~conf.background
  BY <1>1, <1>3, <1>4, <1>5, <1>7, AskKeeps
<1> QED BY <1>6, <1>7

\* The model asks to execute an operation.
LEMMA BankExecuteKeeps ==
  ASSUME ActionsInv, NEW o \in OpIds, BankExecute(o)
  PROVE  ActionsInv'
<1>1. /\ att.pc = "plan" /\ UNCHANGED <<conf, prepared, mail, voice, bank, agreed>>
  BY DEF BankExecute, Plans
<1>2. mail' \in [prep : Boxes \union {0}, swapped : SUBSET Boxes, outbox : {mail.outbox}]
  BY <1>1 DEF ActionsInv, ActionsTypes
<1>3. prepared \in OpIds \union {0} /\ prepared \in Nat /\ o \in Nat
  BY ActionsAssumption DEF ActionsInv, ActionsTypes, OpIds
<1>4. CASE prepared # 0
  <2>1. pending_action' = Call("execute", prepared) /\ att' = NoAtt /\ UNCHANGED <<tasks, oper>>
    BY <1>4 DEF BankExecute
  <2>2. /\ pending_action' \in CallSet /\ pending_action'.tool = "execute" /\ pending_action'.op = prepared
        /\ pending_action'.op \in OpIds
    BY <1>3, <1>4, <2>1, CallFields DEF Tools
  <2>3. /\ att' \in AttSet /\ att'.pc # "wait" /\ att.pc # "wait"
    BY <1>1, <2>1, NoAttFields
  <2> QED BY <1>1, <1>2, <1>4, <2>1, <2>2, <2>3, TalkKeeps
<1>5. CASE prepared = 0
  <2>1. PICK call \in CallSet : call = Call("execute", o) /\ call.tool = "execute" /\ call.op = o
    BY <1>3, CallFields DEF Tools
  <2>2. /\ pending_action' = pending_action
        /\ conf.background => Dispatch(call)
        /\ ~conf.background => RunTool(call, FALSE)
    BY <1>5, <2>1 DEF BankExecute
  <2>3. CASE conf.background
    BY <1>1, <1>3, <2>1, <2>2, <2>3, DispatchKeeps
  <2>4. CASE ~conf.background
    BY <1>1, <1>2, <1>3, <2>1, <2>2, <2>4, AskKeeps
  <2> QED BY <2>3, <2>4
<1> QED BY <1>4, <1>5

\* A ticket or another e-mail: the caller is asked.
LEMMA TicketAskedKeeps ==
  ASSUME ActionsInv, TicketAsked
  PROVE  ActionsInv'
<1>1. /\ att.pc = "plan" /\ UNCHANGED <<conf, prepared, mail, tasks, oper, voice, bank, agreed>>
      /\ pending_action' \in {NoCall, Call("ticket", 0)} /\ att' = NoAtt
  BY DEF TicketAsked, Plans
<1>2. mail' \in [prep : Boxes \union {0}, swapped : SUBSET Boxes, outbox : {mail.outbox}]
  BY <1>1 DEF ActionsInv, ActionsTypes
<1>3. pending_action' \in CallSet /\ pending_action'.tool \in {"none", "ticket"}
  BY <1>1, ActionsAssumption DEF NoCall, Call, CallSet, Tools
<1>4. att' \in AttSet /\ att'.pc # "wait" /\ att.pc # "wait"
  BY <1>1, NoAttFields
<1> QED BY <1>1, <1>2, <1>3, <1>4, TalkKeeps

\* The list is to be sent: to the saved address at once.
LEMMA EmailPreparedKeeps ==
  ASSUME ActionsInv, NEW b \in Boxes, EmailPrepared(b)
  PROVE  ActionsInv'
<1>1. /\ att.pc = "plan" /\ UNCHANGED <<conf, voice, bank, agreed>>
      /\ mail' = [mail EXCEPT !.prep = b, !.swapped = IF Awaited # {} THEN @ \union {b} ELSE @]
  BY DEF EmailPrepared, Plans
<1>2. mail' \in [prep : Boxes \union {0}, swapped : SUBSET Boxes, outbox : {mail.outbox}]
  BY <1>1 DEF ActionsInv, ActionsTypes
<1>3. PICK call \in CallSet : call = Call("email", b) /\ call.tool = "email" /\ call.op = b
  BY CallFields DEF Tools, Boxes
<1>4. CASE b # Saved
  <2>1. pending_action' = call /\ prepared' = 0 /\ att' = NoAtt /\ UNCHANGED <<tasks, oper>>
    BY <1>3, <1>4 DEF EmailPrepared
  <2>2. att' \in AttSet /\ att'.pc # "wait" /\ att.pc # "wait"
    BY <1>1, <2>1, NoAttFields
  <2> QED BY <1>1, <1>2, <1>3, <2>1, <2>2, TalkKeeps
<1>5. CASE b = Saved
  <2>1. RunTool(call, FALSE) /\ UNCHANGED <<pending_action, prepared>>
    BY <1>3, <1>5 DEF EmailPrepared
  <2> QED BY <1>1, <1>2, <1>3, <2>1, AskKeeps
<1> QED BY <1>4, <1>5

\* The directory is asked.
LEMMA DirectoryLookupKeeps ==
  ASSUME ActionsInv, DirectoryLookup
  PROVE  ActionsInv'
<1>1. /\ att.pc = "plan" /\ UNCHANGED <<conf, pending_action, prepared, mail, voice, bank, agreed>>
  BY DEF DirectoryLookup, Plans
<1>2. mail' \in [prep : Boxes \union {0}, swapped : SUBSET Boxes, outbox : {mail.outbox}]
  BY <1>1 DEF ActionsInv, ActionsTypes
<1>3. PICK call \in CallSet : call = Call("directory", 0) /\ call.tool = "directory"
  BY CallFields DEF Tools
<1>4. RunTool(call, FALSE) /\ call.tool # "execute" /\ call.tool # "email"
  BY <1>3 DEF DirectoryLookup
<1> QED BY <1>1, <1>2, <1>4, AskKeeps

\* The waiting attempt has its answer.
LEMMA ResultUsedKeeps ==
  ASSUME ActionsInv, ResultUsed
  PROVE  ActionsInv'
<1>1. /\ att.pc = "result" /\ UNCHANGED <<conf, prepared, mail, tasks, oper, voice, bank, agreed>>
      /\ \/ pending_action' = Call("execute", prepared) /\ prepared # 0 /\ att' = NoAtt
         \/ /\ pending_action' = pending_action
            /\ att' \in {NoAtt, [NoAtt EXCEPT !.pc = "plan", !.rounds = att.rounds + 1],
                        [NoAtt EXCEPT !.pc = "plan", !.call = att.call]}
  BY DEF ResultUsed
<1>2. mail' \in [prep : Boxes \union {0}, swapped : SUBSET Boxes, outbox : {mail.outbox}]
  BY <1>1 DEF ActionsInv, ActionsTypes
<1>3. /\ prepared \in OpIds \union {0} /\ pending_action \in CallSet
      /\ att.rounds + 1 \in Nat /\ att.call \in CallSet
      /\ pending_action.tool = "execute" => pending_action.op \in OpIds
      /\ pending_action.tool = "email" => pending_action.op \in Boxes
  BY ActionsAssumption DEF ActionsInv, ActionsTypes, AttSet, Consent, OpIds
<1>4. /\ pending_action' \in CallSet
      /\ pending_action'.tool = "execute" => pending_action'.op \in OpIds
      /\ pending_action'.tool = "email" => pending_action'.op \in Boxes
  <2>1. /\ Call("execute", prepared) \in CallSet /\ Call("execute", prepared).tool = "execute"
        /\ Call("execute", prepared).op = prepared
    BY <1>3, CallFields DEF Tools, OpIds
  <2> QED BY <1>1, <1>3, <2>1
<1>5. att' \in AttSet /\ att'.pc # "wait"
  <2>1. NoAtt \in AttSet /\ NoAtt.pc # "wait"
    BY NoAttFields
  <2>2. LET a == [NoAtt EXCEPT !.pc = "plan", !.rounds = att.rounds + 1]
        IN  a \in AttSet /\ a.pc # "wait"
    BY <1>3, AttNext
  <2>3. LET a == [NoAtt EXCEPT !.pc = "plan", !.call = att.call]
        IN  a \in AttSet /\ a.pc # "wait"
    BY <1>3, AttNext
  <2> QED BY <1>1, <2>1, <2>2, <2>3
<1> QED BY <1>1, <1>2, <1>4, <1>5, TalkKeeps

\* An execution that is not refused is of the newest preview, never sent before.
LEMMA Unrefused ==
  ASSUME ActionsInv, NEW s \in Slots, tasks[s].call.tool = "execute", ~Refused(s)
  PROVE  /\ tasks[s].ok /\ tasks[s].call.op = bank.issued /\ tasks[s].call.op <= bank.issued
         /\ tasks[s].call.op \in OpIds /\ bank.posts[tasks[s].call.op] = 0
<1>1. /\ tasks[s].ok /\ tasks[s].call.op = prepared /\ prepared # 0 /\ prepared = bank.issued
      /\ bank.issued \in 0 .. MaxOps /\ bank.posts \in [OpIds -> Nat] /\ MaxOps \in Nat
  BY ActionsAssumption DEF Refused, ActionsInv, ActionsTypes
<1>2. bank.issued \in OpIds /\ bank.issued <= bank.issued
  BY <1>1 DEF OpIds
<1>3. ~(bank.posts[bank.issued] > 0)
  BY <1>1, <1>2 DEF ActionsInv, Executions
<1>4. bank.posts[bank.issued] \in Nat
  BY <1>1, <1>2
<1> QED BY <1>1, <1>2, <1>3, <1>4

\* A request takes up its work.
LEMMA TaskBeginsKeeps ==
  ASSUME ActionsInv, NEW s \in Slots, TaskBegins(s)
  PROVE  ActionsInv'
<1> DEFINE c == tasks[s].call
<1>1. /\ tasks[s].pc = "begin" /\ UNCHANGED <<conf, pending_action, voice, agreed>>
  BY DEF TaskBegins
<1>2. /\ tasks \in [Slots -> TaskSet] /\ tasks[s] \in TaskSet /\ mail \in MailSet /\ voice \in VoiceSet
      /\ att \in AttSet /\ pending_action \in CallSet /\ prepared \in {0, bank.issued}
      /\ pending_action.tool = "execute" => pending_action.op \in OpIds
      /\ pending_action.tool = "email" => pending_action.op \in Boxes
      /\ mail.prep \in Boxes \union {0} /\ voice.gen \in Nat
  BY DEF ActionsInv, ActionsTypes, Consent, MailSet, VoiceSet
<1>3. /\ tasks[s].ok => c \in agreed
      /\ tasks[s].bg => ~tasks[s].ok /\ c.tool \in BankTools
      /\ tasks[s].gen <= voice.gen
  BY <1>1 DEF ActionsInv, Consent, Kept, Speakers
<1>4. CASE c.tool = "execute" /\ Refused(s)
  <2>1. Ends(s, "failed") /\ UNCHANGED <<prepared, mail, bank>>
    BY <1>4 DEF TaskBegins
  <2> QED BY <1>1, <1>2, <2>1, EndKeeps
<1>5. CASE c.tool = "email"
  <2> DEFINE claimed == mail.prep # 0 /\ (mail.prep # Saved => tasks[s].ok)
  <2>1. /\ mail' = [mail EXCEPT !.prep = 0] /\ UNCHANGED <<prepared, bank>>
        /\ claimed => /\ tasks' = [tasks EXCEPT ![s].pc = "lookup", ![s].op = mail.prep]
                      /\ UNCHANGED <<oper, att>>
        /\ ~claimed => Ends(s, "failed")
    BY <1>5 DEF TaskBegins
  <2>2. /\ mail' \in MailSet /\ mail'.outbox = mail.outbox
        /\ mail' \in [prep : Boxes \union {0}, swapped : SUBSET Boxes, outbox : {mail.outbox}]
    BY <1>2, <2>1 DEF MailSet
  <2>5. mail.prep \in Nat
    BY <1>2 DEF Boxes
  <2>3. CASE claimed
    <3>1. tasks' = [tasks EXCEPT ![s] = [tasks[s] EXCEPT !.pc = "lookup", !.op = mail.prep]]
      BY <1>2, <2>1, <2>3
    <3>2. PICK t \in TaskSet : /\ tasks' = [tasks EXCEPT ![s] = t] /\ t.pc = "lookup" /\ t.call = c
                               /\ t.bg = tasks[s].bg /\ t.gen = tasks[s].gen /\ t.ok = tasks[s].ok /\ t.op = mail.prep
      <4>1. LET t == [tasks[s] EXCEPT !.pc = "lookup", !.op = mail.prep]
            IN  /\ t \in TaskSet /\ t.pc = "lookup" /\ t.call = c
                /\ t.bg = tasks[s].bg /\ t.gen = tasks[s].gen /\ t.ok = tasks[s].ok /\ t.op = mail.prep
        BY <1>2, <2>5 DEF TaskSet
      <4> QED BY <3>1, <4>1
    <3>5. t.op \in Boxes
      BY <1>2, <2>3, <3>2
    <3>3. ~t.bg /\ (t.ok => t.call \in agreed) /\ t.gen <= voice.gen /\ t.call.tool = "email"
      BY <1>3, <1>5, <2>3, <3>2
    <3> HIDE DEF c, claimed
    <3>4. t.call = tasks[s].call
      BY <3>2 DEF c
    <3> QED BY <1>1, <1>2, <2>1, <2>2, <2>3, <3>2, <3>3, <3>4, <3>5, MoveKeeps
  <2>4. CASE ~claimed
    BY <1>1, <2>1, <2>2, <2>4, EndKeeps
  <2> QED BY <2>3, <2>4
<1>6. CASE c.tool # "email" /\ ~(c.tool = "execute" /\ Refused(s)) /\ conf.voice /\ c.tool \in BankTools
  <2>1. /\ tasks' = [tasks EXCEPT ![s].pc = "session", ![s].gen = voice.gen]
        /\ prepared' \in {prepared, 0} /\ UNCHANGED <<oper, att, mail, bank>>
    BY <1>6 DEF TaskBegins
  <2>2. tasks' = [tasks EXCEPT ![s] = [tasks[s] EXCEPT !.pc = "session", !.gen = voice.gen]]
    BY <1>2, <2>1
  <2>3. PICK t \in TaskSet : /\ tasks' = [tasks EXCEPT ![s] = t] /\ t.pc = "session" /\ t.call = c
                             /\ t.bg = tasks[s].bg /\ t.gen = voice.gen /\ t.ok = tasks[s].ok
    <3>1. LET t == [tasks[s] EXCEPT !.pc = "session", !.gen = voice.gen]
          IN  /\ t \in TaskSet /\ t.pc = "session" /\ t.call = c
              /\ t.bg = tasks[s].bg /\ t.gen = voice.gen /\ t.ok = tasks[s].ok
      BY <1>2 DEF TaskSet
    <3> QED BY <2>2, <3>1
  <2>4. mail' \in [prep : Boxes \union {0}, swapped : SUBSET Boxes, outbox : {mail.outbox}]
    BY <1>2, <2>1 DEF MailSet
  <2>5. /\ conf.voice /\ t.call.tool # "email"
        /\ t.call.tool = "execute" =>
             /\ t.ok /\ t.call.op <= bank.issued
             /\ OneExecution => bank.posts[t.call.op] = 0
             /\ ~conf.background => t.call.op = bank.issued
    BY <1>6, <2>3, Unrefused
  <2>6. /\ t.ok => t.call \in agreed
        /\ t.gen <= voice.gen /\ t.call = tasks[s].call /\ (t.bg => ~t.ok)
    BY <1>2, <1>3, <2>3
  <2> HIDE DEF c
  <2> QED BY <1>1, <1>2, <2>1, <2>3, <2>4, <2>5, <2>6, MoveKeeps
<1>7. CASE c.tool # "email" /\ ~(c.tool = "execute" /\ Refused(s)) /\ ~(conf.voice /\ c.tool \in BankTools)
  <2>1. Sent(s)
    BY <1>7 DEF TaskBegins
  <2>2. ASSUME c.tool = "execute"
        PROVE  /\ tasks[s].ok /\ c.op <= bank.issued /\ bank.posts[c.op] = 0
               /\ \A q \in Slots \ {s} : tasks[q].pc \notin {"session", "compare"}
    <3>1. ~conf.voice
      BY <1>7, <2>2
    <3>2. tasks[s].ok /\ c.op <= bank.issued /\ bank.posts[c.op] = 0
      BY <1>7, <2>2, Unrefused
    <3> QED BY <3>1, <3>2 DEF ActionsInv, Executions
  <2> QED BY <1>1, <1>7, <2>1, <2>2, SentKeeps
<1> QED BY <1>4, <1>5, <1>6, <1>7

\* The verification service answers about the session.
LEMMA SessionCheckedKeeps ==
  ASSUME ActionsInv, NEW s \in Slots, SessionChecked(s)
  PROVE  ActionsInv'
<1>1. /\ tasks[s].pc = "session" /\ tasks' = [tasks EXCEPT ![s].pc = "compare"]
      /\ UNCHANGED <<conf, att, pending_action, prepared, mail, oper, bank, agreed>>
  BY DEF SessionChecked
<1>2. /\ tasks \in [Slots -> TaskSet] /\ tasks[s] \in TaskSet /\ mail \in MailSet /\ voice \in VoiceSet
      /\ att \in AttSet /\ pending_action \in CallSet
      /\ pending_action.tool = "execute" => pending_action.op \in OpIds
      /\ pending_action.tool = "email" => pending_action.op \in Boxes
  BY DEF ActionsInv, ActionsTypes, Consent, MailSet, VoiceSet
<1>3. PICK t \in TaskSet : /\ tasks' = [tasks EXCEPT ![s] = t] /\ t.pc = "compare" /\ t.call = tasks[s].call
                           /\ t.bg = tasks[s].bg /\ t.gen = tasks[s].gen /\ t.ok = tasks[s].ok
  <2>1. tasks' = [tasks EXCEPT ![s] = [tasks[s] EXCEPT !.pc = "compare"]]
    BY <1>1, <1>2
  <2>2. LET t == [tasks[s] EXCEPT !.pc = "compare"]
        IN  /\ t \in TaskSet /\ t.pc = "compare" /\ t.call = tasks[s].call
            /\ t.bg = tasks[s].bg /\ t.gen = tasks[s].gen /\ t.ok = tasks[s].ok
    BY <1>2 DEF TaskSet
  <2> QED BY <2>1, <2>2
<1>4. voice' \in VoiceSet /\ voice'.gen = voice.gen /\ voice'.owner = voice.owner
  <2>1. \/ voice' = voice
        \/ \E st \in {"verified", "failed"} : voice' = [voice EXCEPT !.checked = tasks[s].gen, !.status = st]
    BY DEF SessionChecked
  <2>2. tasks[s].gen \in Nat
    BY <1>2 DEF TaskSet
  <2> QED BY <1>2, <2>1, <2>2 DEF VoiceSet
<1>5. mail' \in [prep : Boxes \union {0}, swapped : SUBSET Boxes, outbox : {mail.outbox}]
  BY <1>1, <1>2 DEF MailSet
<1>6. /\ conf.voice /\ t.call.tool # "email"
      /\ t.call.tool = "execute" =>
           /\ t.ok /\ t.call.op <= bank.issued
           /\ OneExecution => bank.posts[t.call.op] = 0
           /\ ~conf.background => t.call.op = bank.issued
  BY <1>1, <1>3 DEF ActionsInv, Executions
<1>7. /\ t.ok => t.call \in agreed
      /\ t.bg => ~t.ok
      /\ t.gen <= voice.gen
  BY <1>1, <1>3 DEF ActionsInv, Kept, Consent, Speakers
<1> QED BY <1>1, <1>2, <1>3, <1>4, <1>5, <1>6, <1>7, MoveKeeps

\* ... and about the utterance: the request leaves, or is refused.
LEMMA ActionCheckedKeeps ==
  ASSUME ActionsInv, NEW s \in Slots, ActionChecked(s)
  PROVE  ActionsInv'
<1>1. /\ tasks[s].pc = "compare" /\ UNCHANGED <<conf, pending_action, voice, agreed>>
  BY DEF ActionChecked
<1>2. PICK v \in Verdicts(tasks[s].gen) :
        IF Authorized(s, v) THEN Sent(s) ELSE Ends(s, "failed") /\ UNCHANGED <<prepared, mail, bank>>
  BY DEF ActionChecked
<1>3. CASE Authorized(s, v)
  <2>1. tasks[s].gen > 0 /\ voice.owner[tasks[s].gen]
    <3>1. tasks[s].gen \in Nat
      BY DEF ActionsInv, ActionsTypes, TaskSet
    <3>2. v /\ tasks[s].gen # 0 /\ voice.owner[tasks[s].gen]
      BY <1>2, <1>3 DEF Authorized, Verdicts
    <3> QED BY <3>1, <3>2
  <2>2. /\ conf.voice /\ tasks[s].call.tool # "email"
        /\ tasks[s].call.tool = "execute" =>
             /\ tasks[s].ok /\ tasks[s].call.op <= bank.issued
             /\ OneExecution => bank.posts[tasks[s].call.op] = 0
    BY <1>1 DEF ActionsInv, Executions
  <2>3. ASSUME tasks[s].call.tool = "execute", OneExecution, NEW q \in Slots \ {s},
               tasks[q].pc \in {"session", "compare"}, tasks[q].call = tasks[s].call
        PROVE  FALSE
    <3>1. tasks[s].ok /\ tasks[q].ok
      BY <2>2, <2>3 DEF ActionsInv, Executions
    <3>2. ~tasks[s].bg /\ ~tasks[q].bg
      BY <1>1, <2>3, <3>1 DEF ActionsInv, Kept
    <3> QED BY <1>1, <2>2, <2>3, <3>2, Alone DEF OneExecution
  <2> QED BY <1>1, <1>2, <1>3, <2>1, <2>2, <2>3, SentKeeps
<1>4. CASE ~Authorized(s, v)
  <2>1. mail \in MailSet
    BY DEF ActionsInv, ActionsTypes, MailSet
  <2> QED BY <1>1, <1>2, <1>4, <2>1, EndKeeps
<1> QED BY <1>3, <1>4

\* The list goes out, unless the outbox has it.
LEMMA EmailPostsKeeps ==
  ASSUME ActionsInv, NEW s \in Slots, EmailPosts(s) \/ ListUnavailable(s)
  PROVE  ActionsInv'
<1>1. /\ tasks[s].pc = "lookup" /\ UNCHANGED <<conf, pending_action, voice, agreed>>
  BY DEF EmailPosts, ListUnavailable
<1>2. tasks[s].call.tool = "email" /\ mail \in MailSet
  BY <1>1 DEF ActionsInv, ActionsTypes, Mails, MailSet
<1>3. CASE \E r \in {"ok", "failed", "unknown"} : Ends(s, r) /\ UNCHANGED <<prepared, bank, mail>>
  BY <1>1, <1>2, <1>3, EndKeeps
<1>4. CASE EmailPosts(s) /\ ~Recorded(Box(s))
  <2>1. Sent(s) /\ mail.outbox[Box(s)] = "none"
    BY <1>4 DEF EmailPosts, Recorded
  <2> QED BY <1>1, <1>2, <2>1, SentKeeps
<1>5. CASE EmailPosts(s) /\ Recorded(Box(s))
  <2>1. Ends(s, IF mail.outbox[Box(s)] = "accepted" THEN "ok" ELSE "unknown") /\ UNCHANGED <<prepared, bank, mail>>
    BY <1>5 DEF EmailPosts
  <2> QED BY <1>3, <2>1
<1>6. CASE ListUnavailable(s)
  BY <1>3, <1>6 DEF ListUnavailable
<1> QED BY <1>4, <1>5, <1>6

\* The service answers, or does not, or the request has lost its attempt.
LEMMA AnsweredKeeps ==
  ASSUME ActionsInv, NEW s \in Slots, Answered(s) \/ Unanswered(s) \/ Dropped(s)
  PROVE  ActionsInv'
<1>1. /\ tasks[s].pc # "free" /\ UNCHANGED <<conf, pending_action, voice, agreed>>
      /\ \/ UNCHANGED <<bank, prepared>>
         \/ /\ bank.issued < MaxOps /\ bank' = [bank EXCEPT !.issued = @ + 1]
            /\ prepared' = bank.issued + 1
  BY DEF Answered, Unanswered, Dropped
<1>2. PICK r \in {"ok", "failed", "unknown"} :
        Ends(s, r) /\ (mail' = mail \/ \E x \in {"accepted", "failed", "unknown"} : mail' = [mail EXCEPT !.outbox[Box(s)] = x])
  BY DEF Answered, Unanswered, Dropped, Abandoned
<1>3. /\ mail' \in MailSet /\ \A b \in Boxes : mail.outbox[b] # "none" => mail'.outbox[b] # "none"
  <2>1. mail \in MailSet
    BY DEF ActionsInv, ActionsTypes, MailSet
  <2> QED BY <1>2, <2>1 DEF MailSet
<1> QED BY <1>1, <1>2, <1>3, EndKeeps

\* A background preview is read, then the caller is asked about it.
LEMMA PreviewKeeps ==
  ASSUME ActionsInv, NEW s \in Slots, PreviewRead(s) \/ PreviewAsked(s)
  PROVE  ActionsInv'
<1>1. /\ tasks \in [Slots -> TaskSet] /\ tasks[s] \in TaskSet /\ mail \in MailSet /\ voice \in VoiceSet
      /\ att \in AttSet /\ pending_action \in CallSet /\ prepared \in OpIds \union {0} /\ tasks[s].op \in Nat
      /\ pending_action.tool = "execute" => pending_action.op \in OpIds
      /\ pending_action.tool = "email" => pending_action.op \in Boxes
      /\ voice.gen \in Nat
  BY ActionsAssumption DEF ActionsInv, ActionsTypes, Consent, MailSet, VoiceSet, TaskSet, OpIds
<1>2. /\ tasks[s].pc \in {"deliver", "word"} /\ UNCHANGED <<conf, prepared, mail, oper, voice, bank, agreed>>
  BY DEF PreviewRead, PreviewAsked
<1>3. mail' \in [prep : Boxes \union {0}, swapped : SUBSET Boxes, outbox : {mail.outbox}]
  BY <1>1, <1>2 DEF MailSet
<1>4. /\ NoTask \in TaskSet /\ NoTask.pc = "free" /\ ~NoTask.ok /\ NoTask.gen <= voice.gen /\ NoTask.call.tool = "none"
  <2>1. /\ NoTask \in TaskSet /\ NoTask.pc = "free" /\ ~NoTask.ok /\ NoTask.gen = 0 /\ NoTask.call.tool = "none"
    BY ActionsAssumption DEF NoTask, NoCall, Call, CallSet, TaskSet
  <2> QED BY <1>1, <2>1
<1>5. CASE PreviewRead(s)
  <2>1. UNCHANGED <<att, pending_action>>
    BY <1>5 DEF PreviewRead
  <2>2. CASE prepared = 0
    <3>1. tasks' = [tasks EXCEPT ![s] = NoTask]
      BY <1>5, <2>2 DEF PreviewRead
    <3> QED BY <1>1, <1>2, <1>3, <1>4, <2>1, <3>1, MoveKeeps
  <2>3. CASE prepared # 0
    <3>1. tasks' = [tasks EXCEPT ![s] = [tasks[s] EXCEPT !.pc = "word", !.op = prepared]]
      BY <1>5, <2>3 DEF PreviewRead
    <3>2. PICK t \in TaskSet : /\ tasks' = [tasks EXCEPT ![s] = t] /\ t.pc = "word" /\ t.call = tasks[s].call
                               /\ t.bg = tasks[s].bg /\ t.gen = tasks[s].gen /\ t.ok = tasks[s].ok
                               /\ t.op = prepared
      <4>1. ASSUME NEW u \in TaskSet, NEW o \in Nat
            PROVE  LET t == [u EXCEPT !.pc = "word", !.op = o]
                   IN  /\ t \in TaskSet /\ t.pc = "word" /\ t.call = u.call
                       /\ t.bg = u.bg /\ t.gen = u.gen /\ t.ok = u.ok /\ t.op = o
        BY DEF TaskSet
      <4>2. prepared \in Nat /\ tasks[s] \in TaskSet
        BY <1>1, ActionsAssumption DEF OpIds
      <4> QED BY <3>1, <4>1, <4>2
    <3>3. /\ t.ok => t.call \in agreed
          /\ t.bg => ~t.ok
          /\ t.gen <= voice.gen
      BY <1>2, <3>2 DEF ActionsInv, Kept, Consent, Speakers
    <3> QED BY <1>1, <1>2, <1>3, <2>1, <2>3, <3>2, <3>3, MoveKeeps
  <2> QED BY <2>2, <2>3
<1>6. CASE PreviewAsked(s)
  <2>1. /\ tasks' = [tasks EXCEPT ![s] = NoTask] /\ att' = [att EXCEPT !.same = FALSE]
        /\ pending_action' = Call("execute", tasks[s].op) /\ tasks[s].pc = "word"
    BY <1>6 DEF PreviewAsked
  <2>2. att' \in AttSet /\ att'.pc = att.pc /\ att'.slot = att.slot
    BY <1>1, <2>1 DEF AttSet
  <2>3. tasks[s].op \in OpIds
    BY <2>1 DEF ActionsInv, Consent
  <2>4. pending_action' \in CallSet /\ pending_action'.tool = "execute" /\ pending_action'.op \in OpIds
    BY <1>1, <2>1, <2>3, CallFields DEF Tools
  <2> QED BY <1>1, <1>2, <1>3, <1>4, <2>1, <2>2, <2>4, MoveKeeps
<1> QED BY <1>5, <1>6

\* The verification monitor.
LEMMA MonitorKeeps ==
  ASSUME ActionsInv, UtteranceChecked \/ PeriodicCheck
  PROVE  ActionsInv'
<1>1. UNCHANGED <<conf, att, pending_action, prepared, mail, tasks, oper, bank, agreed>>
  BY DEF UtteranceChecked, PeriodicCheck
<1>2. voice' \in VoiceSet /\ voice'.gen = voice.gen /\ voice'.owner = voice.owner
  <2>1. voice \in VoiceSet /\ voice.gen \in Nat
    BY DEF ActionsInv, ActionsTypes, VoiceSet
  <2>2. \E st \in {"verified", "failed"} : \/ voice' = [voice EXCEPT !.checked = voice.gen, !.status = st]
                                           \/ voice' = [voice EXCEPT !.status = st]
    BY DEF UtteranceChecked, PeriodicCheck
  <2> QED BY <2>1, <2>2 DEF VoiceSet
<1> QED BY <1>1, <1>2, VoiceKeeps

-----------------------------------------------------------------------------
(* The theorems                                                             *)

\* The initial states: nothing is asked for.
LEMMA InvInit == Init => ActionsInv
<1> SUFFICES ASSUME Init PROVE ActionsInv
  OBVIOUS
<1>1. /\ conf \in Confs /\ att = NoAtt /\ pending_action = NoCall /\ prepared = 0 /\ oper = NoOper
      /\ mail = [prep |-> 0, outbox |-> [b \in Boxes |-> "none"], swapped |-> {}]
      /\ tasks = [s \in Slots |-> NoTask]
      /\ voice = [status |-> "pending", gen |-> 0, checked |-> 0, owner |-> <<>>]
      /\ bank = [issued |-> 0, posts |-> [o \in OpIds |-> 0], mails |-> [b \in Boxes |-> 0]]
  BY DEF Init
<1>2. NoCall \in CallSet /\ NoCall.tool = "none"
  BY ActionsAssumption DEF NoCall, Call, CallSet
<1>3. /\ NoTask \in TaskSet /\ NoTask.pc = "free" /\ ~NoTask.ok /\ NoTask.gen = 0 /\ NoTask.call.tool = "none"
  BY ActionsAssumption DEF NoTask, NoCall, Call, CallSet, TaskSet
<1>4. ActionsTypes
  <2>1. tasks \in [Slots -> TaskSet]
    BY <1>1, <1>3
  <2>2. /\ mail \in [prep : Boxes \union {0}, swapped : SUBSET Boxes, outbox : [Boxes -> {"none", "sending", "accepted", "failed", "unknown"}]]
    BY <1>1
  <2>3. voice \in [status : {"pending", "verified", "failed"}, gen : Nat, checked : Nat, owner : Seq(BOOLEAN)]
        /\ Len(voice.owner) = voice.gen
    BY <1>1
  <2>4. bank \in [issued : 0 .. MaxOps, posts : [OpIds -> Nat], mails : [Boxes -> Nat]] /\ bank.issued = 0
    BY <1>1, ActionsAssumption
  <2> QED BY <1>1, <1>2, <2>1, <2>2, <2>3, <2>4, NoAttFields DEF ActionsTypes
<1>5. \A s \in Slots : tasks[s] = NoTask
  BY <1>1
<1>6. Kept /\ Consent /\ Speakers
  BY <1>1, <1>2, <1>3, <1>5 DEF Kept, Consent, Speakers
<1>7. Executions
  BY <1>1, <1>3, <1>5 DEF Executions
<1>8. Mails
  BY <1>1, <1>3, <1>5 DEF Mails, Boxes
<1> QED BY <1>4, <1>6, <1>7, <1>8 DEF ActionsInv

\* Every step keeps the invariant: one case per action.
LEMMA InvNext == ActionsInv /\ [Next]_vars => ActionsInv'
<1> SUFFICES ASSUME ActionsInv, [Next]_vars PROVE ActionsInv'
  OBVIOUS
<1>1. CASE \E b \in BOOLEAN : CallerTurn(b)
  BY <1>1, CallerTurnKeeps
<1>2. CASE DecisionStale \/ Reject \/ Revise \/ Unclear \/ NoTool
  BY <1>2, ReplyKeeps
<1>3. CASE Confirm
  BY <1>3, ConfirmKeeps
<1>4. CASE \E tool \in Tools : BankTool(tool)
  BY <1>4, BankToolKeeps
<1>5. CASE \E o \in OpIds : BankExecute(o)
  BY <1>5, BankExecuteKeeps
<1>6. CASE TicketAsked \/ DirectoryLookup
  BY <1>6, TicketAskedKeeps, DirectoryLookupKeeps
<1>7. CASE \E b \in Boxes : EmailPrepared(b)
  BY <1>7, EmailPreparedKeeps
<1>8. CASE \E s \in Slots : Request(s)
  <2>1. PICK s \in Slots : Request(s)
    BY <1>8
  <2>2. CASE TaskBegins(s)
    BY <2>2, TaskBeginsKeeps
  <2>3. CASE SessionChecked(s)
    BY <2>3, SessionCheckedKeeps
  <2>4. CASE ActionChecked(s)
    BY <2>4, ActionCheckedKeeps
  <2>5. CASE EmailPosts(s) \/ ListUnavailable(s)
    BY <2>5, EmailPostsKeeps
  <2>6. CASE Answered(s) \/ Unanswered(s) \/ Dropped(s)
    BY <2>6, AnsweredKeeps
  <2>7. CASE PreviewRead(s) \/ PreviewAsked(s)
    BY <2>7, PreviewKeeps
  <2> QED BY <2>1, <2>2, <2>3, <2>4, <2>5, <2>6, <2>7 DEF Request
<1>9. CASE ResultUsed
  BY <1>9, ResultUsedKeeps
<1>10. CASE UtteranceChecked \/ PeriodicCheck
  BY <1>10, MonitorKeeps
<1>11. CASE UNCHANGED vars
  <2>1. UNCHANGED <<conf, att, pending_action, prepared, mail, tasks, oper, bank, agreed>> /\ voice' = voice
    BY <1>11 DEF vars
  <2>2. voice \in VoiceSet
    BY DEF ActionsInv, ActionsTypes, VoiceSet
  <2> QED BY <2>1, <2>2, VoiceKeeps
<1> QED BY <1>1, <1>2, <1>3, <1>4, <1>5, <1>6, <1>7, <1>8, <1>9, <1>10, <1>11 DEF Next

\* How a step may treat the addresses: nothing is prepared but forgotten, a new
\* confirmed e-mail is the call that was pending, and what is taken or mailed was
\* confirmed.
LEMMA AddressesKept ==
  ASSUME ActionsInv, Addresses, conf' = conf, agreed \subseteq agreed',
         mail'.swapped = mail.swapped, mail'.prep \in {mail.prep, 0},
         pending_action'.tool = "email" => pending_action' = pending_action,
         \A q \in Slots : tasks'[q].pc = "begin" /\ tasks'[q].call.tool = "email" /\ tasks'[q].ok =>
           \/ q \in Awaited /\ tasks'[q].call = tasks[q].call
           \/ tasks'[q].call = pending_action,
         \A q \in Slots : tasks'[q].pc \in {"lookup", "posted"} /\ tasks'[q].call.tool = "email" /\ tasks'[q].op # Saved =>
           \/ /\ tasks[q].pc \in {"lookup", "posted"} /\ tasks[q].call.tool = "email"
              /\ tasks'[q].op = tasks[q].op /\ tasks'[q].ok = tasks[q].ok
           \/ tasks'[q].ok /\ Confirmed(tasks'[q].op),
         \A b \in Boxes \ {Saved} : bank'.mails[b] > 0 => bank.mails[b] > 0 \/ Confirmed(b)
  PROVE  Addresses'
<1> DEFINE Then(b) == Call("email", b) \in agreed' \/ (conf'.engaged /\ b \in mail'.swapped)
<1>1. \A b : Confirmed(b) => Then(b)
  BY DEF Confirmed
<1>2. \A s \in Awaited' : mail'.prep \in {0, Saved, tasks'[s].call.op} \union mail'.swapped
  BY DEF Addresses, Awaited
<1>3. ASSUME NEW q \in Slots, tasks'[q].pc \in {"lookup", "posted"}, tasks'[q].call.tool = "email", tasks'[q].op # Saved
      PROVE  tasks'[q].ok /\ Then(tasks'[q].op)
  <2>1. CASE /\ tasks[q].pc \in {"lookup", "posted"} /\ tasks[q].call.tool = "email"
             /\ tasks'[q].op = tasks[q].op /\ tasks'[q].ok = tasks[q].ok
    <3>1. tasks[q].ok /\ Confirmed(tasks[q].op)
      BY <1>3, <2>1 DEF Addresses, Box
    <3> HIDE DEF Then
    <3> QED BY <1>1, <2>1, <3>1
  <2>2. CASE tasks'[q].ok /\ Confirmed(tasks'[q].op)
    <3> HIDE DEF Then
    <3> QED BY <1>1, <2>2
  <2> HIDE DEF Then
  <2> QED BY <1>3, <2>1, <2>2
<1>4. \A b \in Boxes \ {Saved} : bank'.mails[b] > 0 => Then(b)
  BY <1>1 DEF Addresses
<1>5. /\ ~conf'.engaged => mail'.swapped = {}
      /\ pending_action'.tool = "email" => mail'.prep \in {0, Saved, pending_action'.op}
  BY DEF Addresses
<1> QED BY <1>2, <1>3, <1>4, <1>5 DEF Addresses, Box, Confirmed

\* A call of the attempt, in the foreground or in the background, starts at most
\* one request.
LEMMA AddressesAsked ==
  ASSUME ActionsInv, Addresses, NEW call \in CallSet, NEW ok \in BOOLEAN,
         \/ RunTool(call, ok) /\ att.pc \in {"decide", "plan"}
         \/ Dispatch(call),
         conf' = conf, bank' = bank, mail' = mail, agreed \subseteq agreed',
         pending_action'.tool = "email" => pending_action' = pending_action,
         call.tool = "email" /\ ok => call = pending_action
  PROVE  Addresses'
<1>1. PICK b \in BOOLEAN, k \in BOOLEAN :
        (UNCHANGED tasks \/ Adds(call, k, b)) /\ (k => ok)
  <2>1. CASE RunTool(call, ok) /\ att.pc \in {"decide", "plan"}
    <3>1. UNCHANGED tasks \/ Adds(call, ok, FALSE)
      BY <2>1, RunToolDoes
    <3> QED BY <3>1
  <2>2. CASE Dispatch(call)
    <3>1. Adds(call, FALSE, TRUE)
      BY <2>2, SlotFree DEF Dispatch, Adds
    <3> QED BY <3>1
  <2> QED BY <2>1, <2>2
<1>2. ASSUME NEW q \in Slots
      PROVE  \/ tasks'[q] = tasks[q]
             \/ tasks'[q].pc = "begin" /\ tasks'[q].call = call /\ (tasks'[q].ok => ok)
  <2>1. CASE UNCHANGED tasks
    BY <2>1
  <2>2. CASE Adds(call, k, b)
    <3>1. PICK s \in Slots : tasks' = [tasks EXCEPT ![s] = NewTask(call, k, b)]
      BY <2>2 DEF Adds
    <3>2. tasks \in [Slots -> TaskSet]
      BY DEF ActionsInv, ActionsTypes
    <3>3. /\ NewTask(call, k, b).pc = "begin" /\ NewTask(call, k, b).call = call
          /\ NewTask(call, k, b).ok = k
      BY NewTaskFields
    <3> QED BY <1>1, <3>1, <3>2, <3>3
  <2> QED BY <1>1, <2>1, <2>2
<1> QED BY <1>2, AddressesKept DEF Awaited

\* The caller speaks: no address is prepared, taken or mailed.
LEMMA AddressesInterrupted ==
  ASSUME ActionsInv, Addresses, NEW w \in BOOLEAN, CallerTurn(w)
  PROVE  Addresses'
<1>1. /\ UNCHANGED <<conf, pending_action, agreed, bank>>
      /\ mail'.swapped = mail.swapped /\ mail'.prep = mail.prep
  <2>1. \/ mail' = mail
        \/ \E b : mail' = [mail EXCEPT !.outbox[b] = "unknown"]
    BY DEF CallerTurn, Interrupts, Abandoned
  <2>2. mail \in MailSet
    BY DEF ActionsInv, ActionsTypes, MailSet
  <2> QED BY <2>1, <2>2 DEF CallerTurn, MailSet
<1>2. \A q \in Slots : \/ /\ tasks'[q].pc = tasks[q].pc /\ tasks'[q].ok = tasks[q].ok
                          /\ tasks'[q].call = tasks[q].call /\ tasks'[q].op = tasks[q].op
                       \/ tasks'[q].pc = "free"
  BY InterruptsTasks
<1> QED BY <1>1, <1>2, AddressesKept DEF Awaited

\* A request ends: its address is not looked at any more.
LEMMA AddressesEnd ==
  ASSUME ActionsInv, Addresses, NEW s \in Slots, NEW r \in {"ok", "failed", "unknown"}, Ends(s, r),
         tasks[s].pc # "free", UNCHANGED <<conf, pending_action, agreed>>,
         bank'.mails = bank.mails, mail'.swapped = mail.swapped, mail'.prep \in {mail.prep, 0}
  PROVE  Addresses'
<1>1. \A q \in Slots : \/ tasks'[q] = tasks[q]
                       \/ tasks'[q].pc \in {"free", "deliver"}
  <2>1. /\ NoTask.pc = "free"
        /\ \A t \in TaskSet : [t EXCEPT !.pc = "deliver"].pc = "deliver"
    BY DEF NoTask, TaskSet
  <2>2. tasks \in [Slots -> TaskSet]
    BY DEF ActionsInv, ActionsTypes
  <2>3. \A q \in Slots : \/ tasks'[q] = tasks[q]
                         \/ tasks'[q] = NoTask
                         \/ tasks[q] \in TaskSet /\ tasks'[q] = [tasks[q] EXCEPT !.pc = "deliver"]
    BY <2>2, EndsKeeps
  <2> HIDE DEF ActionsInv, Addresses
  <2> QED BY <2>1, <2>3
<1> QED BY <1>1, AddressesKept DEF Awaited

\* The address is prepared: it replaces the one a confirmed e-mail has not taken.
LEMMA AddressesPrepared ==
  ASSUME ActionsInv, Addresses, NEW b \in Boxes, EmailPrepared(b)
  PROVE  Addresses'
<1>1. /\ att.pc = "plan" /\ UNCHANGED <<conf, voice, bank, agreed>>
      /\ mail' = [mail EXCEPT !.prep = b, !.swapped = IF Awaited # {} THEN mail.swapped \union {b} ELSE mail.swapped]
  BY DEF EmailPrepared, Plans
<1>2. /\ mail'.prep = b /\ mail'.swapped = (IF Awaited # {} THEN mail.swapped \union {b} ELSE mail.swapped)
  BY <1>1 DEF ActionsInv, ActionsTypes
<1>3. ~conf.engaged => Awaited = {}
  <2> SUFFICES ASSUME ~conf.engaged, NEW s \in Awaited PROVE FALSE
    OBVIOUS
  <2> QED BY <1>1 DEF Awaited, ActionsInv, Kept
<1>11. PICK e \in CallSet : e = Call("email", b) /\ e.tool = "email" /\ e.op = b
  BY CallFields DEF Tools, Boxes
<1>4. pending_action'.tool = "email" => b = Saved \/ pending_action'.op = b
  BY <1>11 DEF EmailPrepared
<1>5. \A q \in Slots : \/ tasks'[q] = tasks[q]
                       \/ tasks'[q].pc = "begin" /\ ~tasks'[q].ok
  <2>1. CASE b # Saved
    BY <2>1 DEF EmailPrepared
  <2>2. CASE b = Saved
    <3>1. PICK call \in CallSet : RunTool(call, FALSE)
      BY <2>2, <1>11 DEF EmailPrepared
    <3>2. UNCHANGED tasks \/ Adds(call, FALSE, FALSE)
      BY <1>1, <3>1, RunToolDoes
    <3>3. /\ NewTask(call, FALSE, FALSE).pc = "begin" /\ NewTask(call, FALSE, FALSE).ok = FALSE
      BY NewTaskFields, Zenon
    <3>4. tasks \in [Slots -> TaskSet]
      BY DEF ActionsInv, ActionsTypes
    <3> QED BY <3>2, <3>3, <3>4 DEF Adds
  <2> QED BY <2>1, <2>2
<1> DEFINE Then(d) == Call("email", d) \in agreed' \/ (conf'.engaged /\ d \in mail'.swapped)
<1>6. \A d : Confirmed(d) => Then(d)
  BY <1>1, <1>2 DEF Confirmed
<1>7. /\ ~conf'.engaged => mail'.swapped = {}
      /\ pending_action'.tool = "email" => mail'.prep \in {0, Saved, pending_action'.op}
  BY <1>1, <1>2, <1>3, <1>4 DEF Addresses
<1>8. \A s \in Awaited' : mail'.prep \in {0, Saved, tasks'[s].call.op} \union mail'.swapped
  BY <1>2, <1>5 DEF Awaited
<1>9. ASSUME NEW q \in Slots, tasks'[q].pc \in {"lookup", "posted"}, tasks'[q].call.tool = "email", tasks'[q].op # Saved
      PROVE  tasks'[q].ok /\ Then(tasks'[q].op)
  <2>1. tasks'[q] = tasks[q] /\ tasks[q].ok /\ Confirmed(tasks[q].op)
    BY <1>5, <1>9 DEF Addresses, Box
  <2> HIDE DEF Then
  <2> QED BY <1>6, <2>1
<1>10. \A d \in Boxes \ {Saved} : bank'.mails[d] > 0 => Then(d)
  BY <1>1, <1>6 DEF Addresses
<1> QED BY <1>7, <1>8, <1>9, <1>10 DEF Addresses, Box, Confirmed

\* A request takes the address that is prepared, or leaves.
LEMMA AddressesTaken ==
  ASSUME ActionsInv, Addresses, NEW s \in Slots, TaskBegins(s) \/ ActionChecked(s) \/ EmailPosts(s)
  PROVE  Addresses'
<1>1. /\ tasks[s].pc \in {"begin", "compare", "lookup"} /\ UNCHANGED <<conf, pending_action, agreed>>
  BY DEF TaskBegins, ActionChecked, EmailPosts
<1>2. /\ tasks \in [Slots -> TaskSet] /\ tasks[s] \in TaskSet /\ mail \in MailSet
      /\ bank \in [issued : 0 .. MaxOps, posts : [OpIds -> Nat], mails : [Boxes -> Nat]]
  BY DEF ActionsInv, ActionsTypes, MailSet
<1>3. CASE \E r \in {"ok", "failed", "unknown"} :
             Ends(s, r) /\ bank' = bank /\ (mail' = mail \/ mail' = [mail EXCEPT !.prep = 0])
  <2>1. /\ mail'.swapped = mail.swapped /\ mail'.prep \in {mail.prep, 0} /\ bank'.mails = bank.mails
    BY <1>2, <1>3 DEF MailSet
  <2> QED BY <1>1, <1>3, <2>1, AddressesEnd
<1>4. CASE Sent(s) /\ (tasks[s].call.tool = "email" => tasks[s].pc = "lookup")
  <2>1. \A q \in Slots : \/ tasks'[q] = tasks[q]
                         \/ /\ q = s /\ tasks'[q].pc = "posted" /\ tasks'[q].call = tasks[q].call
                            /\ tasks'[q].ok = tasks[q].ok /\ tasks'[q].op = tasks[q].op
    <3>1. tasks' = [tasks EXCEPT ![s] = [tasks[s] EXCEPT !.pc = "posted"]]
      BY <1>2, <1>4 DEF Sent
    <3>2. LET u == [tasks[s] EXCEPT !.pc = "posted"]
          IN  u.pc = "posted" /\ u.call = tasks[s].call /\ u.ok = tasks[s].ok /\ u.op = tasks[s].op
      BY <1>2 DEF TaskSet
    <3> QED BY <1>2, <3>1, <3>2
  <2>2. mail'.swapped = mail.swapped /\ mail'.prep = mail.prep
    BY <1>2, <1>4 DEF Sent, MailSet
  <2>3. \A b \in Boxes \ {Saved} : bank'.mails[b] > 0 => bank.mails[b] > 0 \/ Confirmed(b)
    <3>1. CASE tasks[s].call.tool = "email"
      <4>1. bank' = [bank EXCEPT !.mails[Box(s)] = @ + 1]
        BY <1>4, <3>1 DEF Sent
      <4>2. Box(s) # Saved => Confirmed(Box(s))
        BY <1>4, <3>1 DEF Addresses
      <4> QED BY <1>2, <4>1, <4>2
    <3>2. CASE tasks[s].call.tool # "email"
      <4>1. bank' = bank \/ bank' = [bank EXCEPT !.posts[tasks[s].call.op] = @ + 1]
        BY <1>4, <3>2 DEF Sent
      <4> QED BY <1>2, <4>1
    <3> QED BY <3>1, <3>2
  <2> QED BY <1>1, <1>4, <2>1, <2>2, <2>3, AddressesKept DEF Awaited
<1>5. CASE TaskBegins(s) /\ tasks[s].call.tool # "email" /\ ~Sent(s)
  <2>1. \/ Ends(s, "failed") /\ UNCHANGED <<mail, bank>>
        \/ /\ tasks' = [tasks EXCEPT ![s].pc = "session", ![s].gen = voice.gen]
           /\ UNCHANGED <<mail, bank>>
    BY <1>5 DEF TaskBegins
  <2>2. CASE tasks' = [tasks EXCEPT ![s].pc = "session", ![s].gen = voice.gen] /\ UNCHANGED <<mail, bank>>
    <3>1. tasks' = [tasks EXCEPT ![s] = [tasks[s] EXCEPT !.pc = "session", !.gen = voice.gen]]
      BY <1>2, <2>2
    <3>2. [tasks[s] EXCEPT !.pc = "session", !.gen = voice.gen].pc = "session"
      BY <1>2 DEF TaskSet
    <3>3. \A q \in Slots : tasks'[q] = tasks[q] \/ tasks'[q].pc = "session"
      BY <1>2, <3>1, <3>2
    <3> QED BY <1>1, <2>2, <3>3, AddressesKept DEF Awaited
  <2> QED BY <1>3, <2>1, <2>2
<1>6. CASE TaskBegins(s) /\ tasks[s].call.tool = "email"
  <2> DEFINE claimed == mail.prep # 0 /\ (mail.prep # Saved => tasks[s].ok)
  <2>1. /\ mail' = [mail EXCEPT !.prep = 0] /\ bank' = bank
        /\ claimed => tasks' = [tasks EXCEPT ![s].pc = "lookup", ![s].op = mail.prep]
        /\ ~claimed => Ends(s, "failed")
    BY <1>6 DEF TaskBegins
  <2>2. CASE claimed
    <3>1. tasks' = [tasks EXCEPT ![s] = [tasks[s] EXCEPT !.pc = "lookup", !.op = mail.prep]]
      BY <1>2, <2>1, <2>2
    <3>2. LET u == [tasks[s] EXCEPT !.pc = "lookup", !.op = mail.prep]
          IN  u.pc = "lookup" /\ u.call = tasks[s].call /\ u.ok = tasks[s].ok /\ u.op = mail.prep
      BY <1>2 DEF TaskSet
    <3>3. \A q \in Slots : \/ tasks'[q] = tasks[q]
                           \/ /\ q = s /\ tasks'[q].pc = "lookup" /\ tasks'[q].ok = tasks[q].ok
                              /\ tasks'[q].op = mail.prep
      BY <1>2, <3>1, <3>2
    <3>4. mail.prep # Saved => tasks[s].ok /\ Confirmed(mail.prep)
      <4> SUFFICES ASSUME mail.prep # Saved PROVE tasks[s].ok /\ Confirmed(mail.prep)
        OBVIOUS
      <4>1. tasks[s].ok /\ s \in Awaited /\ mail.prep \in {0, Saved, tasks[s].call.op} \union mail.swapped
        BY <1>6, <2>2 DEF Awaited, Addresses, TaskBegins
      <4>2. CASE mail.prep \in mail.swapped
        BY <4>1, <4>2 DEF Confirmed, Addresses
      <4>3. CASE mail.prep = tasks[s].call.op
        <5>1. tasks[s].call \in agreed
          BY <4>1 DEF ActionsInv, Consent
        <5>2. tasks[s].call = Call("email", mail.prep)
          BY <1>2, <1>6, <4>3 DEF TaskSet, CallSet, Call
        <5> QED BY <4>1, <5>1, <5>2 DEF Confirmed
      <4> QED BY <2>2, <4>1, <4>2, <4>3
    <3>5. mail'.swapped = mail.swapped /\ mail'.prep = 0
      BY <1>2, <2>1 DEF MailSet
    <3> HIDE DEF claimed
    <3> QED BY <1>1, <2>1, <3>3, <3>4, <3>5, AddressesKept DEF Awaited
  <2> QED BY <1>3, <2>1, <2>2
<1>7. CASE ActionChecked(s)
  <2>1. tasks[s].call.tool # "email"
    BY <1>7 DEF ActionChecked, ActionsInv, Executions
  <2>2. Sent(s) \/ (Ends(s, "failed") /\ UNCHANGED <<mail, bank>>)
    BY <1>7 DEF ActionChecked
  <2> QED BY <1>3, <1>4, <2>1, <2>2
<1>8. CASE EmailPosts(s)
  <2>1. tasks[s].pc = "lookup"
    BY <1>8 DEF EmailPosts
  <2>2. Sent(s) \/ \E r \in {"ok", "failed", "unknown"} : Ends(s, r) /\ UNCHANGED <<mail, bank>>
    BY <1>8 DEF EmailPosts
  <2> QED BY <1>3, <1>4, <2>1, <2>2
<1> QED BY <1>4, <1>5, <1>6, <1>7, <1>8

\* Every step keeps the addresses.
LEMMA AddressesNext == ActionsInv /\ Addresses /\ [Next]_vars => Addresses'
<1> SUFFICES ASSUME ActionsInv, Addresses, [Next]_vars PROVE Addresses'
  OBVIOUS
<1>0. /\ tasks \in [Slots -> TaskSet] /\ mail \in MailSet
      /\ bank \in [issued : 0 .. MaxOps, posts : [OpIds -> Nat], mails : [Boxes -> Nat]]
  BY DEF ActionsInv, ActionsTypes, MailSet
<1>1. CASE \E b \in BOOLEAN : CallerTurn(b)
  BY <1>1, AddressesInterrupted
<1>2. CASE /\ UNCHANGED <<conf, tasks, bank, agreed>>
           /\ mail' = mail \/ mail' = [mail EXCEPT !.prep = 0]
           /\ pending_action'.tool = "email" => pending_action' = pending_action
  <2>1. mail'.swapped = mail.swapped /\ mail'.prep \in {mail.prep, 0}
    BY <1>0, <1>2 DEF MailSet
  <2> QED BY <1>2, <2>1, AddressesKept DEF Awaited
<1>3. NoCall.tool # "email"
  BY DEF NoCall, Call
<1>4. CASE DecisionStale \/ Reject \/ Revise \/ Unclear \/ NoTool
  <2>1. /\ UNCHANGED <<conf, tasks, bank, agreed>> /\ pending_action' \in {pending_action, NoCall}
        /\ mail' = mail \/ mail' = [mail EXCEPT !.prep = 0]
    BY <1>4 DEF DecisionStale, Reject, Revise, Unclear, NoTool
  <2> QED BY <1>2, <1>3, <2>1
<1>5. CASE TicketAsked \/ ResultUsed \/ UtteranceChecked \/ PeriodicCheck \/ UNCHANGED vars
  <2>1. /\ UNCHANGED <<conf, tasks, bank, agreed, mail>>
        /\ pending_action' \in {pending_action, NoCall, Call("ticket", 0), Call("execute", prepared)}
    BY <1>5 DEF TicketAsked, ResultUsed, UtteranceChecked, PeriodicCheck, vars
  <2>2. Call("ticket", 0).tool # "email" /\ Call("execute", prepared).tool # "email"
    BY DEF Call
  <2> QED BY <1>2, <1>3, <2>1, <2>2
<1>6. CASE Confirm
  <2>1. /\ RunTool(pending_action, TRUE) /\ att.pc \in {"decide", "plan"}
        /\ conf' = conf /\ bank' = bank /\ mail' = mail /\ agreed \subseteq agreed' /\ pending_action' = NoCall
    BY <1>6 DEF Confirm
  <2>2. pending_action \in CallSet /\ TRUE \in BOOLEAN
    BY DEF ActionsInv, ActionsTypes
  <2>3. \A call \in CallSet, ok \in BOOLEAN :
          RunTool(call, ok) /\ (call.tool = "email" /\ ok => call = pending_action) => Addresses'
    BY <1>3, <2>1, AddressesAsked
  <2> QED BY <2>1, <2>2, <2>3, Zenon
<1>7. ASSUME NEW call \in CallSet, RunTool(call, FALSE) \/ Dispatch(call), att.pc = "plan",
             UNCHANGED <<conf, bank, mail, agreed, pending_action>>
      PROVE  Addresses'
  <2>1. /\ att.pc \in {"decide", "plan"} /\ conf' = conf /\ bank' = bank /\ mail' = mail
        /\ agreed \subseteq agreed' /\ pending_action' = pending_action
    BY <1>7
  <2>2. \A ok \in BOOLEAN :
          (RunTool(call, ok) \/ Dispatch(call)) /\ (call.tool = "email" /\ ok => call = pending_action) => Addresses'
    BY <2>1, AddressesAsked
  <2>3. FALSE \in BOOLEAN /\ (call.tool = "email" /\ FALSE => call = pending_action)
    OBVIOUS
  <2> QED BY <1>7, <2>2, <2>3, Zenon
<1>8. CASE \E tool \in Tools : BankTool(tool)
  <2>1. PICK tool \in Tools : BankTool(tool)
    BY <1>8
  <2>2. Call(tool, 0) \in CallSet
    BY CallFields
  <2>3. /\ RunTool(Call(tool, 0), FALSE) \/ Dispatch(Call(tool, 0))
        /\ att.pc = "plan" /\ UNCHANGED <<conf, bank, mail, agreed, pending_action>>
    BY <2>1 DEF BankTool, Plans
  <2> QED BY <1>7, <2>2, <2>3
<1>9. CASE \E o \in OpIds : BankExecute(o)
  <2>1. PICK o \in OpIds : BankExecute(o)
    BY <1>9
  <2>2. CASE prepared # 0
    <3>1. UNCHANGED <<conf, tasks, bank, agreed, mail>> /\ pending_action' = Call("execute", prepared)
      BY <2>1, <2>2 DEF BankExecute
    <3>2. Call("execute", prepared).tool # "email"
      BY DEF Call
    <3> QED BY <1>2, <3>1, <3>2
  <2>3. CASE prepared = 0
    <3>1. Call("execute", o) \in CallSet
      BY CallFields DEF Tools, OpIds
    <3>2. /\ RunTool(Call("execute", o), FALSE) \/ Dispatch(Call("execute", o))
          /\ att.pc = "plan" /\ UNCHANGED <<conf, bank, mail, agreed, pending_action>>
      BY <2>1, <2>3 DEF BankExecute, Plans
    <3> QED BY <1>7, <3>1, <3>2
  <2> QED BY <2>2, <2>3
<1>10. CASE DirectoryLookup
  <2>1. Call("directory", 0) \in CallSet
    BY CallFields DEF Tools
  <2> QED BY <1>7, <1>10, <2>1 DEF DirectoryLookup, Plans
<1>11. CASE \E b \in Boxes : EmailPrepared(b)
  BY <1>11, AddressesPrepared
<1>12. ASSUME NEW s \in Slots, Request(s) PROVE Addresses'
  <2>1. CASE TaskBegins(s) \/ ActionChecked(s) \/ EmailPosts(s)
    BY <2>1, AddressesTaken
  <2>2. CASE SessionChecked(s)
    <3>1. tasks' = [tasks EXCEPT ![s] = [tasks[s] EXCEPT !.pc = "compare"]] /\ UNCHANGED <<conf, bank, mail, agreed, pending_action>>
      BY <1>0, <2>2 DEF SessionChecked
    <3>2. [tasks[s] EXCEPT !.pc = "compare"].pc = "compare"
      BY <1>0 DEF TaskSet
    <3>3. \A q \in Slots : tasks'[q] = tasks[q] \/ tasks'[q].pc = "compare"
      BY <1>0, <3>1, <3>2
    <3> QED BY <3>1, <3>3, AddressesKept DEF Awaited
  <2>3. CASE ListUnavailable(s)
    BY <2>3, AddressesEnd DEF ListUnavailable
  <2>4. CASE Answered(s) \/ Unanswered(s) \/ Dropped(s)
    <3>1. /\ tasks[s].pc # "free" /\ UNCHANGED <<conf, pending_action, agreed>>
          /\ \E r \in {"ok", "failed", "unknown"} : Ends(s, r)
          /\ bank' = bank \/ bank' = [bank EXCEPT !.issued = @ + 1]
          /\ mail' = mail \/ \E x : mail' = [mail EXCEPT !.outbox[Box(s)] = x]
      BY <2>4 DEF Answered, Unanswered, Dropped, Abandoned
    <3>2. bank'.mails = bank.mails /\ mail'.swapped = mail.swapped /\ mail'.prep = mail.prep
      BY <1>0, <3>1 DEF MailSet
    <3> QED BY <3>1, <3>2, AddressesEnd
  <2>5. CASE PreviewRead(s)
    <3>1. /\ \/ tasks' = [tasks EXCEPT ![s] = NoTask]
             \/ tasks' = [tasks EXCEPT ![s] = [tasks[s] EXCEPT !.pc = "word", !.op = prepared]]
          /\ UNCHANGED <<conf, bank, mail, agreed, pending_action>>
      BY <1>0, <2>5 DEF PreviewRead
    <3>2. NoTask.pc = "free" /\ [tasks[s] EXCEPT !.pc = "word", !.op = prepared].pc = "word"
      BY <1>0 DEF NoTask, TaskSet
    <3>3. \A q \in Slots : tasks'[q] = tasks[q] \/ tasks'[q].pc \in {"free", "word"}
      BY <1>0, <3>1, <3>2
    <3> QED BY <3>1, <3>3, AddressesKept DEF Awaited
  <2>6. CASE PreviewAsked(s)
    <3>1. /\ tasks' = [tasks EXCEPT ![s] = NoTask] /\ UNCHANGED <<conf, bank, mail, agreed>>
          /\ pending_action' = Call("execute", tasks[s].op)
      BY <2>6 DEF PreviewAsked
    <3>2. NoTask.pc = "free" /\ pending_action'.tool # "email"
      BY <3>1 DEF NoTask, Call
    <3>3. \A q \in Slots : tasks'[q] = tasks[q] \/ tasks'[q].pc = "free"
      BY <1>0, <3>1, <3>2
    <3> QED BY <3>1, <3>2, <3>3, AddressesKept DEF Awaited
  <2> QED BY <1>12, <2>1, <2>2, <2>3, <2>4, <2>5, <2>6 DEF Request
<1> QED BY <1>1, <1>4, <1>5, <1>6, <1>8, <1>9, <1>10, <1>11, <1>12 DEF Next

\* In every call the requests in progress are the ones the worker knows of, what
\* was confirmed was agreed, an execution under verification has not been sent,
\* a sent e-mail is in the outbox, and an address that is taken or mailed is the
\* saved one or was confirmed (or replaced the one of a confirmed e-mail).
THEOREM Invariance == Spec => [](ActionsInv /\ Addresses)
<1>1. Init => Addresses
  <2> SUFFICES ASSUME Init PROVE Addresses
    OBVIOUS
  <2>1. /\ mail.prep = 0 /\ mail.swapped = {} /\ pending_action.tool = "none"
        /\ \A b \in Boxes : bank.mails[b] = 0
        /\ \A s \in Slots : tasks[s].pc = "free"
    BY DEF Init, NoCall, Call, NoTask
  <2> QED BY <2>1 DEF Addresses, Awaited
<1> QED BY <1>1, InvInit, InvNext, AddressesNext, PTL DEF Spec

\* Nothing is done twice: no operation is executed and no list sent to an address
\* more than once, and engagement never has two requests in progress.
THEOREM DoneOnceHolds == Spec => []DoneOnce
<1>1. ActionsInv => DoneOnce
  <2> SUFFICES ASSUME ActionsInv PROVE DoneOnce
    OBVIOUS
  <2>1. OneExecution => \A o \in OpIds : bank.posts[o] <= 1
    BY DEF ActionsInv, Executions
  <2>2. \A b \in Boxes : bank.mails[b] <= 1
    BY DEF ActionsInv, Mails
  <2>3. ASSUME conf.engaged, ~conf.background
        PROVE  Cardinality({s \in Slots : tasks[s].pc # "free"}) <= 1
    <3> DEFINE busy == {s \in Slots : tasks[s].pc # "free"}
    <3>1. busy \subseteq {oper.slot}
      BY <2>3 DEF ActionsInv, Kept
    <3>2. IsFiniteSet({oper.slot}) /\ Cardinality({oper.slot}) = 1
      BY FS_Singleton
    <3> HIDE DEF busy
    <3>3. Cardinality(busy) <= 1
      BY <3>1, <3>2, FS_Subset
    <3> QED BY <3>3 DEF busy
  <2> QED BY <2>1, <2>2, <2>3 DEF DoneOnce
<1> QED BY <1>1, Invariance, PTL

\* What the bank executes grows only by the newest preview, in the foreground.
LEMMA NewestOnly ==
  ActionsInv /\ [Next]_vars =>
    [\A o \in OpIds : ~conf.background /\ bank'.posts[o] > bank.posts[o] => o = bank.issued]_vars
<1> SUFFICES ASSUME ActionsInv, Next, ~conf.background, NEW o \in OpIds, bank'.posts[o] > bank.posts[o]
             PROVE  o = bank.issued
  BY DEF vars
<1>1. /\ bank \in [issued : 0 .. MaxOps, posts : [OpIds -> Nat], mails : [Boxes -> Nat]]
      /\ bank.posts[o] \in Nat
  BY DEF ActionsInv, ActionsTypes
<1>2. ~(bank.posts[o] > bank.posts[o])
  BY <1>1
<1>3. PICK s \in Slots : Sent(s) /\ (TaskBegins(s) \/ ActionChecked(s) \/ EmailPosts(s))
  <2>1. ASSUME NEW s \in Slots, Answered(s) PROVE bank'.posts = bank.posts
    BY <1>1, <2>1 DEF Answered
  <2>2. bank'.posts # bank.posts
    BY <1>2
  <2>3. bank' # bank
    BY <1>2
  <2>4. PICK s \in Slots : Request(s)
    BY <2>3 DEF Next, CallerTurn, DecisionStale, Confirm, Reject, Revise, Unclear, NoTool, BankTool,
              BankExecute, TicketAsked, DirectoryLookup, EmailPrepared, ResultUsed, UtteranceChecked, PeriodicCheck
  <2>5. TaskBegins(s) \/ ActionChecked(s) \/ EmailPosts(s)
    BY <2>1, <2>2, <2>3, <2>4 DEF Request, SessionChecked, ListUnavailable, Unanswered, Dropped, PreviewRead, PreviewAsked
  <2>6. Sent(s)
    BY <2>3, <2>5 DEF TaskBegins, ActionChecked, EmailPosts
  <2> QED BY <2>5, <2>6
<1>4. tasks[s].call.tool = "execute" /\ o = tasks[s].call.op
  <2>1. /\ tasks[s].call.tool = "execute" => bank' = [bank EXCEPT !.posts[tasks[s].call.op] = @ + 1]
        /\ tasks[s].call.tool = "email" => bank' = [bank EXCEPT !.mails[Box(s)] = @ + 1]
        /\ tasks[s].call.tool \notin {"execute", "email"} => bank' = bank
    BY <1>3 DEF Sent
  <2> QED BY <1>1, <1>2, <2>1
<1>5. CASE TaskBegins(s)
  <2>1. ~Refused(s)
    <3> SUFFICES ASSUME Refused(s) PROVE FALSE
      OBVIOUS
    <3>1. bank' = bank
      BY <1>4, <1>5 DEF TaskBegins
    <3> QED BY <1>2, <3>1
  <2> QED BY <1>4, <2>1, Unrefused
<1>6. CASE ActionChecked(s)
  BY <1>4, <1>6 DEF ActionChecked, ActionsInv, Executions
<1>7. CASE EmailPosts(s)
  BY <1>4, <1>7 DEF EmailPosts, ActionsInv, Mails
<1> QED BY <1>3, <1>5, <1>6, <1>7

\* Nothing is done but with the caller's word: what is executed or sent elsewhere
\* was confirmed, is the newest preview, and was asked by the verified owner; the
\* address of a confirmed e-mail is the confirmed one, or the one prepared since.
THEOREM AuthorisedHolds == Spec => Authorised
<1> DEFINE Sound ==
      /\ \A o \in OpIds : bank.posts[o] > 0 => Call("execute", o) \in agreed
      /\ \A b \in Boxes \ {Saved} : bank.mails[b] > 0 => Confirmed(b)
      /\ \A s \in Slots : tasks[s].pc = "posted" =>
           /\ tasks[s].call.tool = "email" /\ Box(s) # Saved => tasks[s].call \in agreed
           /\ conf.voice /\ tasks[s].call.tool \in BankTools
                => tasks[s].gen > 0 /\ voice.owner[tasks[s].gen]
<1>1. ActionsInv /\ Addresses => Sound
  <2> SUFFICES ASSUME ActionsInv, Addresses PROVE Sound
    OBVIOUS
  <2>1. \A o \in OpIds : bank.posts[o] > 0 => Call("execute", o) \in agreed
    BY DEF ActionsInv, Executions
  <2>2. \A b \in Boxes \ {Saved} : bank.mails[b] > 0 => Confirmed(b)
    BY DEF Addresses
  <2>3. \A s \in Slots : tasks[s].pc = "posted" /\ tasks[s].call.tool = "email" /\ Box(s) # Saved
                         => tasks[s].call \in agreed
    BY DEF Addresses, ActionsInv, Consent
  <2>4. \A s \in Slots : tasks[s].pc = "posted" /\ conf.voice /\ tasks[s].call.tool \in BankTools
                         => tasks[s].gen > 0 /\ voice.owner[tasks[s].gen]
    BY DEF ActionsInv, Speakers
  <2> QED BY <2>1, <2>2, <2>3, <2>4
<1>2. Authorised <=> []Sound /\ [][\A o \in OpIds : ~conf.background /\ bank'.posts[o] > bank.posts[o] => o = bank.issued]_vars
  BY DEF Authorised
<1> HIDE DEF Sound
<1> QED BY <1>1, <1>2, Invariance, NewestOnly, PTL DEF Spec

----------------------------------------------------------------------------
(* Device approval                                                          *)

\* A begun ceremony takes an id that is in the range and was not used.
LEMMA NewIsFresh ==
  ASSUME Fresh # {}
  PROVE  New \in Ids /\ ~cer[New].begun
  BY DEF New, Fresh

\* What the actions make of a ceremony is a ceremony.
LEMMA Fields ==
  ASSUME NEW r \in Ceremonies
  PROVE  /\ [r EXCEPT !.shown = TRUE] \in Ceremonies
         /\ [r EXCEPT !.expired = TRUE] \in Ceremonies
         /\ \A f \in {"cancelled", "expired", "interrupted", "ended", "verified", "rejected", "delivery_failed"} :
              /\ [r EXCEPT !.future = IF @ = "none" THEN f ELSE @] \in Ceremonies
              /\ [r EXCEPT !.consumed = TRUE, !.future = IF @ = "none" THEN f ELSE @] \in Ceremonies
         /\ [r EXCEPT !.recv = "none"] \in Ceremonies
         /\ [r EXCEPT !.consumed = TRUE, !.recv = "execute"] \in Ceremonies
         /\ \A v \in {"none", "accepted", "refused"} :
              /\ [r EXCEPT !.recv = "result", !.verdict = v] \in Ceremonies
              /\ [r EXCEPT !.consumed = TRUE, !.recv = "result", !.verdict = v] \in Ceremonies
  BY DEF Ceremonies

\* The end of the call stops who judges and uses up what waits.
LEMMA CloseKeeps ==
  ASSUME ApprovalTypes, Close
  PROVE  \A d \in Ids : /\ cer'[d].recv = "none" /\ cer'[d].verdict = cer[d].verdict
                        /\ cer'[d].begun = cer[d].begun /\ cer'[d].expired = cer[d].expired
                        /\ cer[d].consumed => cer'[d].consumed
                        /\ cer'[d].consumed => cer[d].consumed \/ pending = d
<1> DEFINE cut == [c \in Ids |-> IF cer[c].recv # "none" THEN [cer[c] EXCEPT !.recv = "none"] ELSE cer[c]]
<1>0. \A d \in Ids : cut[d] \in Ceremonies
  BY Fields DEF ApprovalTypes
<1>1. \A d \in Ids : /\ cut[d].recv = "none" /\ cut[d].verdict = cer[d].verdict /\ cut[d].begun = cer[d].begun
                     /\ cut[d].expired = cer[d].expired /\ cut[d].consumed = cer[d].consumed
  BY DEF ApprovalTypes, Ceremonies
<1>2. CASE flow = "demo" /\ pending # 0
  <2>1. cer' = [cut EXCEPT ![pending].consumed = TRUE, ![pending].future = IF @ = "none" THEN "ended" ELSE @]
    BY <1>2 DEF Close
  <2>2. pending \in Ids /\ cut \in [Ids -> Ceremonies]
    BY <1>0, <1>2 DEF ApprovalTypes
  <2> HIDE DEF cut
  <2> QED BY <1>1, <2>1, <2>2 DEF Ceremonies
<1>3. CASE ~(flow = "demo" /\ pending # 0)
  BY <1>1, <1>3 DEF Close
<1> QED BY <1>2, <1>3

\* Nothing is open in the initial state.
LEMMA ApprovalInvInit == ApprovalInit => ApprovalInv
<1> SUFFICES ASSUME ApprovalInit PROVE ApprovalInv
  OBVIOUS
<1> USE ApprovalAssumption DEF ApprovalInit, NoCeremony, Idle, Ids
<1>1. ApprovalTypes
  BY DEF ApprovalTypes, Ceremonies
<1>2. \A c \in Ids : Unjudged(c)
  BY DEF Unjudged
<1> QED BY <1>1, <1>2 DEF ApprovalInv, OneOpen, At, CredentialOfContext

\* Every action keeps the invariant.
LEMMA ApprovalInvNext == ApprovalInv /\ [ApprovalNext]_approvalVars => ApprovalInv'
<1> SUFFICES ASSUME ApprovalInv, [ApprovalNext]_approvalVars PROVE ApprovalInv'
  OBVIOUS
<1>0. 0 \notin Ids
  BY DEF Ids
<1> USE <1>0 DEF ApprovalInv, At, Idle
<1>1. CASE Start
  <2>1. ApprovalTypes'
    BY <1>1 DEF Start, Busy, ApprovalTypes, Ceremonies
  <2>2. \A d \in Ids : Unjudged(d)'
    BY <1>1 DEF Start, Busy, ApprovalTypes, Ceremonies, Unjudged, OneOpen
  <2>3. OneOpen' /\ CredentialOfContext'
    BY <1>1 DEF Start, Busy, ApprovalTypes, Ceremonies, Unjudged, OneOpen, CredentialOfContext
  <2> QED BY <2>1, <2>2, <2>3
<1>2. CASE Begun
  <2>1. ApprovalTypes'
    BY <1>2, NewIsFresh DEF Begun, Begin, NoCeremony, ApprovalTypes, Ceremonies
  <2>2. \A d \in Ids : Unjudged(d)'
    BY <1>2, NewIsFresh DEF Begun, Begin, NoCeremony, ApprovalTypes, Ceremonies, Unjudged, OneOpen
  <2>3. OneOpen' /\ CredentialOfContext'
    BY <1>2, NewIsFresh DEF Begun, Begin, NoCeremony, ApprovalTypes, Ceremonies, Unjudged, OneOpen, CredentialOfContext
  <2> QED BY <2>1, <2>2, <2>3
<1>3. CASE BeginFails
  <2>1. ApprovalTypes'
    BY <1>3 DEF BeginFails, ApprovalTypes, Ceremonies
  <2>2. \A d \in Ids : Unjudged(d)'
    BY <1>3 DEF BeginFails, ApprovalTypes, Ceremonies, Unjudged, OneOpen
  <2>3. OneOpen' /\ CredentialOfContext'
    BY <1>3 DEF BeginFails, ApprovalTypes, Ceremonies, Unjudged, OneOpen, CredentialOfContext
  <2> QED BY <2>1, <2>2, <2>3
<1>4. CASE Shown
  <2>1. ApprovalTypes'
    BY <1>4, Fields DEF Shown, OneOpen, ApprovalTypes
  <2>2. \A d \in Ids : Unjudged(d)'
    BY <1>4 DEF Shown, ApprovalTypes, Ceremonies, Unjudged, OneOpen
  <2>3. OneOpen' /\ CredentialOfContext'
    BY <1>4 DEF Shown, ApprovalTypes, Ceremonies, Unjudged, OneOpen, CredentialOfContext
  <2> QED BY <2>1, <2>2, <2>3
<1>5. CASE DemoRun
  <2>1. ApprovalTypes'
    BY <1>5 DEF DemoRun, ApprovalTypes, Ceremonies
  <2>2. \A d \in Ids : Unjudged(d)'
    BY <1>5 DEF DemoRun, ApprovalTypes, Ceremonies, Unjudged, OneOpen
  <2>3. OneOpen' /\ CredentialOfContext'
    BY <1>5 DEF DemoRun, ApprovalTypes, Ceremonies, Unjudged, OneOpen, CredentialOfContext
  <2> QED BY <2>1, <2>2, <2>3
<1>6. CASE DemoCeremony
  <2>1. CASE starter' = Idle /\ UNCHANGED <<cer, pending>>
    BY <1>6, <2>1 DEF DemoCeremony, ApprovalTypes, Unjudged, OneOpen, CredentialOfContext
  <2>2. CASE starter' # Idle \/ ~UNCHANGED <<cer, pending>>
    <3>1. Begin(starter.pc) /\ ~closed /\ starter.ctx = ctx /\ Fresh # {} /\ starter.pc \in {"register", "authenticate"}
      BY <1>6, <2>2 DEF DemoCeremony
    <3>2. ctx' = ctx /\ cred' = cred /\ flow' = flow /\ msgs' = msgs /\ closed' = closed
      BY <1>6 DEF DemoCeremony
    <3>3. ApprovalTypes'
      BY <3>1, <3>2, NewIsFresh DEF Begin, NoCeremony, ApprovalTypes, Ceremonies
    <3>4. \A d \in Ids : Unjudged(d)'
      BY <3>1, <3>2, NewIsFresh DEF Begin, NoCeremony, ApprovalTypes, Unjudged, OneOpen
    <3>5. OneOpen' /\ CredentialOfContext'
      BY <3>1, <3>2, NewIsFresh DEF Begin, NoCeremony, ApprovalTypes, OneOpen, CredentialOfContext
    <3> QED BY <3>3, <3>4, <3>5
  <2> QED BY <2>1, <2>2
<1>7. CASE DemoResumes
  <2>1. ApprovalTypes'
    BY <1>7 DEF DemoResumes, Forgets, ApprovalTypes, Ceremonies
  <2>2. \A d \in Ids : Unjudged(d)'
    BY <1>7 DEF DemoResumes, Forgets, ApprovalTypes, Ceremonies, Unjudged, OneOpen
  <2>3. OneOpen' /\ CredentialOfContext'
    BY <1>7 DEF DemoResumes, Forgets, ApprovalTypes, Ceremonies, Unjudged, OneOpen, CredentialOfContext
  <2> QED BY <2>1, <2>2, <2>3
<1>8. ASSUME NEW b \in BOOLEAN, DemoGivesUp(b) PROVE ApprovalInv'
  <2>1. ApprovalTypes'
    BY <1>8 DEF DemoGivesUp, ApprovalTypes, Ceremonies
  <2>2. \A d \in Ids : Unjudged(d)'
    BY <1>8 DEF DemoGivesUp, ApprovalTypes, Ceremonies, Unjudged, OneOpen
  <2>3. OneOpen' /\ CredentialOfContext'
    BY <1>8 DEF DemoGivesUp, ApprovalTypes, Ceremonies, Unjudged, OneOpen, CredentialOfContext
  <2> QED BY <2>1, <2>2, <2>3
<1>9. CASE DemoAborted
  <2>1. ApprovalTypes'
    BY <1>9, Fields DEF DemoAborted, Forgets, OneOpen, ApprovalTypes
  <2>2. \A d \in Ids : Unjudged(d)'
    BY <1>9 DEF DemoAborted, Forgets, ApprovalTypes, Ceremonies, Unjudged, OneOpen
  <2>3. OneOpen' /\ CredentialOfContext'
    BY <1>9 DEF DemoAborted, Forgets, ApprovalTypes, Ceremonies, Unjudged, OneOpen, CredentialOfContext
  <2> QED BY <2>1, <2>2, <2>3
<1>10. CASE StarterCancelled
  <2>1. ApprovalTypes'
    BY <1>10 DEF StarterCancelled, ApprovalTypes, Ceremonies
  <2>2. \A d \in Ids : Unjudged(d)'
    BY <1>10 DEF StarterCancelled, ApprovalTypes, Ceremonies, Unjudged, OneOpen
  <2>3. OneOpen' /\ CredentialOfContext'
    BY <1>10 DEF StarterCancelled, ApprovalTypes, Ceremonies, Unjudged, OneOpen, CredentialOfContext
  <2> QED BY <2>1, <2>2, <2>3
<1>11. ASSUME NEW c \in Ids, NEW k \in Kinds, DeviceSends(c, k) PROVE ApprovalInv'
  <2>1. ApprovalTypes'
    BY <1>11 DEF DeviceSends, Kinds, ApprovalTypes, Ceremonies
  <2>2. \A d \in Ids : Unjudged(d)'
    BY <1>11 DEF DeviceSends, Kinds, ApprovalTypes, Ceremonies, Unjudged, OneOpen
  <2>3. OneOpen' /\ CredentialOfContext'
    BY <1>11 DEF DeviceSends, Kinds, ApprovalTypes, Ceremonies, Unjudged, OneOpen, CredentialOfContext
  <2> QED BY <2>1, <2>2, <2>3
<1>12. ASSUME NEW c \in Ids, Expire(c) PROVE ApprovalInv'
  <2>1. ApprovalTypes'
    BY <1>12, Fields DEF Expire, ApprovalTypes
  <2>2. \A d \in Ids : Unjudged(d)'
    BY <1>12 DEF Expire, ApprovalTypes, Ceremonies, Unjudged, OneOpen
  <2>3. OneOpen' /\ CredentialOfContext'
    BY <1>12 DEF Expire, ApprovalTypes, Ceremonies, Unjudged, OneOpen, CredentialOfContext
  <2> QED BY <2>1, <2>2, <2>3
<1>13. ASSUME NEW m \in msgs, ReceiveCancelled(m) PROVE ApprovalInv'
  <2>1. ApprovalTypes'
    BY <1>13, Fields DEF ReceiveCancelled, Receive, Current, Settles, ApprovalTypes
  <2>2. \A d \in Ids : Unjudged(d)'
    BY <1>13 DEF ReceiveCancelled, Receive, Current, Settles, ApprovalTypes, Ceremonies, Unjudged, OneOpen
  <2>3. OneOpen' /\ CredentialOfContext'
    BY <1>13 DEF ReceiveCancelled, Receive, Current, Settles, ApprovalTypes, Ceremonies, Unjudged, OneOpen, CredentialOfContext
  <2> QED BY <2>1, <2>2, <2>3
<1>14. ASSUME NEW m \in msgs, BankProof(m) PROVE ApprovalInv'
  <2>1. ApprovalTypes'
    <3>1. m.c \in Ids
      BY DEF ApprovalTypes
    <3>2. CASE cer[m.c].expired
      <4>1. cer' = [cer EXCEPT ![m.c] = [cer[m.c] EXCEPT !.consumed = TRUE, !.future = IF @ = "none" THEN "expired" ELSE @]]
        BY <1>14, <3>1, <3>2 DEF BankProof, Settles, ApprovalTypes
      <4>2. cer' \in [Ids -> Ceremonies]
        BY <3>1, <4>1, Fields DEF ApprovalTypes
      <4> QED BY <1>14, <3>2, <4>2 DEF BankProof, ApprovalTypes
    <3>3. CASE ~cer[m.c].expired
      <4>1. cer' = [cer EXCEPT ![m.c] = [cer[m.c] EXCEPT !.consumed = TRUE, !.recv = "execute"]]
        BY <1>14, <3>1, <3>3 DEF BankProof, ApprovalTypes
      <4>2. cer' \in [Ids -> Ceremonies]
        BY <3>1, <4>1, Fields DEF ApprovalTypes
      <4> QED BY <1>14, <3>3, <4>2 DEF BankProof, ApprovalTypes
    <3> QED BY <3>2, <3>3
  <2>2. \A d \in Ids : Unjudged(d)'
    BY <1>14, SMTT(30) DEF BankProof, Receive, Current, Settles, ApprovalTypes, Ceremonies, Unjudged, OneOpen
  <2>3. OneOpen' /\ CredentialOfContext'
    BY <1>14 DEF BankProof, Receive, Current, Settles, ApprovalTypes, Ceremonies, Unjudged, OneOpen, CredentialOfContext
  <2> QED BY <2>1, <2>2, <2>3
<1>15. ASSUME NEW c \in Ids, BankAnswers(c) PROVE ApprovalInv'
  <2>1. ApprovalTypes'
    <3>1. PICK v \in {"accepted", "refused"} : cer' = [cer EXCEPT ![c].recv = "result", ![c].verdict = v]
      BY <1>15 DEF BankAnswers
    <3>2. cer' = [cer EXCEPT ![c] = [cer[c] EXCEPT !.recv = "result", !.verdict = v]]
      BY <3>1 DEF ApprovalTypes
    <3>3. cer' \in [Ids -> Ceremonies]
      BY <3>2, Fields DEF ApprovalTypes
    <3> QED BY <1>15, <3>3 DEF BankAnswers, ApprovalTypes
  <2>2. \A d \in Ids : Unjudged(d)'
    BY <1>15 DEF BankAnswers, ApprovalTypes, Ceremonies, Unjudged, OneOpen
  <2>3. OneOpen' /\ CredentialOfContext'
    BY <1>15 DEF BankAnswers, ApprovalTypes, Ceremonies, Unjudged, OneOpen, CredentialOfContext
  <2> QED BY <2>1, <2>2, <2>3
<1>16. ASSUME NEW m \in msgs, DemoProof(m) PROVE ApprovalInv'
  <2>1. ApprovalTypes'
    <3>1. m.c \in Ids
      BY DEF ApprovalTypes
    <3>2. PICK v \in {"none", "accepted", "refused"} :
            cer' = [cer EXCEPT ![m.c].consumed = TRUE, ![m.c].recv = "result", ![m.c].verdict = v]
      BY <1>16 DEF DemoProof
    <3>3. cer' = [cer EXCEPT ![m.c] = [cer[m.c] EXCEPT !.consumed = TRUE, !.recv = "result", !.verdict = v]]
      BY <3>1, <3>2 DEF ApprovalTypes
    <3>4. cer' \in [Ids -> Ceremonies]
      BY <3>1, <3>3, Fields DEF ApprovalTypes
    <3>5. cred' \in Nat
      BY <1>16 DEF DemoProof, ApprovalTypes
    <3> QED BY <1>16, <3>4, <3>5 DEF DemoProof, ApprovalTypes
  <2>2. \A d \in Ids : Unjudged(d)'
    BY <1>16 DEF DemoProof, Receive, Current, ApprovalTypes, Ceremonies, Unjudged, OneOpen
  <2>3. OneOpen' /\ CredentialOfContext'
    BY <1>16 DEF DemoProof, Receive, Current, ApprovalTypes, Ceremonies, Unjudged, OneOpen, CredentialOfContext
  <2> QED BY <2>1, <2>2, <2>3
<1>17. ASSUME NEW c \in Ids, ResultSent(c) PROVE ApprovalInv'
  <2>1. ApprovalTypes'
    BY <1>17 DEF ResultSent, Settles, ApprovalTypes, Ceremonies
  <2>2. \A d \in Ids : Unjudged(d)'
    BY <1>17 DEF ResultSent, Settles, ApprovalTypes, Ceremonies, Unjudged, OneOpen
  <2>3. OneOpen' /\ CredentialOfContext'
    BY <1>17 DEF ResultSent, Settles, ApprovalTypes, Ceremonies, Unjudged, OneOpen, CredentialOfContext
  <2> QED BY <2>1, <2>2, <2>3
<1>18. ASSUME NEW c \in Ids, ResultLost(c) PROVE ApprovalInv'
  <2>1. ApprovalTypes'
    BY <1>18 DEF ResultLost, Settles, ApprovalTypes, Ceremonies
  <2>2. \A d \in Ids : Unjudged(d)'
    BY <1>18 DEF ResultLost, Settles, ApprovalTypes, Ceremonies, Unjudged, OneOpen
  <2>3. OneOpen' /\ CredentialOfContext'
    BY <1>18 DEF ResultLost, Settles, ApprovalTypes, Ceremonies, Unjudged, OneOpen, CredentialOfContext
  <2> QED BY <2>1, <2>2, <2>3
<1>19. CASE Context
  <2>1. ApprovalTypes'
    <3>1. CASE ctx # 0 /\ pending # 0
      <4>1. pending \in Ids
        BY <3>1 DEF ApprovalTypes
      <4>2. cer' \in [Ids -> Ceremonies]
        BY <1>19, <3>1, <4>1, Fields DEF Context, Settles, ApprovalTypes
      <4> QED BY <1>19, <4>2 DEF Context, ApprovalTypes
    <3>2. CASE ~(ctx # 0 /\ pending # 0)
      BY <1>19, <3>2 DEF Context, ApprovalTypes
    <3> QED BY <3>1, <3>2
  <2>2. \A d \in Ids : Unjudged(d)'
    BY <1>19 DEF Context, Settles, ApprovalTypes, Ceremonies, Unjudged, OneOpen
  <2>3. OneOpen' /\ CredentialOfContext'
    BY <1>19 DEF Context, Settles, ApprovalTypes, Ceremonies, Unjudged, OneOpen, CredentialOfContext
  <2> QED BY <2>1, <2>2, <2>3
<1>20. CASE Close
  <2>1. ApprovalTypes'
    BY <1>20, Fields DEF Close, ApprovalTypes
  <2>2. \A d \in Ids : Unjudged(d)'
    <3>1. \A d \in Ids : /\ cer'[d].recv = "none" /\ cer'[d].verdict = cer[d].verdict
                         /\ cer'[d].begun = cer[d].begun /\ cer'[d].expired = cer[d].expired
                         /\ cer[d].consumed => cer'[d].consumed
                         /\ cer'[d].consumed => cer[d].consumed \/ pending = d
      BY <1>20, CloseKeeps
    <3>2. pending' \in {0, pending}
      BY <1>20 DEF Close
    <3>3. ASSUME NEW d \in Ids PROVE Unjudged(d)'
      BY <3>1, <3>2, <3>3 DEF Unjudged
    <3> QED BY <3>3
  <2>3. OneOpen' /\ CredentialOfContext'
    BY <1>20 DEF Close, ApprovalTypes, Ceremonies, Unjudged, OneOpen, CredentialOfContext
  <2> QED BY <2>1, <2>2, <2>3
<1>21. CASE UNCHANGED approvalVars
  <2>1. ApprovalTypes'
    BY <1>21 DEF approvalVars, ApprovalTypes, Ceremonies
  <2>2. \A d \in Ids : Unjudged(d)'
    BY <1>21 DEF approvalVars, ApprovalTypes, Ceremonies, Unjudged, OneOpen
  <2>3. OneOpen' /\ CredentialOfContext'
    BY <1>21 DEF approvalVars, ApprovalTypes, Ceremonies, Unjudged, OneOpen, CredentialOfContext
  <2> QED BY <2>1, <2>2, <2>3
<1> HIDE DEF ApprovalInv, At, Idle
<1> QED
  BY <1>1, <1>2, <1>3, <1>4, <1>5, <1>6, <1>7, <1>8, <1>9, <1>10, <1>11, <1>12, <1>13,
     <1>14, <1>15, <1>16, <1>17, <1>18, <1>19, <1>20, <1>21
  DEF ApprovalNext, StarterStep

\* The inductive invariant holds in every reachable state.
THEOREM ApprovalInvariance == ApprovalSpec => []ApprovalInv
  BY ApprovalInvInit, ApprovalInvNext, PTL DEF ApprovalSpec

\* A credential enrolled in one session context is never there in another.
THEOREM CredentialOfContextHolds == ApprovalSpec => []CredentialOfContext
<1>1. ApprovalInv => CredentialOfContext
  BY DEF ApprovalInv
<1> QED BY ApprovalInvariance, <1>1, PTL

-----------------------------------------------------------------------------
(* The refinement                                                           *)

\* What happens to ceremonies without a verdict but to be closed is a step, or
\* a stutter, of the abstract ceremonies.
LEMMA ClosingStep ==
  ASSUME \A c \in Ids : \/ Stage(c)' = Stage(c)
                        \/ Stage(c) \in {"open", "judging"} /\ Stage(c)' = "closed",
         \A c \in Ids : cer'[c].expired = cer[c].expired
  PROVE  Promise!Closing
<1> DEFINE S == {c \in Ids : Stage(c) \in {"open", "judging"} /\ Stage(c)' = "closed"}
<1>1. S \in SUBSET {c \in Ids : [d \in Ids |-> Stage(d)][c] \in {"open", "judging"}}
  OBVIOUS
<1>2. [c \in Ids |-> Stage(c)]' = [c \in Ids |-> IF c \in S THEN "closed" ELSE [d \in Ids |-> Stage(d)][c]]
  OBVIOUS
<1>3. {c \in Ids : cer[c].expired}' = {c \in Ids : cer[c].expired}
  OBVIOUS
<1> QED BY <1>1, <1>2, <1>3 DEF Promise!Closing

\* One ceremony changes its stage and no time runs out.
LEMMA OneStep ==
  ASSUME NEW c \in Ids, \A d \in Ids \ {c} : Stage(d)' = Stage(d),
         \A d \in Ids : cer'[d].expired = cer[d].expired
  PROVE  /\ Stage(c) = "new" /\ Stage(c)' = "open" => Promise!Offer(c)
         /\ Stage(c) = "open" /\ ~cer[c].expired /\ Stage(c)' \in {"judging", "accepted", "refused"} => Promise!Take(c)
         /\ Stage(c) = "judging" /\ Stage(c)' \in {"accepted", "refused", "closed"} => Promise!Judge(c)
         /\ Promise!Offer(c) \/ Promise!Take(c) \/ Promise!Judge(c) => Promise!Next
<1>1. [d \in Ids |-> Stage(d)]' = [[d \in Ids |-> Stage(d)] EXCEPT ![c] = Stage(c)']
  OBVIOUS
<1>2. {d \in Ids : cer[d].expired}' = {d \in Ids : cer[d].expired}
  OBVIOUS
<1>3. Promise!Offer(c) \/ Promise!Take(c) \/ Promise!Judge(c) => Promise!Next
  BY DEF Promise!Next
<1> HIDE DEF Stage
<1>4. Stage(c) = "new" /\ Stage(c)' = "open" => Promise!Offer(c)
  BY <1>1, <1>2 DEF Promise!Offer
<1>5. Stage(c) = "open" /\ ~cer[c].expired /\ Stage(c)' \in {"judging", "accepted", "refused"} => Promise!Take(c)
  BY <1>1, <1>2 DEF Promise!Take
<1>6. Stage(c) = "judging" /\ Stage(c)' \in {"accepted", "refused", "closed"} => Promise!Judge(c)
  BY <1>1, <1>2 DEF Promise!Judge
<1> QED BY <1>3, <1>4, <1>5, <1>6

\* Every step of a flow is a step of the abstract ceremonies, or a stutter.
LEMMA StepRefines == ApprovalInv /\ [ApprovalNext]_approvalVars => Promise!Next
<1> SUFFICES ASSUME ApprovalInv, [ApprovalNext]_approvalVars PROVE Promise!Next
  OBVIOUS
<1>0. 0 \notin Ids /\ (Promise!Closing => Promise!Next)
  BY DEF Ids, Promise!Next
<1> USE <1>0 DEF ApprovalInv, ApprovalTypes, Ceremonies, Unjudged, OneOpen, At, Idle, Stage
<1>1. CASE Start
  BY <1>1, ClosingStep DEF Start
<1>2. CASE BeginFails
  BY <1>2, ClosingStep DEF BeginFails
<1>3. CASE Shown
  BY <1>3, ClosingStep DEF Shown
<1>4. CASE DemoRun
  BY <1>4, ClosingStep DEF DemoRun
<1>5. CASE DemoResumes
  BY <1>5, ClosingStep DEF DemoResumes, Forgets
<1>6. ASSUME NEW b \in BOOLEAN, DemoGivesUp(b) PROVE Promise!Next
  BY <1>6, ClosingStep DEF DemoGivesUp
<1>7. CASE DemoAborted
  BY <1>7, ClosingStep DEF DemoAborted, Forgets
<1>8. CASE StarterCancelled
  BY <1>8, ClosingStep DEF StarterCancelled
<1>9. ASSUME NEW c \in Ids, NEW k \in Kinds, DeviceSends(c, k) PROVE Promise!Next
  BY <1>9, ClosingStep DEF DeviceSends
<1>10. ASSUME NEW m \in msgs, ReceiveCancelled(m) PROVE Promise!Next
  BY <1>10, ClosingStep DEF ReceiveCancelled, Receive, Current, Settles
<1>11. ASSUME NEW c \in Ids, ResultSent(c) PROVE Promise!Next
  BY <1>11, ClosingStep DEF ResultSent, Settles
<1>12. ASSUME NEW c \in Ids, ResultLost(c) PROVE Promise!Next
  BY <1>12, ClosingStep DEF ResultLost, Settles
<1>13. CASE Context
  BY <1>13, ClosingStep DEF Context, Settles
<1>14. CASE Close
  <2>1. pending' \in {0, pending} /\ (pending' = pending /\ pending # 0 => cer'[pending].consumed)
    BY <1>14 DEF Close
  <2> QED BY <1>14, <2>1, CloseKeeps, ClosingStep
<1>15. CASE UNCHANGED approvalVars
  BY <1>15, ClosingStep DEF approvalVars
<1>16. CASE Begun
  <2> DEFINE fresh == [NoCeremony EXCEPT !.begun = TRUE, !.mode = "authenticate"]
  <2>1. PICK n \in Ids : ~cer[n].begun /\ cer' = [cer EXCEPT ![n] = fresh] /\ pending' = n
    BY <1>16, NewIsFresh DEF Begun, Begin
  <2>2. \A d \in Ids : cer'[d].expired = cer[d].expired
    BY <2>1 DEF NoCeremony
  <2>3. Stage(n) = "new" /\ Stage(n)' = "open" /\ \A d \in Ids \ {n} : Stage(d)' = Stage(d)
    BY <1>16, <2>1 DEF Begun, NoCeremony
  <2> HIDE DEF ApprovalInv, Stage
  <2> QED BY <2>2, <2>3, OneStep
<1>17. CASE DemoCeremony
  <2>1. CASE starter' = Idle /\ UNCHANGED <<cer, pending>>
    BY <2>1, ClosingStep
  <2>2. CASE starter' # Idle \/ ~UNCHANGED <<cer, pending>>
    <3> DEFINE fresh == [NoCeremony EXCEPT !.begun = TRUE, !.mode = starter.pc]
    <3>1. PICK n \in Ids : ~cer[n].begun /\ cer' = [cer EXCEPT ![n] = fresh] /\ pending' = n
      BY <1>17, <2>2, NewIsFresh DEF DemoCeremony, Begin
    <3>2. \A d \in Ids : cer'[d].expired = cer[d].expired
      BY <3>1 DEF NoCeremony
    <3>3. Stage(n) = "new" /\ Stage(n)' = "open" /\ \A d \in Ids \ {n} : Stage(d)' = Stage(d)
      BY <1>17, <3>1 DEF DemoCeremony, NoCeremony
    <3> HIDE DEF ApprovalInv, Stage
    <3> QED BY <3>2, <3>3, OneStep
  <2> QED BY <2>1, <2>2
<1>18. ASSUME NEW c \in Ids, Expire(c) PROVE Promise!Next
  <2>1. \A d \in Ids : Stage(d)' = Stage(d)
    BY <1>18 DEF Expire
  <2>2. {d \in Ids : cer[d].expired}' = {d \in Ids : cer[d].expired} \union {c}
    BY <1>18 DEF Expire
  <2>3. [d \in Ids |-> Stage(d)]' = [d \in Ids |-> Stage(d)] /\ Stage(c) # "new"
    BY <1>18, <2>1 DEF Expire
  <2> QED BY <2>2, <2>3 DEF Promise!Expire, Promise!Next
<1>19. ASSUME NEW m \in msgs, BankProof(m) PROVE Promise!Next
  <2>1. m.c \in Ids /\ Stage(m.c) = "open"
    BY <1>19 DEF BankProof, Receive, Current
  <2>2. CASE cer[m.c].expired
    BY <1>19, <2>1, <2>2, ClosingStep DEF BankProof, Settles, Receive, Current
  <2>3. CASE ~cer[m.c].expired
    <3>1. Stage(m.c)' = "judging" /\ \A d \in Ids \ {m.c} : Stage(d)' = Stage(d)
      BY <1>19, <2>1, <2>3 DEF BankProof, Receive, Current
    <3>2. \A d \in Ids : cer'[d].expired = cer[d].expired
      BY <1>19, <2>1, <2>3 DEF BankProof
    <3> HIDE DEF ApprovalInv, Stage
    <3> QED BY <2>1, <2>3, <3>1, <3>2, OneStep
  <2> QED BY <2>2, <2>3
<1>20. ASSUME NEW c \in Ids, BankAnswers(c) PROVE Promise!Next
  <2>1. /\ Stage(c) = "judging" /\ Stage(c)' \in {"accepted", "refused"}
        /\ \A d \in Ids \ {c} : Stage(d)' = Stage(d)
    BY <1>20 DEF BankAnswers
  <2>2. \A d \in Ids : cer'[d].expired = cer[d].expired
    BY <1>20 DEF BankAnswers
  <2> HIDE DEF ApprovalInv, Stage
  <2> QED BY <2>1, <2>2, OneStep
<1>21. ASSUME NEW m \in msgs, DemoProof(m) PROVE Promise!Next
  <2>1. m.c \in Ids /\ Stage(m.c) = "open"
    BY <1>21 DEF DemoProof, Receive, Current
  <2>2. PICK v \in {"none", "accepted", "refused"} :
          /\ cer' = [cer EXCEPT ![m.c].consumed = TRUE, ![m.c].recv = "result", ![m.c].verdict = v]
          /\ v = "none" <=> cer[m.c].expired
    BY <1>21 DEF DemoProof
  <2>3. /\ \A d \in Ids \ {m.c} : Stage(d)' = Stage(d)
        /\ \A d \in Ids : cer'[d].expired = cer[d].expired
        /\ Stage(m.c)' = IF v = "none" THEN "closed" ELSE v
    BY <1>21, <2>1, <2>2 DEF DemoProof
  <2> HIDE DEF ApprovalInv, Stage
  <2>4. CASE v = "none"
    BY <2>1, <2>3, <2>4, ClosingStep
  <2>5. CASE v # "none"
    <3>1. ~cer[m.c].expired /\ Stage(m.c)' \in {"judging", "accepted", "refused"}
      BY <2>2, <2>3, <2>5
    <3> DEFINE c == m.c
    <3>2. /\ c \in Ids /\ Stage(c) = "open" /\ ~cer[c].expired /\ Stage(c)' \in {"judging", "accepted", "refused"}
          /\ \A d \in Ids \ {c} : Stage(d)' = Stage(d)
          /\ \A d \in Ids : cer'[d].expired = cer[d].expired
      BY <2>1, <2>3, <3>1
    <3> HIDE DEF c
    <3> QED BY <3>2, OneStep
  <2> QED BY <2>4, <2>5
<1> HIDE DEF ApprovalInv, ApprovalTypes, Ceremonies, Unjudged, OneOpen, At, Idle, Stage
<1> QED
  BY <1>1, <1>2, <1>3, <1>4, <1>5, <1>6, <1>7, <1>8, <1>9, <1>10, <1>11, <1>12, <1>13, <1>14, <1>15,
     <1>16, <1>17, <1>18, <1>19, <1>20, <1>21
  DEF ApprovalNext, StarterStep

\* Both flows keep the promise of module Ceremony, for any number of ceremonies
\* and contexts: no replayed, late, cancelled or withdrawn proof is judged, and
\* no verdict changes.
THEOREM ImplementsHolds == ApprovalSpec => Implements
<1>1. ApprovalInit => Promise!Init
  <2> SUFFICES ASSUME ApprovalInit PROVE Promise!Init
    OBVIOUS
  <2>1. \A c \in Ids : Stage(c) = "new" /\ ~cer[c].expired
    BY DEF ApprovalInit, NoCeremony, Stage
  <2> QED BY <2>1 DEF Promise!Init
<1> QED BY <1>1, ApprovalInvariance, StepRefines, PTL DEF ApprovalSpec, Implements, Promise!Spec
=============================================================================
