-------------------------------- MODULE Job --------------------------------
(***************************************************************************)
(* A call of the reference pipeline, from its dispatch to the last service    *)
(* told that it is over: the LiveKit worker's entrypoint (livekit_worker.py)   *)
(* and the browser's socket (server.py), over the pipeline's start and close   *)
(* (pipeline.py), the capacity and outbound services, the transfer to a human  *)
(* (aicc_transfer.py) and what modules Store and Memory keep.                 *)
(***************************************************************************)
EXTENDS Store

VARIABLES
  pc,        \* where the entrypoint is
  failure,   \* failure_reason is set
  gone,      \* the event disconnected
  missed,    \* the caller left before the entrypoint listened for it
  pipeline,  \* the pipeline was built
  spoken,    \* how many of Words were said
  resv,      \* capacity_reservation_id: "none", "ours", "cleared"
  halt,      \* capacity_heartbeat_stop
  beat,      \* the heartbeat task
  slot,      \* the reservation at the capacity service
  claim,     \* outbound_claim
  call,      \* the prepared call at the outbound service
  transfer,  \* transfer_handler: where it is, which snapshot, and late (history): how
             \* many of its writes the service took after the session's end
  leg        \* the colleague's leg in the room: "none", "out" (dialled), "up"

jvars == <<pc, failure, gone, missed, pipeline, spoken, resv, halt, beat, slot, claim, call, transfer, leg>>
jobVars == <<conf, mvars, pvars, jvars>>

\* What the pipeline stores of a conversation, in its order.
Words == <<<<"user", 1>>, <<"assistant", 1>>, <<"user", 2>>>>
ASSUME JobAssumption == \A c \in Confs : c.words \in 0..Len(Words)

JobInit ==
  /\ conf \in Confs /\ MemoryInit /\ StoreInit
  /\ pc = "connect" /\ failure = FALSE /\ gone = FALSE /\ missed = FALSE /\ pipeline = FALSE /\ spoken = 0
  /\ resv = "none" /\ halt = FALSE /\ beat = "none" /\ slot = IF conf.capacity THEN "reserved" ELSE "none"
  /\ claim = FALSE /\ call = IF conf.outbound THEN "prepared" ELSE "none"
  /\ transfer = [at |-> "no", mark |-> 1, late |-> 0] /\ leg = "none"

Browser == conf.host = "browser"
Trying == {"connect", "caller", "claim", "outbound", "load", "publish", "init", "start", "talk"}

Step(from, to) == pc = from /\ pc' = to
\* The browser's socket has nothing to clean up before its pipeline is built.
Leave(reason) == pc' = (IF ~Browser THEN "beat" ELSE IF pipeline THEN "pipe" ELSE "finish") /\ failure' = reason

----------------------------------------------------------------------------
(* entrypoint                                                               *)

Connects ==
  /\ Step("connect", IF Browser THEN "load" ELSE "caller")
  /\ UNCHANGED <<conf, mvars, pvars, failure, gone, missed, pipeline, spoken, resv, halt, beat, slot, claim, call, transfer, leg>>

\* The participant is here; a SIP call brings its reservation and its route.
CallerJoins ==
  /\ Step("caller", IF conf.capacity THEN "claim" ELSE IF conf.outbound THEN "outbound" ELSE "load")
  /\ resv' = IF conf.capacity THEN "ours" ELSE "none"
  /\ UNCHANGED <<conf, mvars, pvars, failure, gone, missed, pipeline, spoken, halt, beat, slot, claim, call, transfer, leg>>

ClaimSlot ==
  /\ pc = "claim"
  /\ \E o \in Outcomes :
       /\ slot' = IF o.done THEN "held" ELSE slot
       /\ \/ o.ok /\ pc' = (IF conf.outbound THEN "outbound" ELSE "load") /\ failure' = FALSE
          \/ \E raised \in BOOLEAN : ~o.ok /\ Leave(raised)
  /\ UNCHANGED <<conf, mvars, pvars, gone, missed, pipeline, spoken, resv, halt, beat, claim, call, transfer, leg>>

\* claim_for_route: an answer that is lost leaves a claim nobody finishes.
ClaimCall ==
  /\ pc = "outbound"
  /\ \E o \in Outcomes :
       /\ call' = IF o.done THEN "claimed" ELSE call
       /\ claim' = o.ok
       /\ lost' = IF o.done /\ ~o.ok THEN lost \union {"outbound"} ELSE lost
       /\ \/ o.ok /\ pc' = "load" /\ failure' = FALSE
          \/ \E raised \in BOOLEAN : ~o.ok /\ Leave(raised)
  /\ UNCHANGED <<conf, mvars, pending, worker, session, keys, rec, stop, ended, closing, usage, srv,
                 gone, missed, pipeline, spoken, resv, halt, beat, slot, transfer, leg>>

\* The call prepared for the number is another agent's: it is finished at once.
WrongCall ==
  /\ pc = "outbound" /\ Leave(TRUE)
  /\ \E o \in Outcomes :
       /\ call' = IF o.done THEN "failed" ELSE "claimed"
       /\ lost' = IF o.done THEN lost ELSE lost \union {"outbound"}
  /\ UNCHANGED <<conf, mvars, pending, worker, session, keys, rec, stop, ended, closing, usage, srv,
                 gone, missed, pipeline, spoken, resv, halt, beat, slot, claim, transfer, leg>>

\* load_agent_runtime_context: the browser's call goes on without an agent.
LoadAgent ==
  /\ pc = "load"
  /\ \/ pc' = (IF Browser THEN "init" ELSE "publish") /\ failure' = FALSE
        /\ pipeline' = Browser /\ beat' = IF resv = "ours" THEN "sleep" ELSE "none"
     \/ \E raised \in BOOLEAN : ~Browser /\ Leave(raised) /\ UNCHANGED <<beat, pipeline>>
  /\ UNCHANGED <<conf, mvars, pvars, gone, missed, spoken, resv, halt, slot, claim, call, transfer, leg>>

PublishTrack ==
  /\ Step("publish", "init") /\ pipeline' = TRUE
  /\ UNCHANGED <<conf, mvars, pvars, failure, gone, missed, spoken, resv, halt, beat, slot, claim, call, transfer, leg>>

\* ConversationPipeline.start
StartPipeline ==
  /\ Step("init", "start")
  /\ Spawn(<<"start">>)
  /\ usage' = IF conf.service THEN [usage EXCEPT !.at = "sleep"] ELSE usage
  /\ UNCHANGED <<conf, mvars, worker, session, keys, rec, stop, ended, closing, srv, lost,
                 failure, gone, missed, pipeline, spoken, resv, halt, beat, slot, claim, call, transfer, leg>>

Ready ==
  /\ Step("start", "talk")
  /\ UNCHANGED <<conf, mvars, pvars, failure, gone, missed, pipeline, spoken, resv, halt, beat, slot, claim, call, transfer, leg>>

\* An await raises, or the job is cancelled there; claims have their own ways,
\* and the browser's pipeline starts as soon as it is built.
Breaks ==
  /\ pc \in Trying \ {"claim", "outbound", "load"} /\ conf.breaks /\ ~(Browser /\ pc = "init")
  /\ \E raised \in BOOLEAN : Leave(raised)
  /\ UNCHANGED <<conf, mvars, pvars, gone, missed, pipeline, spoken, resv, halt, beat, slot, claim, call, transfer, leg>>

\* participant_disconnected, heard from "load" on; end_call_handler sets the
\* same event once the room is deleted.
CallerLeaves ==
  /\ pc \in Trying \ {"connect", "caller"} /\ ~gone /\ ~missed /\ ~conf.stays
  /\ IF pc \in {"claim", "outbound"} THEN missed' = TRUE /\ UNCHANGED gone ELSE gone' = TRUE /\ UNCHANGED missed
  /\ UNCHANGED <<conf, mvars, pvars, pc, failure, pipeline, spoken, resv, halt, beat, slot, claim, call, transfer, leg>>

EndCall ==
  /\ pc = "talk" /\ conf.ends /\ ~gone /\ gone' = TRUE
  /\ UNCHANGED <<conf, mvars, pvars, pc, failure, missed, pipeline, spoken, resv, halt, beat, slot, claim, call, transfer, leg>>

TalkOver ==
  /\ pc = "talk" /\ gone /\ Leave(FALSE)
  /\ UNCHANGED <<conf, mvars, pvars, gone, missed, pipeline, spoken, resv, halt, beat, slot, claim, call, transfer, leg>>

\* The conversation: what is stored of it and what it uses.
Says ==
  /\ pc = "talk" /\ spoken < conf.words /\ spoken' = spoken + 1
  /\ Spawn(Words[spoken + 1])
  /\ UNCHANGED <<conf, mvars, worker, session, keys, rec, stop, ended, closing, usage, srv, lost,
                 pc, failure, gone, missed, pipeline, resv, halt, beat, slot, claim, call, transfer, leg>>

Uses == pc = "talk" /\ conf.uses /\ (Observes \/ Flushes) /\ UNCHANGED <<conf, mvars, jvars>>
Recalls == pc = "talk" /\ conf.memory /\ Remembers /\ UNCHANGED <<conf, pvars, jvars>>

----------------------------------------------------------------------------
(* The capacity lease                                                       *)

\* maintain_capacity_lease
Beats ==
  /\ beat = "sleep" /\ ~halt /\ beat' = "flight"
  /\ UNCHANGED <<conf, mvars, pvars, pc, failure, gone, missed, pipeline, spoken, resv, halt, slot, claim, call, transfer, leg>>

BeatDone ==
  /\ \/ beat = "flight" /\ beat' = IF halt THEN "over" ELSE "sleep"
     \/ beat = "sleep" /\ halt /\ beat' = "over"
  /\ UNCHANGED <<conf, mvars, pvars, pc, failure, gone, missed, pipeline, spoken, resv, halt, slot, claim, call, transfer, leg>>

\* Mutant of ReleaseSlot: the heartbeat is not told.
ReleaseSlotBeating ==
  /\ resv' = IF resv = "ours" THEN "cleared" ELSE resv
  /\ UNCHANGED halt

\* release_capacity_slot, up to its request.
ReleaseSlot ==
  /\ resv' = IF resv = "ours" THEN "cleared" ELSE resv
  /\ halt' = (halt \/ resv = "ours")

Released(o) ==
  /\ slot' = IF o.done THEN "freed" ELSE slot
  /\ lost' = IF o.done THEN lost ELSE lost \union {"slot"}

----------------------------------------------------------------------------
(* transfer_handler and bridge_call                                          *)

\* The reply that asks for it has been played; the caller may have left by then,
\* as long as close has not looked for an attempt to cancel.  tts_end has cleared
\* self.attempt (pipeline.py:3009), so nothing can cancel the transfer any more.
TransferAsked ==
  /\ conf.transfer /\ transfer.at = "no"
  /\ pc = "talk" \/ (pc \in {"beat", "release", "tasks", "pipe", "quiet"} /\ spoken > 0)
  /\ transfer' = [transfer EXCEPT !.at = "mark"]
  /\ UNCHANGED <<conf, mvars, pvars, pc, failure, gone, missed, pipeline, spoken, resv, halt, beat, slot, claim, call, leg>>

\* A request of the snapshot, which the service may take: the pipeline's HTTP
\* session is closed last.
TakenLate(done) == IF done /\ srv.session = "ended" THEN transfer.late + 1 ELSE transfer.late
Takeable == {done \in BOOLEAN : done => pc \notin {"finish", "done"}}

\* What follows a snapshot: the dial after the first; after the second a connected
\* transfer releases the reservation.
Follows(late) ==
  IF transfer.mark = 1 THEN transfer' = [transfer EXCEPT !.at = "dial", !.late = late] /\ leg' = "out" /\ UNCHANGED <<resv, halt>>
  ELSE IF leg = "up" THEN
    /\ transfer' = [transfer EXCEPT !.at = IF resv = "ours" THEN "release" ELSE "over", !.late = late]
    /\ ReleaseSlot /\ UNCHANGED leg
  ELSE transfer' = [transfer EXCEPT !.at = "over", !.late = late] /\ UNCHANGED <<resv, halt, leg>>

\* Mutant of Marks: the store is not asked whether it is closed.
MarksClosed ==
  /\ transfer.at = "mark" /\ worker.at \notin {"resolve", "open", "event", "post"}
  /\ IF session THEN transfer' = [transfer EXCEPT !.at = "post"] /\ UNCHANGED <<resv, halt, leg>>
     ELSE Follows(transfer.late)
  /\ UNCHANGED <<conf, mvars, pvars, pc, failure, gone, missed, pipeline, spoken, beat, slot, claim, call>>

\* mark_transfer: under the write lock, once the session is started; nothing is
\* written without a session or once the store is closed.
Marks ==
  /\ transfer.at = "mark" /\ worker.at \notin {"resolve", "open", "event", "post"}
  /\ IF session /\ closing # "closed"
     THEN transfer' = [transfer EXCEPT !.at = "post"] /\ UNCHANGED <<resv, halt, leg>>
     ELSE Follows(transfer.late)
  /\ UNCHANGED <<conf, mvars, pvars, pc, failure, gone, missed, pipeline, spoken, beat, slot, claim, call>>

\* The analysis, then the event.
AnalysisPosted ==
  /\ transfer.at = "post"
  /\ \E done \in Takeable : transfer' = [transfer EXCEPT !.at = "event", !.late = TakenLate(done)]
  /\ UNCHANGED <<conf, mvars, pvars, pc, failure, gone, missed, pipeline, spoken, resv, halt, beat, slot, claim, call, leg>>

Marked ==
  /\ transfer.at = "event"
  /\ \E done \in Takeable : Follows(TakenLate(done))
  /\ UNCHANGED <<conf, mvars, pvars, pc, failure, gone, missed, pipeline, spoken, beat, slot, claim, call>>

DialAnswered ==
  /\ transfer.at = "dial" /\ leg' = "up" /\ transfer' = [transfer EXCEPT !.at = "mark", !.mark = 2]
  /\ UNCHANGED <<conf, mvars, pvars, pc, failure, gone, missed, pipeline, spoken, resv, halt, beat, slot, claim, call>>

\* Busy, refused, or no answer in 50 seconds: the leg may still connect.
DialFails ==
  /\ transfer.at = "dial" /\ leg' \in {"none", "out"} /\ transfer' = [transfer EXCEPT !.at = "remove"]
  /\ UNCHANGED <<conf, mvars, pvars, pc, failure, gone, missed, pipeline, spoken, resv, halt, beat, slot, claim, call>>

LegRemoved ==
  /\ transfer.at = "remove"
  /\ transfer' = [transfer EXCEPT !.at = "mark", !.mark = 2]
  /\ \E o \in Outcomes :
       /\ leg' = IF o.done THEN "none" ELSE leg
       /\ lost' = IF o.done THEN lost ELSE lost \union {"leg"}
  /\ UNCHANGED <<conf, mvars, pending, worker, session, keys, rec, stop, ended, closing, usage, srv,
                 pc, failure, gone, missed, pipeline, spoken, resv, halt, beat, slot, claim, call>>

TransferReleased ==
  /\ transfer.at = "release" /\ transfer' = [transfer EXCEPT !.at = "over"]
  /\ \E o \in Outcomes : Released(o)
  /\ UNCHANGED <<conf, mvars, pending, worker, session, keys, rec, stop, ended, closing, usage, srv,
                 pc, failure, gone, missed, pipeline, spoken, resv, halt, beat, claim, call, leg>>

----------------------------------------------------------------------------
(* finally, and ConversationPipeline.close                                   *)

StopBeating ==
  /\ Step("beat", "release") /\ halt' = TRUE /\ beat' = "over"
  /\ UNCHANGED <<conf, mvars, pvars, failure, gone, missed, pipeline, spoken, resv, slot, claim, call, transfer, leg>>

CleanupReleases ==
  /\ Step("release", "tasks")
  /\ IF resv = "ours" THEN \E o \in Outcomes : Released(o) ELSE UNCHANGED <<slot, lost>>
  /\ UNCHANGED <<conf, mvars, pending, worker, session, keys, rec, stop, ended, closing, usage, srv,
                 failure, gone, missed, pipeline, spoken, resv, halt, beat, claim, call, transfer, leg>>

\* Input tasks, handlers, the audio stream, the approval.
StopInput ==
  /\ Step("tasks", IF pipeline THEN "pipe" ELSE "finish")
  /\ UNCHANGED <<conf, mvars, pvars, failure, gone, missed, pipeline, spoken, resv, halt, beat, slot, claim, call, transfer, leg>>

\* The end of the recording is asked for before anything is waited for.
ClosePipeline ==
  /\ Step("pipe", "quiet") /\ MarkDisconnected /\ compact' = Paused
  /\ UNCHANGED <<conf, turns, summary, epoch, cur, idle, said, pending, worker, session, keys, rec, closing, usage, srv, lost,
                 failure, gone, missed, pipeline, spoken, resv, halt, beat, slot, claim, call, transfer, leg>>

\* _cancel_attempt: an answer cut off is stored too.  An attempt whose reply was
\* played is not there any more: its transfer goes on.
CancelAttempt ==
  /\ Step("quiet", "unwind")
  /\ \/ /\ spoken < conf.words /\ Words[spoken + 1][1] = "assistant"
        /\ spoken' = spoken + 1 /\ Spawn(Words[spoken + 1])
     \/ UNCHANGED <<spoken, pending>>
  /\ UNCHANGED <<conf, mvars, worker, session, keys, rec, stop, ended, closing, usage, srv, lost,
                 failure, gone, missed, pipeline, resv, halt, beat, slot, claim, call, transfer, leg>>

CloseStore ==
  /\ Step("unwind", "store") /\ CloseBegins
  /\ UNCHANGED <<conf, mvars, failure, gone, missed, pipeline, spoken, resv, halt, beat, slot, claim, call, transfer, leg>>

CloseUsage ==
  /\ Step("store", "usage") /\ closing = "closed" /\ UsageCloses
  /\ UNCHANGED <<conf, mvars, failure, gone, missed, pipeline, spoken, resv, halt, beat, slot, claim, call, transfer, leg>>

PipelineClosed ==
  /\ Step("usage", "finish") /\ usage.at = "closed"
  /\ UNCHANGED <<conf, mvars, pvars, failure, gone, missed, pipeline, spoken, resv, halt, beat, slot, claim, call, transfer, leg>>

\* The prepared call is told how the call went.
FinishCall ==
  /\ Step("finish", "done")
  /\ \E o \in IF claim THEN Outcomes ELSE {[done |-> FALSE, ok |-> FALSE]} :
       /\ call' = IF o.done THEN (IF failure THEN "failed" ELSE "completed") ELSE call
       /\ lost' = IF claim /\ ~o.done THEN lost \union {"outbound"} ELSE lost
  /\ UNCHANGED <<conf, mvars, pending, worker, session, keys, rec, stop, ended, closing, usage, srv,
                 failure, gone, missed, pipeline, spoken, resv, halt, beat, slot, claim, transfer, leg>>

Over == pc = "done" /\ UNCHANGED <<conf, mvars, pvars, jvars>>

Setup == Connects \/ CallerJoins \/ ClaimSlot \/ ClaimCall \/ WrongCall \/ LoadAgent \/ PublishTrack \/ StartPipeline \/ Ready \/ TalkOver
Cleanup == StopBeating \/ CleanupReleases \/ StopInput \/ ClosePipeline \/ CancelAttempt \/ CloseStore \/ CloseUsage \/ PipelineClosed \/ FinishCall
Transferring == Marks \/ AnalysisPosted \/ Marked \/ DialAnswered \/ DialFails \/ LegRemoved \/ TransferReleased
Storing == (Persists \/ AddMessage(transfer.at \in {"post", "event"}) \/ Closes \/ FinalFlushed) /\ UNCHANGED <<conf, mvars, jvars>>
Recording == Records /\ UNCHANGED <<conf, mvars, jvars>>
Reporting == Flushed /\ UNCHANGED <<conf, mvars, jvars>>

JobNext ==
  \/ Setup \/ Cleanup \/ Transferring \/ Storing \/ Recording \/ Reporting \/ Over
  \/ Breaks \/ CallerLeaves \/ EndCall \/ Says \/ Uses \/ Recalls \/ TransferAsked \/ Beats \/ BeatDone

JobSpec == JobInit /\ [][JobNext]_jobVars

\* Every task runs and every await has a bound; callers, their words and the
\* heartbeat's clock do not owe anything.
JobFairSpec ==
  /\ JobSpec
  /\ WF_jobVars(Setup) /\ WF_jobVars(Cleanup)
  /\ WF_jobVars(Transferring) /\ WF_jobVars(Storing) /\ WF_jobVars(Recording)

----------------------------------------------------------------------------
(* Properties                                                               *)

\* However a call ends (a hang-up, an error or a cancellation at any await, a
\* transfer under way), no service that answered is left believing in it: the
\* reservation is released, the prepared call finished, the session ended, the
\* egress stopped, the last usage and recording status told and no leg left
\* ringing (livekit_worker.py:788, pipeline.py:3021, conversation_persist.py:440).
\* Nobody stops a transfer, so the job may be done before it: its leg then still
\* rings while it dials or takes it back, and a reservation it released is on its way.
Settled ==
  pc = "done" =>
    /\ resv # "none" => slot = "freed" \/ "slot" \in lost \/ transfer.at = "release"
    /\ claim => call \in {"failed", "completed"} \/ "outbound" \in lost
    /\ srv.session # "open" \/ "session" \in lost
    /\ srv.egress # "running" \/ "egress" \in lost
    /\ usage.at = "closed" /\ session => srv.usage = usage.revision + 1 \/ "usage" \in lost
    /\ session => (srv.status = rec.status /\ srv.reconcile = rec.reconcile) \/ rec.dirty
    /\ leg = "out" => "leg" \in lost \/ transfer.at \in {"dial", "remove"}

\* The transcript is in the order it was spoken.
Ordered ==
  \A i, j \in DOMAIN srv.messages : i < j =>
    \E a, b \in DOMAIN Words : a < b /\ Words[a] = SubSeq(srv.messages[i], 1, 2)
                                    /\ Words[b] = SubSeq(srv.messages[j], 1, 2)

\* Nothing is written after the end, and nothing released is renewed.
Sealed ==
  /\ srv.session = "ended" => srv'.messages = srv.messages /\ srv'.status = srv.status /\ srv'.session = "ended"
  /\ beat = "sleep" /\ beat' = "flight" => resv = "ours" /\ slot # "freed"

\* What the services hold of a call is in order and has an end.  A transcript is
\* stored in the order it was spoken and without repeats, whatever was retried,
\* timed out or abandoned.  Once the session's end is posted nothing more is
\* written to it by the queue or the recording, and by a transfer, which close
\* does not wait for, only the two requests of the snapshot that was under way
\* then.  No heartbeat renews a reservation that the transfer or the cleanup
\* released (conversation_persist.py:313, 350, 468, livekit_worker.py:546, 789).
EndIsLast == [](Ordered /\ transfer.late <= 2) /\ [][Sealed]_jobVars

\* A call that its caller left, or that failed, is cleaned up to the end.
JobEnds == (gone \/ failure) ~> (pc = "done")
=============================================================================
