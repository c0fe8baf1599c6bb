------------------------------ MODULE Session ------------------------------
(***************************************************************************)
(* A job of the LiveKit agent (main.py), set up by module Boot: billed while  *)
(* it runs,                                                                *)
(* recorded, and cleaned up once however it ends, together with the          *)
(* services it writes to (conversation service, billing hooks, egress).      *)
(*                                                                         *)
(* Four tasks of one event loop: the entrypoint, the shutdown callback of    *)
(* the framework, the billing heartbeat, and the background tasks that        *)
(* _track_background_task collects.  An action is the code between two        *)
(* awaits.  The job may be shut down at any await, also before the call has   *)
(* started.  English and French take the same steps.                         *)
(***************************************************************************)
EXTENDS Boot

CONSTANT MaxBeats   \* bound: heartbeats of the billing service

ASSUME SessionAssumption == MaxBeats \in Nat

VARIABLES
  shut,     \* the job is shut down: "no", "early" (before the call started), "yes"
  hooks,    \* the shutdown callbacks registered
  tracker,  \* userdata["session_tracker_id"] is set
  clean,    \* _finalize_session_cleanup, as called by the callback and by finally
  done,     \* userdata["session_cleanup_completed"]
  holder,   \* session_cleanup_lock
  heart,    \* the heartbeat task and its failures in a row
  bg,       \* userdata["background_tasks"]
  rec,      \* the task that starts the recording, and the egress id it stored
  egress,   \* the recording at the egress service
  srv       \* what the services were told

svars == <<bvars, shut, hooks, tracker, clean, done, holder, heart, bg, rec, egress, srv>>

Callers == {"callback", "finally"}
NoCleanup == [pc |-> "no", tracker |-> FALSE, wait |-> {}, result |-> "none"]

SessionInit ==
  /\ BootInit
  /\ shut = "no" /\ hooks = {} /\ tracker = FALSE
  /\ clean = [c \in Callers |-> NoCleanup] /\ done = FALSE /\ holder = "none"
  /\ heart = [pc |-> "none", failures |-> 0]
  /\ bg = {} /\ rec = [pc |-> "none", id |-> FALSE] /\ egress = "none"
  /\ srv = [session |-> "none", status |-> "none", settled |-> FALSE, beats |-> 0, usage |-> 0, call |-> "none"]

\* A background task: its kind, the item of the conversation that started it,
\* what it carries, and whether what started it came after the cleanup had begun
\* to drain.
Event(kind) == [kind |-> kind, item |-> 0, about |-> 0, late |-> FALSE]

\* _persist_session_event_async: nothing without a session to attach it to.
Persist(tasks, event, known) == IF conf.service /\ known THEN tasks \union {event} ELSE tasks

----------------------------------------------------------------------------
(* entrypoint                                                               *)

Prepare ==
  /\ Setup
  /\ UNCHANGED <<shut, hooks, tracker, clean, done, holder, heart, bg, rec, egress, srv>>

\* Billing must agree unless it is bypassed, or out of reach and not failing
\* closed; then the cleanup is registered and the session can be built.
Authorize ==
  /\ main = "authorize"
  /\ \/ /\ conf.billing # "off" \/ ~conf.failClosed
        /\ main' = "build" /\ hooks' = hooks \union {"cleanup"}
     \/ /\ conf.billing = "on" \/ (conf.billing = "off" /\ conf.failClosed)
        /\ main' = "raised" /\ UNCHANGED hooks
  /\ UNCHANGED <<conf, boot, shut, tracker, clean, done, holder, heart, bg, rec, egress, srv>>

\* start_session (but in the configurations explored for their setup only): opened, refused, or an error that ends the job, after the
\* service opened it or not.
StartSession ==
  /\ main = "start" /\ ~conf.setupOnly
  /\ \/ ~conf.service /\ main' = "join" /\ UNCHANGED <<tracker, bg, srv>>
     \/ /\ conf.service /\ main' = "join" /\ tracker' = TRUE
        /\ srv' = [srv EXCEPT !.session = "open"] /\ bg' = Persist(bg, Event("started"), TRUE)
     \/ conf.service /\ main' = "join" /\ UNCHANGED <<tracker, bg, srv>>
     \/ conf.service /\ main' = "finally" /\ srv' \in {srv, [srv EXCEPT !.session = "open"]} /\ UNCHANGED <<tracker, bg>>
  /\ UNCHANGED <<conf, boot, shut, hooks, clean, done, holder, heart, rec, egress>>

Beats == conf.billing = "on" /\ heart.pc = "none"
Records == conf.recording /\ tracker

\* session.start; then the heartbeat and the recording begin and the
\* entrypoint waits for the end of the job.
Join ==
  /\ main = "join"
  /\ \/ /\ main' = "wait" /\ hooks' = hooks \union {"wait"}
        /\ heart' = IF Beats THEN [heart EXCEPT !.pc = "sleep"] ELSE heart
        /\ rec' = IF Records THEN [rec EXCEPT !.pc = "start"] ELSE rec
        /\ bg' = IF Records THEN bg \union {Event("recording")} ELSE bg
     \/ main' = "finally" /\ UNCHANGED <<hooks, heart, rec, bg>>
  /\ UNCHANGED <<conf, boot, shut, tracker, clean, done, holder, egress, srv>>

\* The framework shuts the job down (the caller has left, the worker drains,
\* the entrypoint has raised) and runs the callbacks registered so far.
Shut(why) ==
  /\ shut' = why
  /\ clean' = IF "cleanup" \in hooks
              THEN [clean EXCEPT !["callback"] = [NoCleanup EXCEPT !.pc = "lock", !.tracker = tracker]] ELSE clean
  /\ main' = IF main = "wait" THEN "finally" ELSE main

ShutDown ==
  /\ shut = "no" /\ ~conf.setupOnly /\ Shut(IF main \in {"build", "start", "join"} THEN "early" ELSE "yes")
  /\ UNCHANGED <<conf, boot, hooks, tracker, done, holder, heart, bg, rec, egress, srv>>

Finally ==
  /\ main = "finally"
  /\ clean' = [clean EXCEPT !["finally"] = [NoCleanup EXCEPT !.pc = "lock", !.tracker = tracker]]
  /\ main' = "cleanup"
  /\ UNCHANGED <<conf, boot, shut, hooks, tracker, done, holder, heart, bg, rec, egress, srv>>

----------------------------------------------------------------------------
(* Billing                                                                  *)

Beat ==
  /\ heart.pc = "sleep" /\ srv.beats < MaxBeats
  /\ heart' = [heart EXCEPT !.pc = "post"] /\ srv' = [srv EXCEPT !.beats = @ + 1]
  /\ UNCHANGED <<conf, boot, main, shut, hooks, tracker, clean, done, holder, bg, rec, egress>>

\* _shutdown_session_for_billing: told to the session; the session is shut down
\* with drain=True, so that what is under way ends and is still reported (module
\* Timeline); then the job is shut down and the room deleted, which is awaited.
BillingEnds ==
  /\ heart' = [heart EXCEPT !.pc = "delete"]
  /\ bg' = Persist(bg, Event("exhausted"), tracker)
  /\ IF shut = "no" THEN Shut("yes") ELSE UNCHANGED <<shut, clean, main>>

Goes == heart' = [pc |-> "sleep", failures |-> 0] /\ UNCHANGED <<bg, shut, clean, main>>
MaxFailures == 2

\* The wallet is empty, or billing is out of reach too often while failing
\* closed: the call ends.
BeatAnswered ==
  /\ heart.pc = "post"
  /\ \/ Goes
     \/ BillingEnds
     \/ /\ heart.failures + 1 < MaxFailures \/ ~conf.failClosed
        /\ heart' = [pc |-> "sleep", failures |-> IF conf.failClosed THEN heart.failures + 1 ELSE 0]
        /\ UNCHANGED <<bg, shut, clean, main>>
  /\ UNCHANGED <<conf, boot, hooks, tracker, done, holder, rec, egress, srv>>

RoomDeleted ==
  /\ heart.pc = "delete"
  /\ heart' = [heart EXCEPT !.pc = "end"]
  /\ UNCHANGED <<conf, boot, main, shut, hooks, tracker, clean, done, holder, bg, rec, egress, srv>>

----------------------------------------------------------------------------
(* Background tasks and the recording                                        *)

Posts == {Event(kind) : kind \in {"started", "exhausted", "recorded", "ready", "ended"}}

\* An event is written, or the request fails and only a log tells.
Post(event) ==
  /\ event \in bg \intersect Posts
  /\ bg' = bg \ {event}
  /\ UNCHANGED <<conf, boot, main, shut, hooks, tracker, clean, done, holder, heart, rec, egress, srv>>

\* start_room_recording: an error leaves no id, whatever the service did.
StartRecording ==
  /\ rec.pc = "start"
  /\ \/ egress' = "running" /\ rec' = [pc |-> "update", id |-> TRUE]
     \/ egress' \in {"running", "none"} /\ rec' = [pc |-> "update", id |-> FALSE]
  /\ UNCHANGED <<conf, boot, main, shut, hooks, tracker, clean, done, holder, heart, bg, srv>>

\* The session's recording status is stored, or that fails.
UpdateRecording ==
  /\ rec.pc = "update"
  /\ srv' \in {srv, [srv EXCEPT !.status = IF rec.id THEN "recording" ELSE "failed", !.settled = FALSE]}
  /\ rec' = [rec EXCEPT !.pc = "end"]
  /\ bg' = Persist(bg \ {Event("recording")}, Event("recorded"), tracker)
  /\ UNCHANGED <<conf, boot, main, shut, hooks, tracker, clean, done, holder, heart, egress>>

\* The room closes, or the egress fails.
EgressEnds ==
  /\ egress = "running"
  /\ egress' \in {"complete", "failed"}
  /\ UNCHANGED <<conf, boot, main, shut, hooks, tracker, clean, done, holder, heart, bg, rec, srv>>

----------------------------------------------------------------------------
(* _finalize_session_cleanup, for each of its callers                        *)

Goto(c, pc) == clean' = [clean EXCEPT ![c].pc = pc, ![c].wait = {}]

\* Mutant of CleanStart: the heartbeat is not stopped.
CleanStartBeating(c) ==
  /\ clean[c].pc = "lock" /\ holder = "none"
  /\ IF done THEN Goto(c, "end") /\ UNCHANGED <<done, holder, heart>>
     ELSE Goto(c, "usage") /\ done' = TRUE /\ holder' = c /\ UNCHANGED heart
  /\ UNCHANGED <<conf, boot, main, shut, hooks, tracker, bg, rec, egress, srv>>

\* Only the first caller cleans up; it cancels the heartbeat and awaits its end.
CleanStart(c) ==
  /\ clean[c].pc = "lock" /\ holder = "none"
  /\ IF done THEN Goto(c, "end") /\ UNCHANGED <<done, holder, heart>>
     ELSE /\ Goto(c, "usage") /\ done' = TRUE /\ holder' = c
          /\ heart' = [heart EXCEPT !.pc = IF @ = "none" THEN "none" ELSE "end"]
  /\ UNCHANGED <<conf, boot, main, shut, hooks, tracker, bg, rec, egress, srv>>

Names(tasks) == {<<t.kind, t.item, t.late>> : t \in tasks}
Draining(c, pc, tasks) == clean' = [clean EXCEPT ![c].pc = pc, ![c].wait = Names(tasks)]

\* Mutant of CleanUsage: the background tasks are drained at the end only.
CleanUsageUndrained(c) ==
  /\ clean[c].pc = "usage"
  /\ srv' \in {srv, [srv EXCEPT !.usage = IF conf.billing = "on" THEN @ + 1 ELSE @]}
  /\ Draining(c, "drain", {})
  /\ UNCHANGED <<conf, boot, main, shut, hooks, tracker, done, holder, heart, bg, rec, egress>>

\* The final usage is reported, received or not; then the tasks so far are drained.
CleanUsage(c) ==
  /\ clean[c].pc = "usage"
  /\ srv' \in {srv, [srv EXCEPT !.usage = IF conf.billing = "on" THEN @ + 1 ELSE @]}
  /\ Draining(c, "drain", bg)
  /\ UNCHANGED <<conf, boot, main, shut, hooks, tracker, done, holder, heart, bg, rec, egress>>

Drained(c) == clean[c].wait \intersect Names(bg) = {}
Recorded(c) == conf.service /\ conf.recording /\ clean[c].tracker

\* The recording is asked to stop, if its id is known; the request may be lost.
CleanStop(c) ==
  /\ clean[c].pc = "drain" /\ Drained(c)
  /\ IF Recorded(c) THEN Goto(c, "poll") ELSE Goto(c, "events")
  /\ \/ UNCHANGED egress
     \/ Recorded(c) /\ rec.id /\ egress = "running" /\ egress' = "complete"
  /\ UNCHANGED <<conf, boot, main, shut, hooks, tracker, done, holder, heart, bg, rec, srv>>

Results == IF ~rec.id THEN {"unavailable"}
           ELSE {"processing"} \union (IF egress = "complete" THEN {"available"} ELSE {})
                               \union (IF egress = "failed" THEN {"failed"} ELSE {})

\* The egress is polled until it is complete with its file, has failed, or the
\* budget is spent.
CleanPoll(c) ==
  /\ clean[c].pc = "poll"
  /\ \E r \in Results : clean' = [clean EXCEPT ![c].pc = "status", ![c].result = r]
  /\ UNCHANGED <<conf, boot, main, shut, hooks, tracker, done, holder, heart, bg, rec, egress, srv>>

CleanStatus(c) ==
  /\ clean[c].pc = "status"
  /\ srv' \in {srv, [srv EXCEPT !.status = clean[c].result, !.settled = TRUE]}
  /\ Goto(c, "events")
  /\ UNCHANGED <<conf, boot, main, shut, hooks, tracker, done, holder, heart, bg, rec, egress>>

\* Mutant of CleanEvents: the tasks of the first drain are thought to be all.
CleanEventsOnce(c) ==
  /\ clean[c].pc = "events"
  /\ bg' = Persist(bg, Event("ended"), tracker)
  /\ Draining(c, "drained", {})
  /\ UNCHANGED <<conf, boot, main, shut, hooks, tracker, done, holder, heart, rec, egress, srv>>

\* recording_ready, session_ended and the second drain.
CleanEvents(c) ==
  /\ clean[c].pc = "events"
  /\ bg' = Persist(IF Recorded(c) THEN Persist(bg, Event("ready"), tracker) ELSE bg, Event("ended"), tracker)
  /\ Draining(c, "drained", bg')
  /\ UNCHANGED <<conf, boot, main, shut, hooks, tracker, done, holder, heart, rec, egress, srv>>

\* end_session, or its failure.
CleanEnd(c) ==
  /\ clean[c].pc = "drained" /\ Drained(c)
  /\ srv' \in {srv, [srv EXCEPT !.session = IF conf.service /\ clean[c].tracker THEN "ended" ELSE @]}
  /\ Goto(c, "call")
  /\ UNCHANGED <<conf, boot, main, shut, hooks, tracker, done, holder, heart, bg, rec, egress>>

\* Mutant of CleanCall: the lock is left as it is.
CleanCallHeld(c) ==
  /\ clean[c].pc = "call" /\ Goto(c, "end")
  /\ UNCHANGED <<conf, boot, main, shut, hooks, tracker, done, holder, heart, bg, rec, egress, srv>>

\* finish_call of an outbound call, or its failure; the lock is released.
CleanCall(c) ==
  /\ clean[c].pc = "call"
  /\ srv' \in {srv, [srv EXCEPT !.call = IF boot.claimed THEN "finished" ELSE @]}
  /\ Goto(c, "end") /\ holder' = "none"
  /\ UNCHANGED <<conf, boot, main, shut, hooks, tracker, done, heart, bg, rec, egress>>

----------------------------------------------------------------------------
Entrypoint == Prepare \/ Authorize \/ StartSession \/ Join \/ Finally
Heartbeat == Beat \/ BeatAnswered \/ RoomDeleted
Recording == StartRecording \/ UpdateRecording
Cleanup(c) ==
  \/ CleanStart(c) \/ CleanUsage(c) \/ CleanStop(c) \/ CleanPoll(c) \/ CleanStatus(c)
  \/ CleanEvents(c) \/ CleanEnd(c) \/ CleanCall(c)

SessionNext ==
  \/ Entrypoint \/ (Joins /\ UNCHANGED <<shut, hooks, tracker, clean, done, holder, heart, bg, rec, egress, srv>>) \/ ShutDown \/ Heartbeat \/ Recording \/ EgressEnds
  \/ \E event \in Posts : Post(event)
  \/ \E c \in Callers : Cleanup(c)

\* Every request has a timeout and every task is scheduled.
SessionFairness ==
  /\ WF_svars(Entrypoint) /\ WF_svars(Recording) /\ WF_svars(BeatAnswered \/ RoomDeleted)
  /\ \A event \in Posts : WF_svars(Post(event))
  /\ \A c \in Callers : WF_svars(Cleanup(c))

----------------------------------------------------------------------------
(* Properties                                                               *)

\* The end of a session is its last word.  The final usage is reported once and
\* no heartbeat follows it; the session is ended when all has been told that the
\* job has to tell of itself and all that the conversation had brought before the
\* cleanup began to drain, by the tasks that such tasks started too; and the
\* outcome of the recording is not overwritten by its beginning.  What a session
\* that is drained (main.py:643) still says while the cleanup runs may be told
\* after the end.  (A job that is shut down while its session is being opened is
\* cleaned up before it has started what is to be cleaned up.)
EndIsFinal ==
  [][/\ srv'.usage <= 1
     /\ shut # "early" =>
          /\ srv.usage = 1 => srv'.beats = srv.beats
          /\ srv'.session = "ended" /\ srv.session # "ended" => \A t \in bg : t.late
          /\ srv.settled => srv'.settled]_svars

\* However the job ends, by the framework, by billing or by an error, both
\* calls of the cleanup return: neither the lock nor a drain waits for ever.
CleanedUp == \A c \in Callers : (clean[c].pc # "no") ~> (clean[c].pc = "end")
=============================================================================
