------------------------------- MODULE Store -------------------------------
(***************************************************************************)
(* What a call persists (conversation_persist.py, usage.py): the queue of     *)
(* transcript writes and its worker, the recording and its stop, the usage    *)
(* reports, and their close, with the services that they talk to.            *)
(*                                                                         *)
(* An action is the code between two awaits.  A request takes effect at the   *)
(* latest when its caller gives up on it; whether it did, and whether the     *)
(* caller learns of it, is chosen when the request ends.                     *)
(***************************************************************************)
EXTENDS Memory

CONSTANTS
  Confs,       \* the calls to check
  MaxPending,  \* MAX_PENDING_OPERATIONS
  MaxUse       \* bound: observations of usage

ASSUME StoreAssumption == MaxPending \in Nat \ {0} /\ MaxUse \in Nat

VARIABLES
  conf,     \* the call: its host, its services, the words spoken
  pending,  \* ConversationStore._pending
  worker,   \* _worker: the operation it runs, where, and the attempt of its request
  session,  \* session_id is known
  keys,     \* _message_keys
  rec,      \* the recording task, recording_status, the egress id, the dirty flag
  stop,     \* _recording_stop_task
  ended,    \* _ended_at is set
  closing,  \* where close is
  usage,    \* the collector's revision and the reporter
  srv,      \* the conversation, egress and billing services
  lost      \* history: the services that failed a request for good

pvars == <<pending, worker, session, keys, rec, stop, ended, closing, usage, srv, lost>>

Resting == [op |-> <<>>, at |-> "idle", attempt |-> 1]

StoreInit ==
  /\ pending = <<>> /\ worker = Resting /\ session = FALSE /\ keys = {}
  /\ rec = [at |-> "none", status |-> "disabled", egress |-> FALSE, reconcile |-> FALSE, dirty |-> FALSE]
  /\ stop = "none" /\ ended = FALSE /\ closing = "no"
  /\ usage = [at |-> "off", revision |-> 0, last |-> -1, sent |-> 0]
  /\ srv = [session |-> "none", messages |-> <<>>, status |-> "none", reconcile |-> FALSE, egress |-> "none", usage |-> -1]
  /\ lost = {}

\* A request that ended: whether it took effect, and whether the caller knows.
Outcomes == {[done |-> TRUE, ok |-> TRUE], [done |-> TRUE, ok |-> FALSE], [done |-> FALSE, ok |-> FALSE]}

----------------------------------------------------------------------------
(* The queue and its worker                                                  *)

\* spawn: dropped once the store is closing or the queue is full.
Spawn(op) == pending' = IF closing = "no" /\ Len(pending) < MaxPending THEN Append(pending, op) ELSE pending

\* _run_pending
Takes ==
  /\ worker.at = "idle" /\ pending # <<>>
  /\ pending' = Tail(pending)
  /\ worker' = IF ~conf.service THEN Resting
               ELSE [op |-> Head(pending), at |-> IF Head(pending) = <<"start">> THEN "resolve" ELSE "lock", attempt |-> 1]
  /\ UNCHANGED <<session, keys, rec, stop, ended, closing, usage, srv, lost>>

\* start: resolve, then open the session; without either nothing is stored.
AgentResolved ==
  /\ worker.at = "resolve"
  /\ \/ worker' = [worker EXCEPT !.at = "open"] /\ UNCHANGED lost
     \/ worker' = Resting /\ lost' = lost \union {"session"}
  /\ UNCHANGED <<pending, session, keys, rec, stop, ended, closing, usage, srv>>

SessionOpened ==
  /\ worker.at = "open"
  /\ \E o \in Outcomes :
       /\ srv' = [srv EXCEPT !.session = IF o.done THEN "open" ELSE @]
       /\ session' = o.ok
       /\ worker' = IF o.ok THEN [worker EXCEPT !.at = "event"] ELSE Resting
       /\ rec' = IF o.ok THEN [rec EXCEPT !.at = "starting"] ELSE rec
       /\ lost' = IF o.ok THEN lost ELSE lost \union {"session"}
  /\ UNCHANGED <<pending, keys, stop, ended, closing, usage>>

StartedEvent ==
  /\ worker.at = "event" /\ worker' = Resting
  /\ UNCHANGED <<pending, session, keys, rec, stop, ended, closing, usage, srv, lost>>

\* _add_message under the write lock: the key is stored before the request.
AddMessage(locked) ==
  /\ worker.at = "lock" /\ ~locked
  /\ IF session /\ worker.op \notin keys
     THEN keys' = keys \union {worker.op} /\ worker' = [worker EXCEPT !.at = "post"]
     ELSE keys' = keys /\ worker' = Resting
  /\ UNCHANGED <<pending, session, rec, stop, ended, closing, usage, srv, lost>>

\* The service stores a message once per idempotency key.
Stored(messages, key) == IF \E i \in DOMAIN messages : messages[i] = key THEN messages ELSE Append(messages, key)

\* Mutant of Key: the second attempt sends a key of its own.
KeyPerAttempt(w) == Append(w.op, w.attempt)

Key(w) == w.op

\* _request: a transient failure is tried once more with the same key.
Posted ==
  /\ worker.at = "post"
  /\ \E o \in Outcomes, transient \in BOOLEAN :
       /\ o.ok => ~transient
       /\ o.done /\ ~o.ok => transient
       /\ srv' = [srv EXCEPT !.messages = IF o.done THEN Stored(@, Key(worker)) ELSE @]
       /\ worker' = IF transient /\ worker.attempt = 1 THEN [worker EXCEPT !.attempt = 2] ELSE Resting
  /\ UNCHANGED <<pending, session, keys, rec, stop, ended, closing, usage, lost>>

\* What a cancelled operation leaves behind: its request may have arrived.
Abandons(next) ==
  /\ \E done \in BOOLEAN :
       srv' = [srv EXCEPT !.session = IF done /\ worker.at = "open" THEN "open" ELSE @,
                          !.messages = IF done /\ worker.at = "post" THEN Stored(@, Key(worker)) ELSE @]
  /\ lost' = IF worker.at \in {"resolve", "open"} THEN lost \union {"session"} ELSE lost
  /\ worker' = next

\* OPERATION_TIMEOUT_SECONDS
OperationTimeout ==
  /\ worker.at \in {"resolve", "open", "event", "lock", "post"}
  /\ Abandons(Resting)
  /\ UNCHANGED <<pending, session, keys, rec, stop, ended, closing, usage>>

----------------------------------------------------------------------------
(* The recording                                                            *)

\* _schedule_recording_stop: once, when the call is over and the id is known,
\* whichever comes last.
StopTask(over, known) == IF over /\ known /\ stop = "none" THEN "asked" ELSE stop

MarkDisconnected == ended' = TRUE /\ stop' = StopTask(TRUE, rec.egress)

\* Mutant of RecordingStarted: only the end of the call asks for the stop.
RecordingStartedLate ==
  /\ rec.at = "starting" /\ conf.recording
  /\ srv' = [srv EXCEPT !.egress = "running"]
  /\ rec' = [rec EXCEPT !.at = "publish", !.egress = TRUE, !.status = "processing"]
  /\ UNCHANGED <<pending, worker, session, keys, stop, ended, closing, usage, lost>>

\* _start_recording
RecordingStarted ==
  /\ rec.at = "starting" /\ conf.recording
  /\ srv' = [srv EXCEPT !.egress = "running"]
  /\ rec' = [rec EXCEPT !.at = "publish", !.egress = TRUE, !.status = "processing"]
  /\ stop' = StopTask(ended, TRUE)
  /\ UNCHANGED <<pending, worker, session, keys, ended, closing, usage, lost>>

\* Nothing to record; no egress id; an exception, which may hide an egress; a
\* timeout, which is flagged because it may hide one too.
RecordingNotStarted ==
  /\ rec.at = "starting"
  /\ \E why \in IF conf.recording THEN {"refused", "raised", "timeout"} ELSE {"disabled"}, started \in BOOLEAN :
       /\ started => why \in {"raised", "timeout"}
       /\ srv' = [srv EXCEPT !.egress = IF started THEN "running" ELSE @]
       /\ rec' = [rec EXCEPT !.at = "publish", !.status = IF why = "disabled" THEN @ ELSE "failed", !.reconcile = (why = "timeout")]
       /\ lost' = IF started THEN lost \union {"egress"} ELSE lost
  /\ UNCHANGED <<pending, worker, session, keys, stop, ended, closing, usage>>

\* _publish_recording_status: the endpoint and the event, each tried twice;
\* either failing leaves the status dirty.
Told(r, o) == [srv EXCEPT !.status = IF o.done THEN r.status ELSE @, !.reconcile = IF o.done THEN r.reconcile ELSE @]

RecordingPublished ==
  /\ rec.at = "publish"
  /\ \E o \in Outcomes : srv' = Told(rec, o) /\ rec' = [rec EXCEPT !.at = "done", !.dirty = ~o.ok]
  /\ UNCHANGED <<pending, worker, session, keys, stop, ended, closing, usage, lost>>

\* _request_recording_stop
StopAnswered ==
  /\ stop = "asked" /\ stop' = "done"
  /\ \E o \in Outcomes :
       /\ srv' = [srv EXCEPT !.egress = IF o.done THEN "stopped" ELSE @]
       /\ lost' = IF o.done THEN lost ELSE lost \union {"egress"}
  /\ UNCHANGED <<pending, worker, session, keys, rec, ended, closing, usage>>

----------------------------------------------------------------------------
(* close                                                                    *)

CloseBegins ==
  /\ closing = "no" /\ closing' = "drain" /\ MarkDisconnected
  /\ UNCHANGED <<pending, worker, session, keys, rec, usage, srv, lost>>

Drained ==
  /\ closing = "drain" /\ worker.at = "idle" /\ pending = <<>>
  /\ closing' = "recording"
  /\ UNCHANGED <<pending, worker, session, keys, rec, stop, ended, usage, srv, lost>>

\* Mutant of DrainTimeout: once the session is open the worker is left running.
DrainTimeoutRuns ==
  /\ closing = "drain" /\ ~(worker.at = "idle" /\ pending = <<>>)
  /\ IF session THEN UNCHANGED <<worker, srv, lost>> ELSE Abandons([Resting EXCEPT !.at = "dead"])
  /\ closing' = "recording"
  /\ UNCHANGED <<pending, session, keys, rec, stop, ended, usage>>

\* DRAIN_TIMEOUT_SECONDS: the worker is cancelled and the rest never written.
DrainTimeout ==
  /\ closing = "drain" /\ ~(worker.at = "idle" /\ pending = <<>>)
  /\ Abandons([Resting EXCEPT !.at = "dead"])
  /\ pending' = <<>> /\ closing' = "recording"
  /\ UNCHANGED <<session, keys, rec, stop, ended, usage>>

RecordingAwaited ==
  /\ closing = "recording" /\ rec.at \in {"none", "done"}
  /\ closing' = IF session THEN "stop" ELSE "closed"
  /\ UNCHANGED <<pending, worker, session, keys, rec, stop, ended, usage, srv, lost>>

\* The recording task outlives its 27 seconds and is cancelled.
RecordingTimeout ==
  /\ closing = "recording" /\ rec.at \in {"starting", "publish"}
  /\ \E o \in Outcomes :
       /\ srv' = IF rec.at = "publish" THEN Told(rec, o)
                 ELSE [srv EXCEPT !.egress = IF conf.recording /\ o.done THEN "running" ELSE @]
       /\ lost' = IF rec.at = "starting" /\ conf.recording /\ o.done THEN lost \union {"egress"} ELSE lost
  /\ rec' = [rec EXCEPT !.at = "done", !.status = "failed", !.reconcile = TRUE]
  /\ closing' = "flag"
  /\ UNCHANGED <<pending, worker, session, keys, stop, ended, usage>>

\* A status published by close itself.
ClosePublishes(from, next) ==
  /\ closing = from /\ closing' = next
  /\ \E o \in Outcomes : srv' = Told(rec, o) /\ rec' = [rec EXCEPT !.dirty = ~o.ok]
  /\ UNCHANGED <<pending, worker, session, keys, stop, ended, usage, lost>>

StopAwaited ==
  /\ closing = "stop" /\ stop # "asked"
  /\ closing' = IF rec.egress THEN "finalize" ELSE "dirty"
  /\ UNCHANGED <<pending, worker, session, keys, rec, stop, ended, usage, srv, lost>>

\* _finalize_recording: the egress is polled; it may be done, be processed
\* still, have failed, or its state cannot be read.
Finalized ==
  /\ closing = "finalize" /\ closing' = "final"
  /\ \E s \in {"available", "processing", "failed"} : rec' = [rec EXCEPT !.status = s, !.reconcile = (s = "processing")]
  /\ UNCHANGED <<pending, worker, session, keys, stop, ended, usage, srv, lost>>

Checked ==
  /\ closing = "dirty" /\ closing' = IF rec.dirty THEN "again" ELSE "end"
  /\ UNCHANGED <<pending, worker, session, keys, rec, stop, ended, usage, srv, lost>>

\* sessions/end
EndPosted ==
  /\ closing = "end" /\ closing' = "closed"
  /\ \E o \in Outcomes :
       /\ srv' = [srv EXCEPT !.session = IF o.done THEN "ended" ELSE @]
       /\ lost' = IF o.done THEN lost ELSE lost \union {"session"}
  /\ UNCHANGED <<pending, worker, session, keys, rec, stop, ended, usage>>

Closes ==
  \/ Drained \/ DrainTimeout \/ RecordingAwaited \/ RecordingTimeout \/ StopAwaited \/ Finalized \/ Checked \/ EndPosted
  \/ ClosePublishes("flag", "stop") \/ ClosePublishes("final", "dirty") \/ ClosePublishes("again", "end")

----------------------------------------------------------------------------
(* UsageCollector and UsageReporter                                          *)

Observes ==
  /\ usage.revision < MaxUse /\ usage' = [usage EXCEPT !.revision = @ + 1]
  /\ UNCHANGED <<pending, worker, session, keys, rec, stop, ended, closing, srv, lost>>

\* _run, flush: the snapshot is taken before the request.
Flushes ==
  /\ usage.at = "sleep" /\ session /\ usage.revision # usage.last
  /\ usage' = [usage EXCEPT !.at = "flush", !.sent = usage.revision]
  /\ UNCHANGED <<pending, worker, session, keys, rec, stop, ended, closing, srv, lost>>

\* The service keeps the latest revision.
Billed(o) == [srv EXCEPT !.usage = IF o.done /\ usage.sent > @ THEN usage.sent ELSE @]

Flushed ==
  /\ usage.at = "flush"
  /\ \E o \in Outcomes :
       /\ srv' = Billed(o)
       /\ usage' = [usage EXCEPT !.at = "sleep", !.last = IF o.ok THEN usage.sent ELSE @]
  /\ UNCHANGED <<pending, worker, session, keys, rec, stop, ended, closing, lost>>

\* close: the loop is cancelled with its request, the final snapshot is sent
\* at most twice.
UsageCloses ==
  /\ \E o \in Outcomes : srv' = IF usage.at = "flush" THEN Billed(o) ELSE srv
  /\ usage' = IF session /\ usage.at # "off" THEN [usage EXCEPT !.at = "final", !.sent = usage.revision + 1]
              ELSE [usage EXCEPT !.at = "closed"]
  /\ UNCHANGED <<pending, worker, session, keys, rec, stop, ended, closing, lost>>

\* Mutant of FinalFlushed: a failure goes back to the periodic report.
FinalFlushedLater ==
  /\ usage.at \in {"final", "second"}
  /\ \E o \in Outcomes :
       /\ srv' = Billed(o)
       /\ usage' = [usage EXCEPT !.at = IF o.ok THEN "closed" ELSE "sleep"]
  /\ UNCHANGED <<pending, worker, session, keys, rec, stop, ended, closing, lost>>

FinalFlushed ==
  /\ usage.at \in {"final", "second"}
  /\ \E o \in Outcomes :
       /\ srv' = Billed(o)
       /\ usage' = [usage EXCEPT !.at = IF o.ok \/ usage.at = "second" THEN "closed" ELSE "second", !.last = IF o.ok THEN usage.sent ELSE @]
       /\ lost' = IF ~o.done /\ usage.at = "second" THEN lost \union {"usage"} ELSE lost
  /\ UNCHANGED <<pending, worker, session, keys, rec, stop, ended, closing>>

Persists == Takes \/ AgentResolved \/ SessionOpened \/ StartedEvent \/ Posted \/ OperationTimeout
Records == RecordingStarted \/ RecordingNotStarted \/ RecordingPublished \/ StopAnswered
=============================================================================
