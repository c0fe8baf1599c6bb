------------------------------- MODULE Worker -------------------------------
(***************************************************************************)
(* The worker's control loop (rust/src/worker.rs): admission of jobs       *)
(* offered by the LiveKit server, the tasks that run them, the control     *)
(* socket that comes and goes under them, and draining.                    *)
(*                                                                         *)
(* The server is external and may send any message at any time while the   *)
(* socket is up; each send on the socket may fail, which ends the          *)
(* connection.  A job is its id; whether an offer is acceptable to the     *)
(* handler and whether an assignment matches its offer (same_job, token,   *)
(* url) are choices of the server.                                         *)
(*                                                                         *)
(* A task is "running", "cancelled" (its cancel watch was set, it is still *)
(* cleaning up) or "done" (it returned, and JoinSet has not been polled).  *)
(***************************************************************************)
EXTENDS Naturals, Sequences, FiniteSets, Functions

CONSTANTS Jobs,            \* job ids
          MaxJobs,         \* Admission.max
          SeenCap,         \* capacity of SeenJobs (4096)
          ReconnectLimit,  \* consecutive failed connections tolerated
          MaxAccepts,      \* bound: offers accepted
          MaxEpochs        \* bound: connections made

ASSUME WorkerAssumption ==
  /\ IsFiniteSet(Jobs)
  /\ MaxJobs \in Nat \ {0}
  /\ SeenCap \in Nat /\ SeenCap > MaxJobs
  /\ ReconnectLimit \in Nat
  /\ MaxAccepts \in Nat /\ MaxEpochs \in Nat

VARIABLES
  slot,       \* Admission.slots: free, reserved, expired or running
  order,      \* SeenJobs.order; SeenJobs.set is its range
  draining,   \* Admission.draining
  task,       \* the JoinSet: none, running, cancelled or done
  reports,    \* results not yet told to the server
  attempts,   \* consecutive failed connections
  mode,       \* top, online, finish, join, stopped or failed
  stop,       \* the operator's stop watch
  shutting,   \* shutting_down, local to one connection
  deadline,   \* drain deadline: none, armed or passed
  epochs,     \* connections made
  accepted,   \* history: number of offers accepted
  starts,     \* history: tasks spawned for each job
  ended,      \* history: jobs completed by the loop (not by finish_jobs)
  delivered   \* history: jobs whose result the server was sent

admission == <<slot, order, draining>>
history == <<accepted, starts, ended, delivered>>
vars == <<slot, order, draining, task, reports, attempts, mode, stop, shutting,
          deadline, epochs, accepted, starts, ended, delivered>>

Seen == Range(order)
Active == {j \in Jobs : slot[j] # "free"}
Tasks == {j \in Jobs : task[j] # "none"}

Init ==
  /\ slot = [j \in Jobs |-> "free"] /\ order = << >> /\ draining = FALSE
  /\ task = [j \in Jobs |-> "none"] /\ reports = << >> /\ attempts = 0
  /\ mode = "top" /\ stop = FALSE /\ shutting = FALSE /\ deadline = "none"
  /\ epochs = 0 /\ accepted = 0
  /\ starts = [j \in Jobs |-> 0] /\ ended = {} /\ delivered = {}

-----------------------------------------------------------------------------
(* Admission                                                               *)

\* SeenJobs::remember: the oldest id that is not active is forgotten, and the
\* active ones before it move to the back.
Remember(o, j, active) ==
  LET all == Append(o, j)
      k == CHOOSE i \in 1..Len(all) :
             /\ all[i] \notin active
             /\ \A h \in 1..(i - 1) : all[h] \in active
  IN  IF Len(all) <= SeenCap THEN all
      ELSE SubSeq(all, k + 1, Len(all)) \o SubSeq(all, 1, k - 1)

OfferOkOneMore(j, allowed) ==
  /\ ~draining /\ allowed
  /\ j \notin Seen /\ j \notin Active
  /\ Cardinality(Active) <= MaxJobs

OfferOkDraining(j, allowed) ==
  /\ allowed /\ j \notin Seen /\ j \notin Active
  /\ Cardinality(Active) < MaxJobs

\* The guard of Admission::offer.
OfferOk(j, allowed) ==
  /\ ~draining /\ allowed
  /\ j \notin Seen /\ j \notin Active
  /\ Cardinality(Active) < MaxJobs

\* The guard of Admission::assignment.
AssignmentOk(j, valid) == ~draining /\ slot[j] = "reserved" /\ valid

\* slots.retain(Running): what a disconnect and a drain keep.
OnlyRunning(s) == [j \in Jobs |-> IF s[j] = "running" THEN s[j] ELSE "free"]

\* The effect of cancel_all on the tasks.
CancelAll(t) ==
  [j \in Jobs |-> IF t[j] = "running" /\ slot[j] = "running"
                  THEN "cancelled" ELSE t[j]]

OnlineUnchanged ==
  UNCHANGED <<attempts, stop, shutting, deadline, epochs>>

Disconnect(s) == mode' = "top" /\ slot' = OnlyRunning(s)

\* A handler that ends with a send: on failure the connection is dropped.
Sending(ok, s) == IF ok THEN mode' = mode /\ slot' = s ELSE Disconnect(s)

-----------------------------------------------------------------------------
(* Server messages (handle_server)                                         *)

Availability(j, allowed, ok) ==
  /\ mode = "online" /\ accepted < MaxAccepts
  /\ IF OfferOk(j, allowed)
     THEN /\ Sending(ok, [slot EXCEPT ![j] = "reserved"])
          /\ order' = Remember(order, j, Active)
          /\ accepted' = accepted + 1
     ELSE Sending(ok, slot) /\ UNCHANGED <<order, accepted>>
  /\ UNCHANGED <<draining, task, reports, starts, ended, delivered>>
  /\ OnlineUnchanged

Assignment(j, valid, ok) ==
  /\ mode = "online"
  /\ \/ /\ AssignmentOk(j, valid)
        /\ Sending(ok, [slot EXCEPT ![j] = "running"])
        /\ task' = [task EXCEPT ![j] = "running"]
        /\ starts' = [starts EXCEPT ![j] = @ + 1]
     \/ /\ ~AssignmentOk(j, valid) /\ slot[j] # "running"
        /\ Sending(ok, [slot EXCEPT ![j] = "free"])
        /\ UNCHANGED <<task, starts>>
     \/ /\ ~AssignmentOk(j, valid) /\ slot[j] = "running"
        /\ UNCHANGED <<mode, slot, task, starts>>
  /\ UNCHANGED <<order, draining, reports, accepted, ended, delivered>>
  /\ OnlineUnchanged

TerminationFreeing(j) ==
  /\ mode = "online" /\ slot[j] # "free"
  /\ slot' = [slot EXCEPT ![j] = "free"]
  /\ task' = [task EXCEPT ![j] = IF @ = "running" THEN "cancelled" ELSE @]
  /\ UNCHANGED <<order, draining, reports, mode, history>>
  /\ OnlineUnchanged

\* A running job is asked to stop and keeps its slot; a reservation is dropped.
Termination(j) ==
  /\ mode = "online" /\ slot[j] # "free"
  /\ IF slot[j] = "running"
     THEN /\ task' = [task EXCEPT ![j] = IF @ = "running" THEN "cancelled" ELSE @]
          /\ UNCHANGED slot
     ELSE slot' = [slot EXCEPT ![j] = "free"] /\ UNCHANGED task
  /\ UNCHANGED <<order, draining, reports, mode, history>>
  /\ OnlineUnchanged

\* GoAway, a close, an undecodable message or ten seconds of silence.
Disconnected ==
  /\ mode = "online" /\ Disconnect(slot)
  /\ UNCHANGED <<order, draining, task, reports, history>>
  /\ OnlineUnchanged

-----------------------------------------------------------------------------
(* The connected loop                                                      *)

\* The stop watch changed: admit nothing more, start the drain clock.  The
\* status message is sent best effort.
OnlineStop ==
  /\ mode = "online" /\ stop /\ ~shutting
  /\ shutting' = TRUE /\ draining' = TRUE
  /\ slot' = OnlyRunning(slot) /\ deadline' = "armed"
  /\ UNCHANGED <<order, task, reports, attempts, mode, stop, epochs, history>>

\* JoinSet yields a finished task: its slot is freed, its result queued, and
\* the oldest queued result sent.
OnlineDoneDropping(j, sentStatus, sentReport) ==
  /\ mode = "online" /\ task[j] = "done"
  /\ task' = [task EXCEPT ![j] = "none"] /\ ended' = ended \cup {j}
  /\ LET freed == [slot EXCEPT ![j] = "free"]
         queued == Append(reports, j)
     IN  /\ reports' = Tail(queued)
         /\ IF sentStatus /\ sentReport
            THEN /\ delivered' = delivered \cup {Head(queued)}
                 /\ mode' = mode /\ slot' = freed
            ELSE Disconnect(freed) /\ UNCHANGED delivered
  /\ UNCHANGED <<order, draining, accepted, starts>>
  /\ OnlineUnchanged

OnlineDone(j, sentStatus, sentReport) ==
  /\ mode = "online" /\ task[j] = "done"
  /\ task' = [task EXCEPT ![j] = "none"] /\ ended' = ended \cup {j}
  /\ LET freed == [slot EXCEPT ![j] = "free"]
         queued == Append(reports, j)
     IN  IF sentStatus /\ sentReport
         THEN /\ delivered' = delivered \cup {Head(queued)}
              /\ reports' = Tail(queued) /\ mode' = mode /\ slot' = freed
         ELSE Disconnect(freed) /\ reports' = queued /\ UNCHANGED delivered
  /\ UNCHANGED <<order, draining, accepted, starts>>
  /\ OnlineUnchanged

Expired(s) == [j \in Jobs |-> IF s[j] = "expired" THEN "free" ELSE s[j]]

TickPatient(ok) ==
  /\ mode = "online"
  /\ IF shutting /\ Tasks = {}
     THEN /\ mode' = "stopped" /\ slot' = Expired(slot)
          /\ UNCHANGED <<task, draining>>
     ELSE Sending(ok, Expired(slot)) /\ UNCHANGED <<task, draining>>
  /\ UNCHANGED <<order, reports, history>>
  /\ OnlineUnchanged

\* The 250 ms tick: expire reservations, leave when drained, cancel what the
\* drain deadline overtook, publish the status.
Tick(ok) ==
  /\ mode = "online"
  /\ IF shutting /\ Tasks = {}
     THEN /\ mode' = "stopped" /\ slot' = Expired(slot)
          /\ UNCHANGED <<task, draining>>
     ELSE /\ Sending(ok, Expired(slot))
          /\ task' = IF deadline = "passed" THEN CancelAll(task) ELSE task
          /\ draining' = (draining \/ deadline = "passed")
  /\ UNCHANGED <<order, reports, history>>
  /\ OnlineUnchanged

-----------------------------------------------------------------------------
(* Between connections                                                     *)

\* The stop watch is seen at the head of the loop: finish_jobs with what is
\* left of the grace period.
TopStop ==
  /\ mode = "top" /\ stop
  /\ mode' = "finish" /\ draining' = TRUE /\ slot' = OnlyRunning(slot)
  /\ deadline' = IF deadline = "none" THEN "armed" ELSE deadline
  /\ UNCHANGED <<order, task, reports, attempts, stop, shutting, epochs, history>>

\* A job ends while there is no socket: its result waits for the next one.
TopJoin(j) ==
  /\ mode = "top" /\ task[j] = "done"
  /\ task' = [task EXCEPT ![j] = "none"] /\ slot' = [slot EXCEPT ![j] = "free"]
  /\ reports' = Append(reports, j) /\ ended' = ended \cup {j}
  /\ UNCHANGED <<order, draining, mode, accepted, starts, delivered>>
  /\ OnlineUnchanged

\* Registration succeeds; MigrateJob, the status and every queued result are
\* sent, n of them getting through before a failure.
Connects(ok, n) ==
  /\ mode = "top" /\ ~stop /\ epochs < MaxEpochs
  /\ n \in 0..Len(reports) /\ (ok => n = Len(reports))
  /\ attempts' = 0 /\ epochs' = epochs + 1
  /\ delivered' = delivered \cup Range(SubSeq(reports, 1, n))
  /\ reports' = SubSeq(reports, n + 1, Len(reports))
  /\ mode' = (IF ok THEN "online" ELSE "top") /\ shutting' = FALSE
  /\ UNCHANGED <<slot, order, draining, task, stop, deadline, accepted, starts,
                 ended>>

\* The connection fails; past the limit the worker gives up without grace.
ConnectFails ==
  /\ mode = "top" /\ ~stop /\ attempts <= ReconnectLimit
  /\ attempts' = attempts + 1
  /\ IF attempts' > ReconnectLimit
     THEN /\ mode' = "finish" /\ draining' = TRUE /\ slot' = OnlyRunning(slot)
          /\ deadline' = "passed"
     ELSE UNCHANGED <<mode, draining, slot, deadline>>
  /\ UNCHANGED <<order, task, reports, stop, shutting, epochs, history>>

\* finish_jobs: wait for the tasks until the deadline, then cancel them ...
FinishCancel ==
  /\ mode = "finish" /\ (Tasks = {} \/ deadline = "passed")
  /\ mode' = "join" /\ task' = CancelAll(task) /\ draining' = TRUE
  /\ UNCHANGED <<slot, order, reports, attempts, stop, shutting, deadline,
                 epochs, history>>

\* ... collecting results that nobody is told of ...
FinishJoin(j) ==
  /\ mode \in {"finish", "join"} /\ task[j] = "done"
  /\ task' = [task EXCEPT ![j] = "none"] /\ slot' = [slot EXCEPT ![j] = "free"]
  /\ UNCHANGED <<order, draining, reports, mode, history>>
  /\ OnlineUnchanged

\* ... and return once the JoinSet is empty.
FinishReturns ==
  /\ mode = "join" /\ Tasks = {}
  /\ mode' = IF attempts > ReconnectLimit THEN "failed" ELSE "stopped"
  /\ UNCHANGED <<slot, order, draining, task, reports, history>>
  /\ OnlineUnchanged

-----------------------------------------------------------------------------
(* The environment: jobs, clocks and the operator                          *)

\* run_owned_job: the handler returns, or its 240 s after the cancel are over.
JobEnds(j) ==
  /\ task[j] \in {"running", "cancelled"}
  /\ task' = [task EXCEPT ![j] = "done"]
  /\ UNCHANGED <<slot, order, draining, reports, mode, history>>
  /\ OnlineUnchanged

\* assignment_timeout elapses.
ReservationExpires(j) ==
  /\ slot[j] = "reserved" /\ slot' = [slot EXCEPT ![j] = "expired"]
  /\ UNCHANGED <<order, draining, task, reports, mode, history>>
  /\ OnlineUnchanged

DeadlinePasses ==
  /\ deadline = "armed" /\ deadline' = "passed"
  /\ UNCHANGED <<slot, order, draining, task, reports, attempts, mode, stop,
                 shutting, epochs, history>>

\* The operator's stop signal.
Stop ==
  /\ ~stop /\ stop' = TRUE
  /\ UNCHANGED <<slot, order, draining, task, reports, attempts, mode, shutting,
                 deadline, epochs, history>>

-----------------------------------------------------------------------------
Server ==
  \/ \E j \in Jobs, allowed, ok \in BOOLEAN : Availability(j, allowed, ok)
  \/ \E j \in Jobs, valid, ok \in BOOLEAN : Assignment(j, valid, ok)
  \/ \E j \in Jobs : Termination(j)
  \/ Disconnected

Loop ==
  \/ OnlineStop \/ TopStop \/ FinishCancel \/ FinishReturns
  \/ \E j \in Jobs : TopJoin(j) \/ FinishJoin(j)
  \/ \E j \in Jobs, a, b \in BOOLEAN : OnlineDone(j, a, b)

Ticking == \E ok \in BOOLEAN : Tick(ok)

Connecting == ConnectFails \/ \E ok \in BOOLEAN, n \in 0..Len(reports) : Connects(ok, n)

Next ==
  \/ Server \/ Loop \/ Ticking \/ Connecting
  \/ \E j \in Jobs : JobEnds(j) \/ ReservationExpires(j)
  \/ DeadlinePasses \/ Stop

Spec == Init /\ [][Next]_vars

(***************************************************************************)
(* The loop is one task and its ticks are timers (fairness is on the tick  *)
(* whose send succeeds: no failure is forced); a cancelled job ends        *)
(* because of its 240 s timeout; the drain deadline is a timer.  Nothing   *)
(* is assumed of the server, the network or a job that was not cancelled.  *)
(***************************************************************************)
FairSpec ==
  /\ Spec /\ WF_vars(Loop) /\ WF_vars(Tick(TRUE)) /\ WF_vars(DeadlinePasses)
  /\ \A j \in Jobs : WF_vars(task[j] = "cancelled" /\ JobEnds(j))

-----------------------------------------------------------------------------
(* Properties                                                              *)

\* Every variable keeps its type; SeenJobs never exceeds its capacity.
TypeOK ==
  /\ slot \in [Jobs -> {"free", "reserved", "expired", "running"}]
  /\ order \in Seq(Jobs) /\ Len(order) <= SeenCap
  /\ draining \in BOOLEAN
  /\ task \in [Jobs -> {"none", "running", "cancelled", "done"}]
  /\ reports \in Seq(Jobs)
  /\ attempts \in 0..(ReconnectLimit + 1)
  /\ mode \in {"top", "online", "finish", "join", "stopped", "failed"}
  /\ stop \in BOOLEAN /\ shutting \in BOOLEAN
  /\ deadline \in {"none", "armed", "passed"}
  /\ epochs \in 0..MaxEpochs /\ accepted \in 0..MaxAccepts
  /\ starts \in [Jobs -> Nat]
  /\ ended \subseteq Jobs /\ delivered \subseteq Jobs

\* The calls alive in the process never exceed the configured capacity,
\* whatever offers, terminations, reconnects and cancellations interleave.
CapacityBound == Cardinality(Tasks) <= MaxJobs

\* A slot is Running exactly while its job's task is alive, so a job can
\* never be started while an earlier task of it still cleans up.
SlotOwnsTask == \A j \in Jobs : slot[j] = "running" <=> task[j] # "none"

\* Reservations belong to one control epoch: none outlives its connection.
ReservationEpoch ==
  mode # "online" => \A j \in Jobs : slot[j] \in {"free", "running"}

\* The slots say what the process does: all of the above.
SlotsFaithful == CapacityBound /\ SlotOwnsTask /\ ReservationEpoch

\* No job is run twice or forgotten: an id that holds a slot is remembered even
\* when the bounded cache evicts, no job is started again while the cache has
\* not wrapped, and the result of a job that ended was sent or is still queued,
\* whichever send failed.
JobsAccounted ==
  /\ Active \subseteq Seen
  /\ accepted <= SeenCap => \A j \in Jobs : starts[j] <= 1
  /\ ended \subseteq delivered \cup Range(reports)

\* A draining worker starts no task and takes no reservation.
DrainAdmitsNothing ==
  [][draining => starts' = starts
                 /\ \A j \in Jobs : slot'[j] = "reserved" => slot[j] = "reserved"]_vars

\* The inductive invariant behind SlotOwnsTask, ReservationEpoch and
\* CapacityBound: a drain holds no reservation, and it is a drain whenever its
\* clock runs or the connected loop shuts down.
WorkerInv ==
  /\ slot \in [Jobs -> {"free", "reserved", "expired", "running"}]
  /\ task \in [Jobs -> {"none", "running", "cancelled", "done"}]
  /\ SlotOwnsTask /\ ReservationEpoch
  /\ draining => \A j \in Jobs : slot[j] \in {"free", "running"}
  /\ deadline # "none" => draining
  /\ mode = "online" /\ shutting => draining
  /\ Cardinality(Active) <= MaxJobs

\* What SeenJobs and the histories keep: no id is remembered twice (so that the
\* active ones cannot fill the cache), at most the accepted ids are remembered,
\* and until the cache wraps a job that was started stays remembered and takes
\* no second reservation.
JobsInv ==
  /\ TypeOK
  /\ \A h, i \in 1..Len(order) : order[h] = order[i] => h = i
  /\ Active \subseteq Seen
  /\ Len(order) <= accepted
  /\ accepted <= SeenCap =>
       \A j \in Jobs : /\ starts[j] <= 1
                       /\ starts[j] = 1 => j \in Seen /\ slot[j] \notin {"reserved", "expired"}
  /\ ended \subseteq delivered \cup Range(reports)

\* The stop signal is honoured: the worker eventually returns.
StopReturns == stop ~> mode \in {"stopped", "failed"}
=============================================================================
