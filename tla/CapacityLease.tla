---------------------------- MODULE CapacityLease ----------------------------
(***************************************************************************)
(* The SIP capacity reservation of one call (rust/src/rvc/capacity.rs) and *)
(* the job that owns it (rust/src/bin/rvc_worker.rs, rvc/bootstrap.rs).    *)
(*                                                                         *)
(* A Lease holds the reservation id in an Option that release() and Drop   *)
(* both take, and a heartbeat task that both abort.  It moves: from the    *)
(* claim (or from the detached task that claims by the caller's number,    *)
(* through a one-shot channel) to the job, into a mutex, and from there to *)
(* a handoff or to the end of the job, whichever takes it first.  The job  *)
(* can be cancelled, and a handoff aborted, at every await in between.     *)
(*                                                                         *)
(* The capacity service is external: it answers a request or does not, and *)
(* every request is under a client timeout.                                *)
(***************************************************************************)
EXTENDS Naturals

CONSTANTS
  Handoffs,  \* the tasks the room's Handoff events spawn
  MaxBeats   \* bound: heartbeats sent

ASSUME LeaseAssumption == MaxBeats \in Nat

VARIABLES
  path,      \* "header", "caller", or "none": no reservation is required
  job,       \* where the job is
  claimer,   \* the detached claim-by-caller task
  place,     \* who holds the Lease
  id,        \* Lease::reservation is Some
  granted,   \* the service granted the claim
  hb,        \* the heartbeat task; "polled": the stop flag was just read
  stopped,   \* stop was sent and the heartbeat task aborted
  phase,     \* where release() is
  hand,      \* hand[h]: a handoff task
  closed,    \* the room was closed
  issued,    \* history: a Lease with an id was made
  rel,       \* history: release requests sent
  beats,     \* history: heartbeats sent
  late,      \* history: heartbeats sent after a release request
  joined     \* history: the release was sent by release(), not by Drop

lease == <<place, id, hb, stopped, phase, rel, joined>>
leaseVars == <<path, job, claimer, lease, granted, hand, closed, issued, beats, late>>

Slots == {"none", "claim", "task", "sent", "setup", "mutex", "handoff",
          "final", "gone"}
JobSteps == {"start", "claim", "setup", "call", "drain", "close", "release", "gone"}

LeaseInit ==
  /\ path \in {"header", "caller", "none"}
  /\ job = "start" /\ claimer = "none"
  /\ place = "none" /\ id = FALSE /\ granted = FALSE
  /\ hb = "none" /\ stopped = FALSE /\ phase = "none"
  /\ hand = [h \in Handoffs |-> "idle"]
  /\ closed = FALSE /\ issued = FALSE
  /\ rel = 0 /\ beats = 0 /\ late = 0 /\ joined = FALSE

-----------------------------------------------------------------------------
(* The Lease                                                               *)

SendRelease == rel' = (IF id THEN rel + 1 ELSE rel) /\ id' = FALSE

DropLeaseBeating ==
  /\ place' = "gone" /\ phase' = "none"
  /\ SendRelease
  /\ UNCHANGED <<hb, stopped, joined>>

\* Drop for Lease: stop and abort the heartbeat, take the id, spawn the
\* release; the heartbeat task is not waited for.
DropLease ==
  /\ place' = "gone" /\ stopped' = TRUE /\ phase' = "none"
  /\ SendRelease
  /\ UNCHANGED <<hb, joined>>

\* release() up to its first await.
Releasing(holder) ==
  /\ place' = holder /\ stopped' = TRUE /\ phase' = "join"
  /\ UNCHANGED <<id, hb, rel, joined>>

JoinedEarly ==
  /\ phase = "join"
  /\ SendRelease
  /\ phase' = "post" /\ joined' = TRUE
  /\ UNCHANGED <<path, job, claimer, place, hb, stopped, granted, hand, closed,
                 issued, beats, late>>

\* release() after the heartbeat task was awaited: the id is taken and the
\* request is spawned before it is awaited.
Joined ==
  /\ phase = "join" /\ hb = "none"
  /\ SendRelease
  /\ phase' = "post" /\ joined' = TRUE
  /\ UNCHANGED <<path, job, claimer, place, hb, stopped, granted, hand, closed,
                 issued, beats, late>>

\* owned and start_heartbeat.
Beating == hb' = "wait" /\ UNCHANGED <<stopped, phase, rel, joined>>

-----------------------------------------------------------------------------
(* The heartbeat task                                                      *)

\* The interval elapsed and the biased select saw no stop.
HbWakes ==
  /\ hb = "wait" /\ ~stopped /\ beats < MaxBeats /\ hb' = "polled"
  /\ UNCHANGED <<path, job, claimer, place, id, stopped, phase, rel, joined,
                 granted, hand, closed, issued, beats, late>>

\* The same poll starts the request; an abort can only take it afterwards.
HbSends ==
  /\ hb = "polled" /\ hb' = "post" /\ beats' = beats + 1
  /\ late' = IF rel > 0 THEN late + 1 ELSE late
  /\ UNCHANGED <<path, job, claimer, place, id, stopped, phase, rel, joined,
                 granted, hand, closed, issued>>

\* A heartbeat's failure is only traced.
HbAnswered ==
  /\ hb = "post" /\ ~stopped /\ hb' = "wait"
  /\ UNCHANGED <<path, job, claimer, place, id, stopped, phase, rel, joined,
                 granted, hand, closed, issued, beats, late>>

HbStops ==
  /\ hb \in {"wait", "post"} /\ stopped /\ hb' = "none"
  /\ UNCHANGED <<path, job, claimer, place, id, stopped, phase, rel, joined,
                 granted, hand, closed, issued, beats, late>>

-----------------------------------------------------------------------------
(* Claiming                                                                *)

\* Lease::claim up to its request: the Lease exists before the claim by
\* header is sent; the claim by caller runs in a task of its own.
Claim ==
  /\ job = "start"
  /\ \/ /\ path = "none" /\ job' = "setup"
        /\ UNCHANGED <<claimer, place, id, issued>>
     \/ /\ path = "header" /\ job' = "claim"
        /\ place' = "claim" /\ id' = TRUE /\ issued' = TRUE
        /\ UNCHANGED claimer
     \/ /\ path = "caller" /\ job' = "claim" /\ claimer' = "post"
        /\ UNCHANGED <<place, id, issued>>
  /\ UNCHANGED <<path, hb, stopped, phase, rel, joined, granted, hand, closed,
                 beats, late>>

\* An unverified scope, or a header or caller number that cannot be used.
ClaimInvalid ==
  /\ job = "start" /\ path # "none" /\ job' = "gone"
  /\ UNCHANGED <<path, claimer, lease, granted, hand, closed, issued, beats, late>>

HeaderGranted ==
  /\ job = "claim" /\ place = "claim"
  /\ job' = "setup" /\ place' = "setup" /\ granted' = TRUE /\ Beating
  /\ UNCHANGED <<path, claimer, id, hand, closed, issued, beats, late>>

\* Refused, failed or timed out: the claim returns and its Lease is dropped.
HeaderRefused ==
  /\ job = "claim" /\ place = "claim" /\ job' = "gone" /\ DropLease
  /\ UNCHANGED <<path, claimer, granted, hand, closed, issued, beats, late>>

CallerGranted ==
  /\ claimer = "post" /\ claimer' = "owns"
  /\ place' = "task" /\ id' = TRUE /\ issued' = TRUE /\ granted' = TRUE
  /\ Beating
  /\ UNCHANGED <<path, job, hand, closed, beats, late>>

CallerRefused ==
  /\ claimer = "post" /\ claimer' = "none"
  /\ job' = IF job = "claim" THEN "gone" ELSE job
  /\ UNCHANGED <<path, lease, granted, hand, closed, issued, beats, late>>

CallerSendsLeaking ==
  /\ claimer = "owns" /\ claimer' = "none"
  /\ IF job = "claim"
     THEN place' = "sent" /\ UNCHANGED <<id, hb, stopped, phase, rel, joined>>
     ELSE place' = "gone" /\ UNCHANGED <<id, hb, stopped, phase, rel, joined>>
  /\ UNCHANGED <<path, job, granted, hand, closed, issued, beats, late>>

\* The result goes to the owner, or is dropped when the owner has left.
CallerSends ==
  /\ claimer = "owns" /\ claimer' = "none"
  /\ IF job = "claim"
     THEN place' = "sent" /\ UNCHANGED <<id, hb, stopped, phase, rel, joined>>
     ELSE DropLease
  /\ UNCHANGED <<path, job, granted, hand, closed, issued, beats, late>>

OwnerTakes ==
  /\ job = "claim" /\ place = "sent"
  /\ job' = "setup" /\ place' = "setup"
  /\ UNCHANGED <<path, claimer, id, hb, stopped, phase, rel, joined, granted,
                 hand, closed, issued, beats, late>>

-----------------------------------------------------------------------------
(* The job                                                                 *)

\* Cancelled before the call runs, or a later step of the setup failed: the
\* Lease goes with the future that holds it, but not the detached claim.
SetupEnds ==
  /\ job \in {"claim", "setup"} /\ job' = "gone"
  /\ IF place \in {"claim", "sent", "setup"} THEN DropLease ELSE UNCHANGED lease
  /\ UNCHANGED <<path, claimer, granted, hand, closed, issued, beats, late>>

CallStarts ==
  /\ job = "setup" /\ job' = "call"
  /\ place' = IF place = "setup" THEN "mutex" ELSE place
  /\ UNCHANGED <<path, claimer, id, hb, stopped, phase, rel, joined, granted,
                 hand, closed, issued, beats, late>>

\* A person took over the call: a control task will give the slot back.
Handoff(h) ==
  /\ job = "call" /\ hand[h] = "idle" /\ hand' = [hand EXCEPT ![h] = "run"]
  /\ UNCHANGED <<path, job, claimer, lease, granted, closed, issued, beats, late>>

HandoffTakes(h) ==
  /\ hand[h] = "run"
  /\ IF place = "mutex"
     THEN hand' = [hand EXCEPT ![h] = "release"] /\ Releasing("handoff")
     ELSE hand' = [hand EXCEPT ![h] = "done"] /\ UNCHANGED lease
  /\ UNCHANGED <<path, job, claimer, granted, closed, issued, beats, late>>

\* The release was answered, or timed out: it is not tried again.
HandoffReleased(h) ==
  /\ hand[h] = "release" /\ phase = "post"
  /\ hand' = [hand EXCEPT ![h] = "done"] /\ DropLease
  /\ UNCHANGED <<path, job, claimer, granted, closed, issued, beats, late>>

\* The caller left, the room or the actor closed, or the worker cancels.
CallEnds ==
  /\ job = "call" /\ job' = "drain"
  /\ UNCHANGED <<path, claimer, lease, granted, hand, closed, issued, beats, late>>

Drained ==
  /\ job = "drain" /\ \A h \in Handoffs : hand[h] \in {"idle", "done"}
  /\ job' = "close"
  /\ UNCHANGED <<path, claimer, lease, granted, hand, closed, issued, beats, late>>

\* After twelve seconds the control tasks are aborted where they wait.
DrainTimeout ==
  /\ job = "drain" /\ \E h \in Handoffs : hand[h] \in {"run", "release"}
  /\ job' = "close"
  /\ hand' = [h \in Handoffs |-> IF hand[h] = "idle" THEN "idle" ELSE "done"]
  /\ IF place = "handoff" THEN DropLease ELSE UNCHANGED lease
  /\ UNCHANGED <<path, claimer, granted, closed, issued, beats, late>>

RoomCloses ==
  /\ job = "close" /\ job' = "release" /\ closed' = TRUE
  /\ UNCHANGED <<path, claimer, lease, granted, hand, issued, beats, late>>

FinalTakesEarly ==
  /\ job \in {"close", "release"} /\ place # "final"
  /\ IF place = "mutex" THEN job' = job /\ Releasing("final")
     ELSE job' = "gone" /\ UNCHANGED lease
  /\ UNCHANGED <<path, claimer, granted, hand, closed, issued, beats, late>>

\* The last use of the mutex: whoever took the Lease before released it.
FinalTakes ==
  /\ job = "release" /\ place # "final"
  /\ IF place = "mutex" THEN job' = job /\ Releasing("final")
     ELSE job' = "gone" /\ UNCHANGED lease
  /\ UNCHANGED <<path, claimer, granted, hand, closed, issued, beats, late>>

FinalReleased ==
  /\ job = "release" /\ place = "final" /\ phase = "post"
  /\ job' = "gone" /\ DropLease
  /\ UNCHANGED <<path, claimer, granted, hand, closed, issued, beats, late>>

-----------------------------------------------------------------------------
Heartbeat == HbWakes \/ HbSends \/ HbAnswered \/ HbStops

Claiming ==
  \/ Claim \/ ClaimInvalid \/ HeaderGranted \/ HeaderRefused
  \/ CallerGranted \/ CallerRefused \/ CallerSends \/ OwnerTakes

Handing ==
  \E h \in Handoffs : Handoff(h) \/ HandoffTakes(h) \/ HandoffReleased(h)

Job ==
  \/ SetupEnds \/ CallStarts \/ CallEnds \/ Drained \/ DrainTimeout
  \/ RoomCloses \/ FinalTakes \/ FinalReleased

LeaseNext == Joined \/ Heartbeat \/ Claiming \/ Handing \/ Job

LeaseSpec == LeaseInit /\ [][LeaseNext]_leaseVars

(***************************************************************************)
(* Requests are under timeouts, tasks that can run do, and the awaits that *)
(* end a call are bounded.  Nothing makes a call start or end.             *)
(***************************************************************************)
ClaimAnswered == CallerGranted \/ CallerRefused \/ CallerSends

LeaseFairSpec ==
  /\ LeaseSpec /\ WF_leaseVars(Joined) /\ WF_leaseVars(HbSends) /\ WF_leaseVars(HbStops)
  /\ WF_leaseVars(ClaimAnswered) /\ WF_leaseVars(Drained \/ DrainTimeout)
  /\ WF_leaseVars(RoomCloses) /\ WF_leaseVars(FinalTakes) /\ WF_leaseVars(FinalReleased)

-----------------------------------------------------------------------------
(* Properties                                                              *)

\* Every variable keeps its type.
LeaseTypeOK ==
  /\ path \in {"header", "caller", "none"} /\ job \in JobSteps
  /\ claimer \in {"none", "post", "owns"} /\ place \in Slots
  /\ id \in BOOLEAN /\ granted \in BOOLEAN
  /\ hb \in {"none", "wait", "polled", "post"} /\ stopped \in BOOLEAN
  /\ phase \in {"none", "join", "post"}
  /\ hand \in [Handoffs -> {"idle", "run", "release", "done"}]
  /\ closed \in BOOLEAN /\ issued \in BOOLEAN
  /\ rel \in Nat /\ beats \in Nat /\ late \in Nat /\ joined \in BOOLEAN

\* A reservation is never lost and never released twice: its id is held by a
\* live Lease until the one release request is sent (release and Drop).
ReleasedOnce ==
  /\ issued /\ ~id => rel = 1
  /\ ~issued \/ id => rel = 0
  /\ id => place \notin {"none", "gone"}

\* A running call keeps its granted reservation alive: until a handoff takes
\* the Lease, the heartbeat task runs and was not told to stop.
KeptAlive ==
  job = "call" /\ path # "none" /\ place # "gone" /\ place # "handoff" =>
    place = "mutex" /\ granted /\ id /\ hb # "none" /\ ~stopped

\* release() sends no heartbeat after its release request; a dropped Lease
\* may have one in the poll that was already running.
LateBeats == late <= 1 /\ (joined => late = 0)

\* The heartbeat follows the lease: it lives as long as the call holds the
\* reservation and ends with it.
BeatsWithLease == KeptAlive /\ LateBeats

\* The slot is given back only after the room was closed, unless a person
\* took over or the call never started (the comment at rvc_worker.rs:362).
FreedAfterCleanup ==
  [][rel' > rel /\ job \in {"call", "drain", "close", "release"} =>
       closed \/ place = "handoff"]_leaseVars

\* Where a Lease can be, and what it is like there.
Held ==
  /\ path = "none" => place = "none" /\ claimer = "none"
  /\ place = "none" => ~id /\ ~stopped /\ phase = "none"
  /\ place = "claim" => job = "claim" /\ id /\ ~stopped /\ phase = "none"
  /\ place \in {"task", "sent", "setup", "mutex"} =>
       granted /\ id /\ hb # "none" /\ ~stopped /\ phase = "none"
  /\ place \in {"handoff", "final"} => stopped /\ phase \in {"join", "post"}
  /\ place = "gone" => stopped /\ phase = "none"
  /\ phase = "join" => id
  /\ phase = "post" => ~id

\* Which holder goes with which place of the job and of the claim.
Placed ==
  /\ job = "start" => place = "none" /\ claimer = "none"
  /\ job = "claim" => path # "none" /\ place \in {"none", "claim", "task", "sent"}
  /\ job = "setup" => place = "setup" \/ path = "none"
  /\ job \in {"call", "drain", "close", "release"} /\ path # "none" =>
       place \in {"mutex", "handoff", "final", "gone"}
  /\ claimer = "post" => place = "none" /\ job \in {"claim", "gone"}
  /\ claimer = "owns" <=> place = "task"
  /\ place = "task" => job \in {"claim", "gone"}
  /\ place = "final" => job = "release" /\ closed
  /\ job = "release" => closed
  /\ \A h \in Handoffs : hand[h] = "release" => place = "handoff"
  /\ \A g, h \in Handoffs : hand[g] = "release" /\ hand[h] = "release" => g = h

\* What has been sent so far.
Counted ==
  /\ issued => place # "none"
  /\ place # "none" => issued
  /\ rel > 0 => stopped
  /\ late > 0 => rel > 0 /\ hb # "polled"
  /\ joined => late = 0 /\ hb = "none" /\ place \in {"handoff", "final", "gone"}

\* The inductive invariant behind ReleasedOnce, KeptAlive and LateBeats.
LeaseInv == LeaseTypeOK /\ ReleasedOnce /\ Held /\ Placed /\ Counted /\ LateBeats

\* Once the call has ended the job returns, and whatever way it ended, in the
\* end nothing of its reservation is left.
Quiesces ==
  /\ job = "drain" ~> job = "gone"
  /\ job = "gone" ~> ~id /\ hb = "none" /\ claimer = "none"
=============================================================================
