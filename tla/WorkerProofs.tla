---------------------------- MODULE WorkerProofs ----------------------------
(***************************************************************************)
(* Proofs about what runs in the worker process: Worker for every set of   *)
(* jobs, every capacity, cache size and number of reconnects, and          *)
(* CapacityLease, the reservation one of its jobs holds, for any number of *)
(* handoffs and heartbeats: LeaseInv is inductive and the properties       *)
(* follow from it.                                                         *)
(***************************************************************************)
EXTENDS Worker, CapacityLease, TLAPS, FiniteSetTheorems, SequenceTheorems, WellFoundedInduction

\* The invariant without its bound on the number of slots.
Owned ==
  /\ slot \in [Jobs -> {"free", "reserved", "expired", "running"}]
  /\ task \in [Jobs -> {"none", "running", "cancelled", "done"}]
  /\ SlotOwnsTask /\ ReservationEpoch
  /\ draining => \A j \in Jobs : slot[j] \in {"free", "running"}
  /\ deadline # "none" => draining
  /\ mode = "online" /\ shutting => draining

\* A handler that sends keeps its slots, or the disconnect keeps the running
\* ones and the loop goes back to connecting.
LEMMA AfterSend ==
  ASSUME NEW ok, NEW s, Sending(ok, s)
  PROVE  \/ slot' = s /\ mode' = mode
         \/ slot' = OnlyRunning(s) /\ mode' = "top"
  BY DEF Sending, Disconnect

\* No slot changes by sending but to become free.
LEMMA SendKeeps ==
  ASSUME NEW ok, NEW s, Sending(ok, s),
         s \in [Jobs -> {"free", "reserved", "expired", "running"}]
  PROVE  \A i \in Jobs : slot'[i] \in {s[i], "free"}
<1>1. CASE slot' = s
  BY <1>1
<1>2. CASE slot' = OnlyRunning(s)
  BY <1>2 DEF OnlyRunning
<1> QED BY <1>1, <1>2, AfterSend

\* Init establishes it.
LEMMA OwnedInit == Init => Owned
  BY DEF Init, Owned, SlotOwnsTask, ReservationEpoch

\* Every action keeps it.
LEMMA OwnedNext == Owned /\ [Next]_vars => Owned'
<1> SUFFICES ASSUME Owned, [Next]_vars PROVE Owned'
  OBVIOUS
<1> USE DEF Owned, SlotOwnsTask, ReservationEpoch, OnlineUnchanged, history
<1>1. ASSUME NEW j \in Jobs, NEW a \in BOOLEAN, NEW b \in BOOLEAN,
             Availability(j, a, b)
      PROVE  Owned'
  <2>1. CASE OfferOk(j, a)
    <3>1. Sending(b, [slot EXCEPT ![j] = "reserved"])
      BY <1>1, <2>1 DEF Availability
    <3>2. CASE slot' = [slot EXCEPT ![j] = "reserved"] /\ mode' = mode
      BY <1>1, <2>1, <3>2 DEF Availability, OfferOk, Active
    <3>3. CASE slot' = OnlyRunning([slot EXCEPT ![j] = "reserved"]) /\ mode' = "top"
      BY <1>1, <2>1, <3>3 DEF Availability, OfferOk, Active, OnlyRunning
    <3> QED BY <3>1, <3>2, <3>3, AfterSend
  <2>2. CASE ~OfferOk(j, a)
    <3>1. Sending(b, slot)
      BY <1>1, <2>2 DEF Availability
    <3>2. CASE slot' = slot /\ mode' = mode
      BY <1>1, <2>2, <3>2 DEF Availability
    <3>3. CASE slot' = OnlyRunning(slot) /\ mode' = "top"
      BY <1>1, <2>2, <3>3 DEF Availability, OnlyRunning
    <3> QED BY <3>1, <3>2, <3>3, AfterSend
  <2> QED BY <2>1, <2>2
<1>2. ASSUME NEW j \in Jobs, NEW a \in BOOLEAN, NEW b \in BOOLEAN,
             Assignment(j, a, b)
      PROVE  Owned'
  <2>1. CASE AssignmentOk(j, a)
    <3>1. Sending(b, [slot EXCEPT ![j] = "running"])
      BY <1>2, <2>1 DEF Assignment
    <3>2. CASE slot' = [slot EXCEPT ![j] = "running"] /\ mode' = mode
      BY <1>2, <2>1, <3>2 DEF Assignment, AssignmentOk
    <3>3. CASE slot' = OnlyRunning([slot EXCEPT ![j] = "running"]) /\ mode' = "top"
      BY <1>2, <2>1, <3>3 DEF Assignment, AssignmentOk, OnlyRunning
    <3> QED BY <3>1, <3>2, <3>3, AfterSend
  <2>2. CASE ~AssignmentOk(j, a) /\ slot[j] # "running"
    <3>1. Sending(b, [slot EXCEPT ![j] = "free"])
      BY <1>2, <2>2 DEF Assignment
    <3>2. CASE slot' = [slot EXCEPT ![j] = "free"] /\ mode' = mode
      BY <1>2, <2>2, <3>2 DEF Assignment
    <3>3. CASE slot' = OnlyRunning([slot EXCEPT ![j] = "free"]) /\ mode' = "top"
      BY <1>2, <2>2, <3>3 DEF Assignment, OnlyRunning
    <3> QED BY <3>1, <3>2, <3>3, AfterSend
  <2>3. CASE ~AssignmentOk(j, a) /\ slot[j] = "running"
    BY <1>2, <2>3 DEF Assignment
  <2> QED BY <2>1, <2>2, <2>3
<1>3. ASSUME NEW j \in Jobs, Termination(j) PROVE Owned'
  BY <1>3 DEF Termination
<1>4. CASE Disconnected
  BY <1>4 DEF Disconnected, Disconnect, OnlyRunning
<1>5. CASE OnlineStop
  BY <1>5 DEF OnlineStop, OnlyRunning
<1>6. ASSUME NEW j \in Jobs, NEW a \in BOOLEAN, NEW b \in BOOLEAN,
             OnlineDone(j, a, b)
      PROVE  Owned'
  BY <1>6 DEF OnlineDone, Disconnect, OnlyRunning
<1>7. ASSUME NEW ok \in BOOLEAN, Tick(ok) PROVE Owned'
  <2>1. CASE shutting /\ Tasks = {}
    BY <1>7, <2>1 DEF Tick, Expired
  <2>2. CASE ~(shutting /\ Tasks = {})
    <3>1. Sending(ok, Expired(slot))
      BY <1>7, <2>2 DEF Tick
    <3>2. CASE slot' = Expired(slot) /\ mode' = mode
      BY <1>7, <2>2, <3>2 DEF Tick, Expired, CancelAll
    <3>3. CASE slot' = OnlyRunning(Expired(slot)) /\ mode' = "top"
      <4>1. slot' = OnlyRunning(slot)
        BY <3>3 DEF OnlyRunning, Expired
      <4>2. task' \in {task, CancelAll(task)}
        BY <1>7, <2>2 DEF Tick
      <4>3. /\ task' \in [Jobs -> {"none", "running", "cancelled", "done"}]
            /\ \A i \in Jobs : task'[i] = "none" <=> task[i] = "none"
        BY <4>2 DEF CancelAll
      <4>4. /\ slot' \in [Jobs -> {"free", "reserved", "expired", "running"}]
            /\ \A i \in Jobs : /\ slot'[i] \in {"free", "running"}
                               /\ slot'[i] = "running" <=> slot[i] = "running"
        BY <4>1 DEF OnlyRunning
      <4>5. deadline' # "none" => draining'
        BY <1>7, <2>2 DEF Tick
      <4> QED BY <3>3, <4>3, <4>4, <4>5
    <3> QED BY <3>1, <3>2, <3>3, AfterSend
  <2> QED BY <2>1, <2>2
<1>8. CASE TopStop
  BY <1>8 DEF TopStop, OnlyRunning
<1>9. ASSUME NEW j \in Jobs, TopJoin(j) PROVE Owned'
  BY <1>9 DEF TopJoin
<1>10. ASSUME NEW ok \in BOOLEAN, NEW n \in 0..Len(reports), Connects(ok, n)
       PROVE  Owned'
  BY <1>10 DEF Connects
<1>11. CASE ConnectFails
  BY <1>11 DEF ConnectFails, OnlyRunning
<1>12. CASE FinishCancel
  BY <1>12 DEF FinishCancel, CancelAll
<1>13. ASSUME NEW j \in Jobs, FinishJoin(j) PROVE Owned'
  BY <1>13 DEF FinishJoin
<1>14. CASE FinishReturns
  BY <1>14 DEF FinishReturns
<1>15. ASSUME NEW j \in Jobs, JobEnds(j) PROVE Owned'
  BY <1>15 DEF JobEnds
<1>16. ASSUME NEW j \in Jobs, ReservationExpires(j) PROVE Owned'
  BY <1>16 DEF ReservationExpires
<1>17. CASE DeadlinePasses \/ Stop
  BY <1>17 DEF DeadlinePasses, Stop
<1>18. CASE UNCHANGED vars
  BY <1>18 DEF vars
<1> QED
  BY <1>1, <1>2, <1>3, <1>4, <1>5, <1>6, <1>7, <1>8, <1>9, <1>10, <1>11, <1>12,
     <1>13, <1>14, <1>15, <1>16, <1>17, <1>18
  DEF Next, Server, Loop, Ticking, Connecting

\* Slots that did not grow stay within the capacity.
LEMMA NoGrowth ==
  ASSUME Cardinality(Active) <= MaxJobs, Active' \subseteq Active
  PROVE  Cardinality(Active') <= MaxJobs
<1>1. IsFiniteSet(Active) /\ IsFiniteSet(Active')
  BY FS_Subset, WorkerAssumption DEF Active
<1>2. Cardinality(Active') <= Cardinality(Active)
  BY <1>1, FS_Subset
<1> QED BY <1>1, <1>2, FS_CardinalityType, WorkerAssumption

\* Only an accepted offer takes a slot, and only a free one below capacity.
LEMMA SlotsGrow ==
  ASSUME Owned, [Next]_vars
  PROVE  \/ Active' \subseteq Active
         \/ /\ Cardinality(Active) < MaxJobs
            /\ \E j \in Jobs : Active' \subseteq Active \cup {j}
<1> USE DEF Owned, Active, OnlyRunning, Expired
<1>1. ASSUME NEW j \in Jobs, NEW a \in BOOLEAN, NEW b \in BOOLEAN,
             Availability(j, a, b)
      PROVE  \/ Active' \subseteq Active
             \/ Cardinality(Active) < MaxJobs /\ Active' \subseteq Active \cup {j}
  <2>1. CASE OfferOk(j, a)
    <3>1. Sending(b, [slot EXCEPT ![j] = "reserved"])
      BY <1>1, <2>1 DEF Availability
    <3>2. [slot EXCEPT ![j] = "reserved"] \in [Jobs -> {"free", "reserved", "expired", "running"}]
      OBVIOUS
    <3>3. \A i \in Jobs : slot'[i] \in {[slot EXCEPT ![j] = "reserved"][i], "free"}
      BY <3>1, <3>2, SendKeeps
    <3>4. \A i \in Jobs : slot'[i] # "free" => slot[i] # "free" \/ i = j
      BY <3>1, <3>3
    <3>5. Active' \subseteq Active \cup {j}
      BY <3>4
    <3> QED BY <2>1, <3>5 DEF OfferOk
  <2>2. CASE ~OfferOk(j, a)
    <3>1. Sending(b, slot)
      BY <1>1, <2>2 DEF Availability
    <3> QED BY <3>1, AfterSend
  <2> QED BY <2>1, <2>2
<1>2. ASSUME NEW j \in Jobs, NEW a \in BOOLEAN, NEW b \in BOOLEAN,
             Assignment(j, a, b)
      PROVE  Active' \subseteq Active
  <2>1. CASE AssignmentOk(j, a)
    <3>1. Sending(b, [slot EXCEPT ![j] = "running"]) /\ slot[j] = "reserved"
      BY <1>2, <2>1 DEF Assignment, AssignmentOk
    <3>2. [slot EXCEPT ![j] = "running"] \in [Jobs -> {"free", "reserved", "expired", "running"}]
      OBVIOUS
    <3>3. \A i \in Jobs : slot'[i] \in {[slot EXCEPT ![j] = "running"][i], "free"}
      BY <3>1, <3>2, SendKeeps
    <3>4. \A i \in Jobs : slot'[i] # "free" => slot[i] # "free"
      BY <3>1, <3>3
    <3> QED BY <3>4
  <2>2. CASE ~AssignmentOk(j, a) /\ slot[j] # "running"
    <3>1. Sending(b, [slot EXCEPT ![j] = "free"])
      BY <1>2, <2>2 DEF Assignment
    <3>2. [slot EXCEPT ![j] = "free"] \in [Jobs -> {"free", "reserved", "expired", "running"}]
      OBVIOUS
    <3>3. \A i \in Jobs : slot'[i] \in {[slot EXCEPT ![j] = "free"][i], "free"}
      BY <3>1, <3>2, SendKeeps
    <3>4. \A i \in Jobs : slot'[i] # "free" => slot[i] # "free"
      BY <3>1, <3>3
    <3> QED BY <3>4
  <2>3. CASE ~AssignmentOk(j, a) /\ slot[j] = "running"
    BY <1>2, <2>3 DEF Assignment
  <2> QED BY <2>1, <2>2, <2>3
<1>3. ASSUME NEW ok \in BOOLEAN, Tick(ok) PROVE Active' \subseteq Active
  <2>1. CASE shutting /\ Tasks = {}
    BY <1>3, <2>1 DEF Tick
  <2>2. CASE ~(shutting /\ Tasks = {})
    <3>1. Sending(ok, Expired(slot))
      BY <1>3, <2>2 DEF Tick
    <3> QED BY <3>1, AfterSend
  <2> QED BY <2>1, <2>2
<1>4. ASSUME NEW j \in Jobs, NEW a \in BOOLEAN, NEW b \in BOOLEAN,
             OnlineDone(j, a, b)
      PROVE  Active' \subseteq Active
  BY <1>4 DEF OnlineDone, Disconnect
<1>5. ASSUME NEW j \in Jobs,
             \/ Termination(j) \/ TopJoin(j) \/ FinishJoin(j) \/ JobEnds(j)
             \/ ReservationExpires(j)
      PROVE  Active' \subseteq Active
  BY <1>5 DEF Termination, TopJoin, FinishJoin, JobEnds, ReservationExpires
<1>6. CASE Disconnected \/ OnlineStop \/ TopStop \/ ConnectFails
  BY <1>6 DEF Disconnected, Disconnect, OnlineStop, TopStop, ConnectFails
<1>7. CASE FinishCancel \/ FinishReturns \/ DeadlinePasses \/ Stop
           \/ \E ok \in BOOLEAN, n \in 0..Len(reports) : Connects(ok, n)
  BY <1>7 DEF FinishCancel, FinishReturns, DeadlinePasses, Stop, Connects
<1>8. CASE UNCHANGED vars
  BY <1>8 DEF vars
<1> QED
  BY <1>1, <1>2, <1>3, <1>4, <1>5, <1>6, <1>7, <1>8, ZenonT(60)
  DEF Next, Server, Loop, Ticking, Connecting

\* The slots in use never exceed the capacity.
LEMMA BoundNext ==
  ASSUME Owned, Cardinality(Active) <= MaxJobs, [Next]_vars
  PROVE  Cardinality(Active') <= MaxJobs
<1>1. CASE Active' \subseteq Active
  BY <1>1, NoGrowth
<1>2. ASSUME Cardinality(Active) < MaxJobs, NEW j \in Jobs,
             Active' \subseteq Active \cup {j}
      PROVE  Cardinality(Active') <= MaxJobs
  <2>1. IsFiniteSet(Active)
    BY FS_Subset, WorkerAssumption DEF Active
  <2>2. /\ IsFiniteSet(Active \cup {j})
        /\ Cardinality(Active \cup {j}) <= Cardinality(Active) + 1
    <3>1. Cardinality(Active) \in Nat
      BY <2>1, FS_CardinalityType
    <3>2. /\ IsFiniteSet(Active \cup {j})
          /\ Cardinality(Active \cup {j}) =
               IF j \in Active THEN Cardinality(Active) ELSE Cardinality(Active) + 1
      BY <2>1, FS_AddElement, Zenon
    <3> QED BY <3>1, <3>2
  <2>3. /\ IsFiniteSet(Active')
        /\ Cardinality(Active') <= Cardinality(Active \cup {j})
    BY <1>2, <2>2, FS_Subset
  <2> QED BY <1>2, <2>1, <2>2, <2>3, FS_CardinalityType, WorkerAssumption
<1> QED BY <1>1, <1>2, SlotsGrow

\* The inductive invariant holds in every reachable state.
THEOREM Invariance == Spec => []WorkerInv
<1>1. Init => WorkerInv
  <2> SUFFICES ASSUME Init PROVE WorkerInv
    OBVIOUS
  <2>1. Active = {}
    BY DEF Init, Active
  <2>2. Cardinality(Active) <= MaxJobs
    BY <2>1, FS_EmptySet, WorkerAssumption
  <2> QED BY <2>2, OwnedInit DEF WorkerInv, Owned
<1>2. WorkerInv /\ [Next]_vars => WorkerInv'
  <2> SUFFICES ASSUME WorkerInv, [Next]_vars PROVE WorkerInv'
    OBVIOUS
  <2>1. Owned /\ Cardinality(Active) <= MaxJobs
    BY DEF WorkerInv, Owned
  <2>2. Owned' /\ Cardinality(Active') <= MaxJobs
    BY <2>1, OwnedNext, BoundNext
  <2> QED BY <2>2 DEF WorkerInv, Owned
<1> QED BY <1>1, <1>2, PTL DEF Spec

\* A slot is Running exactly while its task is alive.
THEOREM SlotOwnsTaskHolds == Spec => []SlotOwnsTask
<1>1. WorkerInv => SlotOwnsTask
  BY DEF WorkerInv
<1> QED BY Invariance, <1>1, PTL

\* No reservation outlives its control connection.
THEOREM ReservationEpochHolds == Spec => []ReservationEpoch
<1>1. WorkerInv => ReservationEpoch
  BY DEF WorkerInv
<1> QED BY Invariance, <1>1, PTL

\* The calls alive in the process never exceed the configured capacity.
THEOREM CapacityBoundHolds == Spec => []CapacityBound
<1>1. ASSUME WorkerInv PROVE CapacityBound
  <2>1. Tasks \subseteq Active
    BY <1>1 DEF WorkerInv, SlotOwnsTask, Tasks, Active
  <2>2. IsFiniteSet(Active)
    BY FS_Subset, WorkerAssumption DEF Active
  <2>3. IsFiniteSet(Tasks) /\ Cardinality(Tasks) <= Cardinality(Active)
    BY <2>1, <2>2, FS_Subset
  <2> QED BY <1>1, <2>2, <2>3, FS_CardinalityType, WorkerAssumption
          DEF WorkerInv, CapacityBound
<1> QED BY Invariance, <1>1, PTL

\* The slots say what the process does: the table and the live tasks agree, the
\* calls fit in it, and no reservation outlives its control connection.
THEOREM SlotsFaithfulHolds == Spec => []SlotsFaithful
<1>1. CapacityBound /\ SlotOwnsTask /\ ReservationEpoch => SlotsFaithful
  BY DEF SlotsFaithful
<1> QED BY <1>1, CapacityBoundHolds, SlotOwnsTaskHolds, ReservationEpochHolds, PTL

\* A draining worker starts no task and takes no reservation.
THEOREM DrainAdmitsNothingHolds == Spec => DrainAdmitsNothing
<1> DEFINE Closed ==
      draining => starts' = starts
                  /\ \A j \in Jobs : slot'[j] = "reserved" => slot[j] = "reserved"
<1>1. ASSUME WorkerInv, [Next]_vars PROVE [Closed]_vars
  <2> SUFFICES ASSUME draining
               PROVE  starts' = starts
                      /\ \A j \in Jobs : slot'[j] = "reserved" => slot[j] = "reserved"
    OBVIOUS
  <2> USE <1>1 DEF WorkerInv, OnlyRunning, Expired, OnlineUnchanged, history
  <2>1. ASSUME NEW j \in Jobs, NEW a \in BOOLEAN, NEW b \in BOOLEAN,
               Availability(j, a, b)
        PROVE  starts' = starts
               /\ \A i \in Jobs : slot'[i] = "reserved" => slot[i] = "reserved"
    <3>1. Sending(b, slot) /\ starts' = starts
      BY <2>1 DEF Availability, OfferOk
    <3> QED BY <3>1, AfterSend
  <2>2. ASSUME NEW j \in Jobs, NEW a \in BOOLEAN, NEW b \in BOOLEAN,
               Assignment(j, a, b)
        PROVE  starts' = starts
               /\ \A i \in Jobs : slot'[i] = "reserved" => slot[i] = "reserved"
    <3>1. CASE slot[j] # "running"
      <4>1. Sending(b, [slot EXCEPT ![j] = "free"]) /\ starts' = starts
        BY <2>2, <3>1 DEF Assignment, AssignmentOk
      <4> QED BY <4>1, AfterSend
    <3>2. CASE slot[j] = "running"
      BY <2>2, <3>2 DEF Assignment, AssignmentOk
    <3> QED BY <3>1, <3>2
  <2>3. ASSUME NEW ok \in BOOLEAN, Tick(ok)
        PROVE  starts' = starts
               /\ \A i \in Jobs : slot'[i] = "reserved" => slot[i] = "reserved"
    <3>1. CASE shutting /\ Tasks = {}
      BY <2>3, <3>1 DEF Tick
    <3>2. CASE ~(shutting /\ Tasks = {})
      <4>1. Sending(ok, Expired(slot)) /\ starts' = starts
        BY <2>3, <3>2 DEF Tick
      <4> QED BY <4>1, AfterSend
    <3> QED BY <3>1, <3>2
  <2>4. ASSUME NEW j \in Jobs, NEW a \in BOOLEAN, NEW b \in BOOLEAN,
               OnlineDone(j, a, b)
        PROVE  starts' = starts
               /\ \A i \in Jobs : slot'[i] = "reserved" => slot[i] = "reserved"
    BY <2>4 DEF OnlineDone, Disconnect
  <2>5. ASSUME NEW j \in Jobs,
               \/ Termination(j) \/ TopJoin(j) \/ FinishJoin(j) \/ JobEnds(j)
               \/ ReservationExpires(j)
        PROVE  starts' = starts
               /\ \A i \in Jobs : slot'[i] = "reserved" => slot[i] = "reserved"
    BY <2>5 DEF Termination, TopJoin, FinishJoin, JobEnds, ReservationExpires
  <2>6. CASE Disconnected \/ OnlineStop \/ TopStop \/ ConnectFails
    BY <2>6 DEF Disconnected, Disconnect, OnlineStop, TopStop, ConnectFails
  <2>7. CASE FinishCancel \/ FinishReturns \/ DeadlinePasses \/ Stop
             \/ \E ok \in BOOLEAN, n \in 0..Len(reports) : Connects(ok, n)
    BY <2>7 DEF FinishCancel, FinishReturns, DeadlinePasses, Stop, Connects
  <2>8. CASE UNCHANGED vars
    BY <2>8 DEF vars
  <2> QED
    BY <2>1, <2>2, <2>3, <2>4, <2>5, <2>6, <2>7, <2>8
    DEF Next, Server, Loop, Ticking, Connecting
<1> QED BY Invariance, <1>1, PTL DEF Spec, DrainAdmitsNothing
-----------------------------------------------------------------------------
(* What SeenJobs remembers                                                 *)

\* A nonempty set of naturals has a smallest member.
LEMMA Least ==
  ASSUME NEW S, S \subseteq Nat, S # {}
  PROVE  \E k \in S : \A i \in S : k <= i
<1> DEFINE R == OpToRel(<, Nat)
<1>1. \A x, y \in Nat : x < y => <<x, y>> \in R
  BY DEF OpToRel
<1>2. IsWellFoundedOn(R, Nat)
  BY NatLessThanWellFounded, Zenon
<1> HIDE DEF R
<1>3. PICK k \in S : \A i \in S : ~(<<i, k>> \in R)
  BY <1>2, WFMin
<1>4. \A i \in S : ~(i < k)
  BY <1>1, <1>3
<1>5. \A i \in S : k <= i
  BY <1>4
<1> QED BY <1>5

\* A cache without repetitions that is longer than the active ids holds one
\* that is not active.
LEMMA SomeInactive ==
  ASSUME NEW o \in Seq(Jobs), NEW active \in SUBSET Jobs,
         \A h, i \in 1..Len(o) : o[h] = o[i] => h = i,
         Cardinality(active) < Len(o)
  PROVE  \E i \in 1..Len(o) : o[i] \notin active
<1> SUFFICES ASSUME \A i \in 1..Len(o) : o[i] \in active
             PROVE  FALSE
  OBVIOUS
<1>1. IsFiniteSet(active)
  BY FS_Subset, WorkerAssumption
<1>2. Len(o) \in Nat /\ o \in [1..Len(o) -> active]
  OBVIOUS
<1>3. IsFiniteSet(1..Len(o)) /\ Cardinality(1..Len(o)) = Len(o)
  <2>1. /\ IsFiniteSet(1..Len(o))
        /\ Cardinality(1..Len(o)) = IF 1 > Len(o) THEN 0 ELSE Len(o) - 1 + 1
    BY <1>2, FS_Interval
  <2> QED BY <1>2, <2>1
<1>4. \E h, i \in 1..Len(o) : h # i /\ o[h] = o[i]
  BY <1>1, <1>2, <1>3, FS_PigeonHole
<1> QED BY <1>4

\* SeenJobs::remember keeps the id it adds, every active id and its own bound;
\* below the bound it forgets nothing.
LEMMA RememberKeeps ==
  ASSUME NEW o \in Seq(Jobs), NEW j \in Jobs, NEW active \in SUBSET Jobs,
         \A h, i \in 1..Len(o) : o[h] = o[i] => h = i,
         j \notin Range(o), active \subseteq Range(o),
         Len(o) <= SeenCap, Cardinality(active) < MaxJobs
  PROVE  LET r == Remember(o, j, active)
         IN  /\ r \in Seq(Jobs) /\ Len(r) <= SeenCap /\ Len(r) <= Len(o) + 1
             /\ \A h, i \in 1..Len(r) : r[h] = r[i] => h = i
             /\ active \cup {j} \subseteq Range(r)
             /\ Len(o) < SeenCap => Range(o) \subseteq Range(r)
<1> DEFINE all == Append(o, j)
           n == Len(o)
<1>1. /\ all \in Seq(Jobs) /\ n \in Nat /\ Len(all) = n + 1 /\ all[n + 1] = j
      /\ \A i \in 1..n : all[i] = o[i]
  OBVIOUS
<1>2. \A i \in 1..n : o[i] # j
  BY DEF Range
<1>3. \A h, i \in 1..(n + 1) : all[h] = all[i] => h = i
  <2>1. \A h \in 1..(n + 1) : h \in 1..n \/ h = n + 1
    BY <1>1
  <2> QED BY <1>1, <1>2, <2>1
<1>4. active \cup {j} \subseteq Range(all) /\ Range(o) \subseteq Range(all)
  <2>1. \A x \in Range(o) : \E i \in 1..n : x = o[i]
    BY DEF Range
  <2>2. \A i \in 1..(n + 1) : all[i] \in Range(all)
    BY <1>1 DEF Range
  <2>3. \A i \in 1..n : i \in 1..(n + 1)
    BY <1>1
  <2>4. n + 1 \in 1..(n + 1)
    BY <1>1
  <2> QED BY <1>1, <2>1, <2>2, <2>3, <2>4
<1> HIDE DEF all
<1>5. CASE n + 1 <= SeenCap
  <2>1. Remember(o, j, active) = all
    BY <1>1, <1>5 DEF Remember, all
  <2> QED BY <1>1, <1>3, <1>4, <1>5, <2>1
<1>6. CASE ~(n + 1 <= SeenCap)
  <2>0. n = SeenCap /\ SeenCap \in Nat /\ MaxJobs \in Nat /\ MaxJobs < SeenCap
    BY <1>1, <1>6, WorkerAssumption
  <2>1. Cardinality(active) \in Nat
    BY FS_Subset, FS_CardinalityType, WorkerAssumption
  <2>2. PICK m \in 1..n : all[m] \notin active
    BY <1>1, <2>0, <2>1, SomeInactive
  <2> DEFINE S == {i \in 1..(n + 1) : all[i] \notin active}
  <2>3. \E k \in S : \A i \in S : k <= i
    <3>1. S \subseteq Nat /\ m \in S
      BY <1>1, <2>2
    <3> QED BY <3>1, Least
  <2> DEFINE First(i) == all[i] \notin active /\ \A h \in 1..(i - 1) : all[h] \in active
             k == CHOOSE i \in 1..Len(all) : First(i)
  <2>4. k \in 1..(n + 1) /\ First(k)
    <3>1. PICK i \in S : \A h \in S : i <= h
      BY <2>3
    <3>2. i \in 1..(n + 1) /\ First(i)
      BY <1>1, <3>1
    <3> QED BY <1>1, <3>2
  <2>5. k \in 1..n
    <3>1. k # n + 1
      <4>1. \A i : i = n + 1 => m \in 1..(i - 1)
        BY <1>1, <2>2
      <4>2. \A h \in 1..(k - 1) : all[h] \in active
        BY <2>4
      <4> HIDE DEF k
      <4> QED BY <2>2, <4>1, <4>2
    <3> HIDE DEF k
    <3> QED BY <1>1, <2>4, <3>1
  <2> DEFINE r == SubSeq(all, k + 1, Len(all)) \o SubSeq(all, 1, k - 1)
  <2>6. Remember(o, j, active) = r
    BY <1>1, <1>6 DEF Remember, all
  <2> HIDE DEF k
  <2>7. /\ SubSeq(all, k + 1, Len(all)) \in Seq(Jobs)
        /\ Len(SubSeq(all, k + 1, Len(all))) = n + 1 - k
        /\ \A i \in 1..(n + 1 - k) : SubSeq(all, k + 1, Len(all))[i] = all[k + i]
    BY <1>1, <2>5
  <2>8. /\ SubSeq(all, 1, k - 1) \in Seq(Jobs)
        /\ Len(SubSeq(all, 1, k - 1)) = k - 1
        /\ \A i \in 1..(k - 1) : SubSeq(all, 1, k - 1)[i] = all[i]
    BY <1>1, <2>5
  <2>9. r \in Seq(Jobs) /\ Len(r) = n
    BY <1>1, <2>5, <2>7, <2>8
  <2>10. \A i \in 1..n : r[i] = IF i <= n + 1 - k THEN all[k + i] ELSE all[i - (n + 1 - k)]
    BY <1>1, <2>5, <2>7, <2>8
  <2> HIDE DEF r
  <2>11. \A h, i \in 1..n : r[h] = r[i] => h = i
    <3> SUFFICES ASSUME NEW h \in 1..n, NEW i \in 1..n, r[h] = r[i] PROVE h = i
      OBVIOUS
    <3> DEFINE at(x) == IF x <= n + 1 - k THEN k + x ELSE x - (n + 1 - k)
    <3>1. at(h) \in 1..(n + 1) /\ at(i) \in 1..(n + 1)
      BY <1>1, <2>5
    <3>2. all[at(h)] = all[at(i)]
      BY <2>10
    <3>3. at(h) = at(i)
      BY <1>3, <3>1, <3>2
    <3> QED BY <1>1, <2>5, <3>3
  <2>12. \A x \in Range(all) : x # all[k] => x \in Range(r)
    <3> SUFFICES ASSUME NEW i \in 1..(n + 1), i # k PROVE all[i] \in Range(r)
      BY <1>1 DEF Range
    <3>1. \A h \in 1..n : r[h] \in Range(r)
      BY <2>9 DEF Range
    <3>2. CASE i > k
      <4>1. i - k \in 1..n /\ i - k <= n + 1 - k /\ k + (i - k) = i
        BY <1>1, <2>5, <3>2
      <4>2. r[i - k] = all[i]
        BY <2>10, <4>1
      <4> QED BY <3>1, <4>1, <4>2
    <3>3. CASE i < k
      <4>0. i + (n + 1 - k) \in 1..n
        BY <1>1, <2>5, <3>3
      <4>1. PICK h \in 1..n : h = i + (n + 1 - k)
        BY <4>0
      <4>2. ~(h <= n + 1 - k) /\ h - (n + 1 - k) = i
        BY <1>1, <2>5, <4>1
      <4>3. r[h] = all[i]
        BY <2>10, <4>2
      <4> QED BY <3>1, <4>3
    <3> QED BY <1>1, <2>5, <3>2, <3>3
  <2>13. j # all[k]
    BY <1>1, <1>2, <2>5
  <2> QED BY <1>4, <2>0, <2>4, <2>6, <2>9, <2>11, <2>12, <2>13
<1> QED BY <1>5, <1>6

\* What the histories need of a step that neither accepts nor starts a job.
LEMMA HistoriesKept ==
  ASSUME JobsInv, UNCHANGED <<order, accepted, starts>>, Active' \subseteq Active,
         \A i \in Jobs : slot'[i] \in {"reserved", "expired"} => slot[i] \in {"reserved", "expired"}
  PROVE  /\ Active' \subseteq Seen' /\ Len(order') <= accepted'
         /\ \A h, i \in 1..Len(order') : order'[h] = order'[i] => h = i
         /\ accepted' <= SeenCap =>
              \A j \in Jobs : /\ starts'[j] <= 1
                              /\ starts'[j] = 1 => j \in Seen' /\ slot'[j] \notin {"reserved", "expired"}
<1>1. order' = order /\ accepted' = accepted /\ starts' = starts /\ Seen' = Seen
  BY DEF Seen
<1>2. Active' \subseteq Seen' /\ Len(order') <= accepted'
  BY <1>1 DEF JobsInv
<1>3. \A h, i \in 1..Len(order') : order'[h] = order'[i] => h = i
  BY <1>1 DEF JobsInv
<1>4. ASSUME accepted <= SeenCap, NEW j \in Jobs
      PROVE  /\ starts[j] <= 1
             /\ starts[j] = 1 => j \in Seen /\ slot'[j] \notin {"reserved", "expired"}
  <2>1. /\ starts[j] <= 1
        /\ starts[j] = 1 => j \in Seen /\ slot[j] \notin {"reserved", "expired"}
    BY <1>4, Zenon DEF JobsInv
  <2>2. slot[j] \notin {"reserved", "expired"} => slot'[j] \notin {"reserved", "expired"}
    BY Zenon
  <2> QED BY <2>1, <2>2
<1> QED BY <1>1, <1>2, <1>3, <1>4

\* Queueing a result.
LEMMA Queued ==
  ASSUME NEW q \in Seq(Jobs), NEW j \in Jobs
  PROVE  /\ Append(q, j) \in Seq(Jobs) /\ Append(q, j) # << >>
         /\ Range(Append(q, j)) = Range(q) \cup {j}
<1>1. /\ Append(q, j) \in Seq(Jobs) /\ Len(q) \in Nat /\ Len(Append(q, j)) = Len(q) + 1
      /\ \A i \in 1..Len(q) : Append(q, j)[i] = q[i]
      /\ Append(q, j)[Len(q) + 1] = j
      /\ DOMAIN q = 1..Len(q) /\ DOMAIN Append(q, j) = 1..(Len(q) + 1)
  OBVIOUS
<1>2. \A i \in 1..(Len(q) + 1) : i \in 1..Len(q) \/ i = Len(q) + 1
  BY <1>1
<1>3. Len(q) + 1 \in 1..(Len(q) + 1) /\ \A i \in 1..Len(q) : i \in 1..(Len(q) + 1)
  BY <1>1
<1> QED BY <1>1, <1>2, <1>3 DEF Range

\* Sending results from the head of the queue: each is sent or still queued.
LEMMA Flushed ==
  ASSUME NEW q \in Seq(Jobs), NEW n \in 0..Len(q)
  PROVE  /\ SubSeq(q, n + 1, Len(q)) \in Seq(Jobs)
         /\ Range(SubSeq(q, 1, n)) \subseteq Jobs
         /\ Range(q) \subseteq Range(SubSeq(q, 1, n)) \cup Range(SubSeq(q, n + 1, Len(q)))
<1> DEFINE a == SubSeq(q, 1, n)
           b == SubSeq(q, n + 1, Len(q))
<1>1. /\ a \in Seq(Jobs) /\ Len(a) = n /\ DOMAIN a = 1..n
      /\ \A i \in 1..n : a[i] = q[i]
  OBVIOUS
<1>2. /\ b \in Seq(Jobs) /\ Len(b) = Len(q) - n /\ DOMAIN b = 1..(Len(q) - n)
      /\ \A i \in 1..(Len(q) - n) : b[i] = q[n + i]
  <2>1. CASE n = Len(q)
    BY <2>1
  <2>2. CASE n < Len(q)
    BY <2>2
  <2> QED BY <2>1, <2>2
<1> HIDE DEF a, b
<1>3. ASSUME NEW i \in 1..Len(q) PROVE q[i] \in Range(a) \cup Range(b)
  <2>1. CASE i <= n
    <3>1. i \in 1..n
      BY <2>1
    <3> QED BY <1>1, <3>1 DEF Range
  <2>2. CASE ~(i <= n)
    <3>1. i - n \in 1..(Len(q) - n) /\ n + (i - n) = i
      BY <2>2
    <3>2. b[i - n] = q[i]
      BY <1>2, <3>1
    <3> QED BY <1>2, <3>1, <3>2 DEF Range
  <2> QED BY <2>1, <2>2
<1>4. Range(a) \subseteq Jobs
  BY <1>1 DEF Range
<1>5. Range(q) \subseteq Range(a) \cup Range(b)
  BY <1>3 DEF Range
<1> QED BY <1>2, <1>4, <1>5 DEF a, b

\* The oldest result leaves a queue that holds one.
LEMMA Dequeued ==
  ASSUME NEW q \in Seq(Jobs), q # << >>
  PROVE  /\ Tail(q) \in Seq(Jobs) /\ Head(q) \in Jobs
         /\ Range(q) \subseteq {Head(q)} \cup Range(Tail(q))
<1>1. /\ Len(q) \in Nat \ {0} /\ Tail(q) \in Seq(Jobs) /\ Len(Tail(q)) = Len(q) - 1
      /\ \A i \in 1..(Len(q) - 1) : Tail(q)[i] = q[i + 1]
      /\ Head(q) = q[1] /\ q[1] \in Jobs
      /\ DOMAIN q = 1..Len(q) /\ DOMAIN Tail(q) = 1..(Len(q) - 1)
  OBVIOUS
<1>2. ASSUME NEW i \in 1..Len(q), i # 1 PROVE q[i] \in Range(Tail(q))
  <2>1. i - 1 \in 1..(Len(q) - 1) /\ (i - 1) + 1 = i
    BY <1>1, <1>2
  <2>2. Tail(q)[i - 1] = q[i]
    BY <1>1, <2>1
  <2> QED BY <1>1, <2>1, <2>2 DEF Range
<1> QED BY <1>1, <1>2 DEF Range

\* The part of the invariant about the cache and the number of starts.
Remembered ==
  /\ \A h, i \in 1..Len(order) : order[h] = order[i] => h = i
  /\ Active \subseteq Seen /\ Len(order) <= accepted
  /\ accepted <= SeenCap =>
       \A j \in Jobs : /\ starts[j] <= 1
                       /\ starts[j] = 1 => j \in Seen /\ slot[j] \notin {"reserved", "expired"}

\* A step that accepts no offer and starts no job.
Quiet ==
  /\ UNCHANGED <<order, accepted, starts>>
  /\ \A i \in Jobs : /\ slot'[i] # "free" => slot[i] # "free"
                     /\ slot'[i] \in {"reserved", "expired"} => slot[i] \in {"reserved", "expired"}

\* Every step is quiet, or accepts an offer, or starts an assigned job.
LEMMA QuietOrAdmits ==
  ASSUME Owned, [Next]_vars
  PROVE  \/ Quiet
         \/ \E j \in Jobs, a, b \in BOOLEAN :
              \/ Availability(j, a, b) /\ OfferOk(j, a)
              \/ Assignment(j, a, b) /\ AssignmentOk(j, a)
<1> USE DEF Owned, OnlyRunning, Expired, Quiet, history
<1>1. ASSUME NEW j \in Jobs, NEW a \in BOOLEAN, NEW b \in BOOLEAN,
             Availability(j, a, b), ~OfferOk(j, a)
      PROVE  Quiet
  <2>1. Sending(b, slot) /\ UNCHANGED <<order, accepted, starts>>
    BY <1>1 DEF Availability
  <2> QED BY <2>1, AfterSend
<1>2. ASSUME NEW j \in Jobs, NEW a \in BOOLEAN, NEW b \in BOOLEAN,
             Assignment(j, a, b), ~AssignmentOk(j, a)
      PROVE  Quiet
  <2>1. CASE slot[j] # "running"
    <3>1. Sending(b, [slot EXCEPT ![j] = "free"]) /\ UNCHANGED <<order, accepted, starts>>
      BY <1>2, <2>1 DEF Assignment
    <3>2. [slot EXCEPT ![j] = "free"] \in [Jobs -> {"free", "reserved", "expired", "running"}]
      OBVIOUS
    <3>3. \A i \in Jobs : slot'[i] \in {[slot EXCEPT ![j] = "free"][i], "free"}
      BY <3>1, <3>2, SendKeeps
    <3>4. \A i \in Jobs : slot'[i] \in {slot[i], "free"}
      BY <3>3
    <3> QED BY <3>1, <3>4
  <2>2. CASE slot[j] = "running"
    BY <1>2, <2>2 DEF Assignment
  <2> QED BY <2>1, <2>2
<1>3. ASSUME NEW ok \in BOOLEAN, Tick(ok) PROVE Quiet
  <2>1. CASE shutting /\ Tasks = {}
    BY <1>3, <2>1 DEF Tick
  <2>2. CASE ~(shutting /\ Tasks = {})
    <3>1. Sending(ok, Expired(slot)) /\ UNCHANGED <<order, accepted, starts>>
      BY <1>3, <2>2 DEF Tick
    <3>2. Expired(slot) \in [Jobs -> {"free", "reserved", "expired", "running"}]
      OBVIOUS
    <3>3. \A i \in Jobs : slot'[i] \in {Expired(slot)[i], "free"}
      BY <3>1, <3>2, SendKeeps
    <3>4. \A i \in Jobs : slot'[i] \in {slot[i], "free"}
      BY <3>3
    <3> QED BY <3>1, <3>4
  <2> QED BY <2>1, <2>2
<1>4. ASSUME NEW j \in Jobs, NEW a \in BOOLEAN, NEW b \in BOOLEAN,
             OnlineDone(j, a, b)
      PROVE  Quiet
  BY <1>4 DEF OnlineDone, Disconnect
<1>5. ASSUME NEW j \in Jobs,
             \/ Termination(j) \/ TopJoin(j) \/ FinishJoin(j) \/ JobEnds(j)
             \/ ReservationExpires(j)
      PROVE  Quiet
  BY <1>5 DEF Termination, TopJoin, FinishJoin, JobEnds, ReservationExpires
<1>6. CASE Disconnected \/ OnlineStop \/ TopStop \/ ConnectFails
  BY <1>6 DEF Disconnected, Disconnect, OnlineStop, TopStop, ConnectFails
<1>7. CASE FinishCancel \/ FinishReturns \/ DeadlinePasses \/ Stop
           \/ \E ok \in BOOLEAN, n \in 0..Len(reports) : Connects(ok, n)
  BY <1>7 DEF FinishCancel, FinishReturns, DeadlinePasses, Stop, Connects
<1>8. CASE UNCHANGED vars
  BY <1>8 DEF vars
<1> HIDE DEF Quiet
<1> QED
  BY <1>1, <1>2, <1>3, <1>4, <1>5, <1>6, <1>7, <1>8
  DEF Next, Server, Loop, Ticking, Connecting

\* The cache and the number of starts, over any step.
LEMMA RememberedNext ==
  ASSUME JobsInv, Owned, [Next]_vars
  PROVE  Remembered' /\ order' \in Seq(Jobs) /\ Len(order') <= SeenCap
<1>1. CASE Quiet
  <2>1. Active' \subseteq Active
    BY <1>1 DEF Quiet, Active
  <2>2. order' = order
    BY <1>1 DEF Quiet
  <2>3. order' \in Seq(Jobs) /\ Len(order') <= SeenCap
    BY <2>2 DEF JobsInv, TypeOK
  <2> QED BY <1>1, <2>1, <2>3, HistoriesKept DEF Quiet, Remembered
<1>2. ASSUME NEW j \in Jobs, NEW a \in BOOLEAN, NEW b \in BOOLEAN,
             Availability(j, a, b), OfferOk(j, a)
      PROVE  Remembered' /\ order' \in Seq(Jobs) /\ Len(order') <= SeenCap
  <2>1. /\ order' = Remember(order, j, Active) /\ accepted' = accepted + 1
        /\ starts' = starts /\ Sending(b, [slot EXCEPT ![j] = "reserved"])
    BY <1>2 DEF Availability
  <2>2. j \notin Seen /\ Cardinality(Active) < MaxJobs /\ slot[j] = "free"
    BY <1>2 DEF OfferOk, Active
  <2>3. /\ order \in Seq(Jobs) /\ Len(order) <= SeenCap /\ accepted \in Nat
        /\ Active \in SUBSET Jobs /\ Active \subseteq Range(order)
        /\ starts \in [Jobs -> Nat] /\ Len(order) <= accepted
    BY DEF JobsInv, TypeOK, Active, Seen
  <2>4. \A h, i \in 1..Len(order) : order[h] = order[i] => h = i
    BY DEF JobsInv
  <2>5. /\ order' \in Seq(Jobs) /\ Len(order') <= SeenCap /\ Len(order') <= Len(order) + 1
        /\ \A h, i \in 1..Len(order') : order'[h] = order'[i] => h = i
        /\ Active \cup {j} \subseteq Seen'
        /\ Len(order) < SeenCap => Seen \subseteq Seen'
    BY <2>1, <2>2, <2>3, <2>4, RememberKeeps DEF Seen
  <2>6. [slot EXCEPT ![j] = "reserved"] \in [Jobs -> {"free", "reserved", "expired", "running"}]
    BY DEF Owned
  <2>7. \A i \in Jobs : slot'[i] \in {[slot EXCEPT ![j] = "reserved"][i], "free"}
    BY <2>1, <2>6, SendKeeps
  <2>8. \A i \in Jobs : i # j => slot'[i] \in {slot[i], "free"}
    BY <2>7 DEF Owned
  <2>9. Active' \subseteq Seen'
    BY <2>5, <2>8 DEF Active
  <2>10. Len(order') <= accepted'
    BY <2>1, <2>3, <2>5
  <2>11. ASSUME accepted' <= SeenCap, NEW i \in Jobs
         PROVE  /\ starts'[i] <= 1
                /\ starts'[i] = 1 => i \in Seen' /\ slot'[i] \notin {"reserved", "expired"}
    <3>1. accepted <= SeenCap /\ Len(order) < SeenCap
      BY <2>1, <2>3, <2>11, WorkerAssumption
    <3>2. /\ starts[i] <= 1
          /\ starts[i] = 1 => i \in Seen /\ slot[i] \notin {"reserved", "expired"}
      BY <3>1 DEF JobsInv
    <3> QED BY <2>1, <2>2, <2>5, <2>8, <3>1, <3>2
  <2> QED BY <2>5, <2>9, <2>10, <2>11 DEF Remembered
<1>3. ASSUME NEW j \in Jobs, NEW a \in BOOLEAN, NEW b \in BOOLEAN,
             Assignment(j, a, b), AssignmentOk(j, a)
      PROVE  Remembered' /\ order' \in Seq(Jobs) /\ Len(order') <= SeenCap
  <2>1. /\ Sending(b, [slot EXCEPT ![j] = "running"])
        /\ starts' = [starts EXCEPT ![j] = @ + 1]
        /\ order' = order /\ accepted' = accepted /\ slot[j] = "reserved"
    BY <1>3 DEF Assignment, AssignmentOk
  <2>2. [slot EXCEPT ![j] = "running"] \in [Jobs -> {"free", "reserved", "expired", "running"}]
    BY DEF Owned
  <2>3. \A i \in Jobs : slot'[i] \in {[slot EXCEPT ![j] = "running"][i], "free"}
    BY <2>1, <2>2, SendKeeps
  <2>4. /\ \A i \in Jobs : i # j => slot'[i] \in {slot[i], "free"}
        /\ slot'[j] \in {"running", "free"}
    BY <2>3 DEF Owned
  <2>5. Seen' = Seen /\ Active' \subseteq Active
    BY <2>1, <2>4 DEF Seen, Active
  <2>6. order' \in Seq(Jobs) /\ Len(order') <= SeenCap /\ Len(order') <= accepted'
    BY <2>1 DEF JobsInv, TypeOK
  <2>7. \A h, i \in 1..Len(order') : order'[h] = order'[i] => h = i
    BY <2>1 DEF JobsInv
  <2>8. Active' \subseteq Seen' /\ j \in Seen'
    BY <2>1, <2>5 DEF JobsInv, Active
  <2>9. ASSUME accepted' <= SeenCap, NEW i \in Jobs
        PROVE  /\ starts'[i] <= 1
               /\ starts'[i] = 1 => i \in Seen' /\ slot'[i] \notin {"reserved", "expired"}
    <3>1. /\ starts[i] <= 1
          /\ starts[i] = 1 => i \in Seen /\ slot[i] \notin {"reserved", "expired"}
      BY <2>1, <2>9 DEF JobsInv
    <3>2. starts \in [Jobs -> Nat]
      BY DEF JobsInv, TypeOK
    <3>3. CASE i = j
      BY <2>1, <2>4, <2>8, <3>1, <3>2, <3>3
    <3>4. CASE i # j
      BY <2>1, <2>4, <2>5, <3>1, <3>2, <3>4
    <3> QED BY <3>3, <3>4
  <2> QED BY <2>6, <2>7, <2>8, <2>9 DEF Remembered
<1> QED BY <1>1, <1>2, <1>3, QuietOrAdmits

\* The results that are queued, and those the histories say were sent.
Results ==
  /\ reports \in Seq(Jobs) /\ ended \subseteq Jobs /\ delivered \subseteq Jobs
  /\ ended \subseteq delivered \cup Range(reports)

\* A result is queued before it is sent and leaves the queue only when it was.
LEMMA ResultsNext ==
  ASSUME Results, [Next]_vars
  PROVE  Results'
<1> USE DEF Results, history, OnlineUnchanged
<1>1. ASSUME NEW j \in Jobs, NEW a \in BOOLEAN, NEW b \in BOOLEAN,
             OnlineDone(j, a, b)
      PROVE  Results'
  <2> DEFINE q == Append(reports, j)
  <2>1. ended' = ended \cup {j}
    BY <1>1 DEF OnlineDone
  <2>2. q \in Seq(Jobs) /\ Range(q) = Range(reports) \cup {j} /\ q # << >>
    BY Queued
  <2>3. CASE a /\ b
    <3>1. delivered' = delivered \cup {Head(q)} /\ reports' = Tail(q)
      BY <1>1, <2>3 DEF OnlineDone
    <3>2. Tail(q) \in Seq(Jobs) /\ Head(q) \in Jobs /\ Range(q) \subseteq {Head(q)} \cup Range(Tail(q))
      BY <2>2, Dequeued
    <3> HIDE DEF q
    <3> QED BY <2>1, <2>2, <3>1, <3>2
  <2>4. CASE ~(a /\ b)
    <3>1. delivered' = delivered /\ reports' = q
      BY <1>1, <2>4 DEF OnlineDone
    <3> HIDE DEF q
    <3> QED BY <2>1, <2>2, <3>1
  <2> QED BY <2>3, <2>4
<1>2. ASSUME NEW j \in Jobs, TopJoin(j) PROVE Results'
  <2>1. /\ reports' = Append(reports, j) /\ ended' = ended \cup {j}
        /\ delivered' = delivered
    BY <1>2 DEF TopJoin
  <2> QED BY <2>1, Queued
<1>3. ASSUME NEW ok \in BOOLEAN, NEW n \in 0..Len(reports), Connects(ok, n)
      PROVE  Results'
  <2>1. /\ delivered' = delivered \cup Range(SubSeq(reports, 1, n))
        /\ reports' = SubSeq(reports, n + 1, Len(reports)) /\ ended' = ended
    BY <1>3 DEF Connects
  <2>2. /\ SubSeq(reports, n + 1, Len(reports)) \in Seq(Jobs)
        /\ Range(SubSeq(reports, 1, n)) \subseteq Jobs
        /\ Range(reports) \subseteq Range(SubSeq(reports, 1, n))
                                    \cup Range(SubSeq(reports, n + 1, Len(reports)))
    BY Flushed
  <2> QED BY <2>1, <2>2
<1>4. ASSUME UNCHANGED <<reports, ended, delivered>> PROVE Results'
  BY <1>4 DEF Range
<1>5. ASSUME NEW j \in Jobs, NEW a \in BOOLEAN, NEW b \in BOOLEAN,
             Availability(j, a, b) \/ Assignment(j, a, b)
      PROVE  UNCHANGED <<reports, ended, delivered>>
  BY <1>5 DEF Availability, Assignment
<1>6. ASSUME NEW j \in Jobs,
             Termination(j) \/ FinishJoin(j) \/ JobEnds(j) \/ ReservationExpires(j)
      PROVE  UNCHANGED <<reports, ended, delivered>>
  BY <1>6 DEF Termination, FinishJoin, JobEnds, ReservationExpires
<1>7. CASE Disconnected \/ OnlineStop \/ TopStop \/ ConnectFails \/ FinishCancel
           \/ FinishReturns \/ DeadlinePasses \/ Stop \/ \E ok \in BOOLEAN : Tick(ok)
  BY <1>7, <1>4 DEF Disconnected, OnlineStop, TopStop, ConnectFails, FinishCancel,
                    FinishReturns, DeadlinePasses, Stop, Tick
<1>8. CASE UNCHANGED vars
  BY <1>8, <1>4 DEF vars
<1> HIDE DEF Results
<1> QED
  BY <1>1, <1>2, <1>3, <1>4, <1>5, <1>6, <1>7, <1>8
  DEF Next, Server, Loop, Ticking, Connecting

\* The scalars of the loop keep their types.
Scalars ==
  /\ draining \in BOOLEAN /\ attempts \in 0..(ReconnectLimit + 1)
  /\ mode \in {"top", "online", "finish", "join", "stopped", "failed"}
  /\ stop \in BOOLEAN /\ shutting \in BOOLEAN
  /\ deadline \in {"none", "armed", "passed"}
  /\ epochs \in 0..MaxEpochs /\ accepted \in 0..MaxAccepts
  /\ starts \in [Jobs -> Nat]

LEMMA ScalarsNext ==
  ASSUME Scalars, [Next]_vars
  PROVE  Scalars'
<1> USE WorkerAssumption DEF Scalars, history, OnlineUnchanged, Sending, Disconnect
<1>1. ASSUME NEW j \in Jobs, NEW a \in BOOLEAN, NEW b \in BOOLEAN,
             Availability(j, a, b)
      PROVE  Scalars'
  BY <1>1 DEF Availability
<1>2. ASSUME NEW j \in Jobs, NEW a \in BOOLEAN, NEW b \in BOOLEAN,
             Assignment(j, a, b)
      PROVE  Scalars'
  BY <1>2 DEF Assignment
<1>3. ASSUME NEW j \in Jobs, NEW a \in BOOLEAN, NEW b \in BOOLEAN,
             OnlineDone(j, a, b)
      PROVE  Scalars'
  BY <1>3 DEF OnlineDone
<1>4. ASSUME NEW ok \in BOOLEAN, Tick(ok) PROVE Scalars'
  BY <1>4 DEF Tick
<1>5. ASSUME NEW ok \in BOOLEAN, NEW n \in 0..Len(reports), Connects(ok, n)
      PROVE  Scalars'
  <2>1. /\ epochs < MaxEpochs /\ epochs' = epochs + 1 /\ attempts' = 0
        /\ mode' \in {"online", "top"} /\ shutting' = FALSE
        /\ UNCHANGED <<draining, stop, deadline, accepted, starts>>
    BY <1>5 DEF Connects
  <2>2. epochs' \in 0..MaxEpochs /\ attempts' \in 0..(ReconnectLimit + 1)
    BY <2>1
  <2>3. mode' \in {"top", "online", "finish", "join", "stopped", "failed"}
    BY <2>1
  <2> QED BY <2>1, <2>2, <2>3, Zenon
<1>6. ASSUME NEW j \in Jobs,
             \/ Termination(j) \/ TopJoin(j) \/ FinishJoin(j) \/ JobEnds(j)
             \/ ReservationExpires(j)
      PROVE  Scalars'
  BY <1>6 DEF Termination, TopJoin, FinishJoin, JobEnds, ReservationExpires
<1>7. CASE Disconnected \/ OnlineStop \/ TopStop
  BY <1>7 DEF Disconnected, OnlineStop, TopStop
<1>8. CASE ConnectFails
  <2>1. /\ attempts <= ReconnectLimit /\ attempts' = attempts + 1
        /\ mode' \in {"finish", mode} /\ draining' \in {TRUE, draining}
        /\ deadline' \in {"passed", deadline}
        /\ UNCHANGED <<stop, shutting, epochs, accepted, starts>>
    BY <1>8 DEF ConnectFails
  <2>2. attempts' \in 0..(ReconnectLimit + 1)
    BY <2>1
  <2>3. /\ mode' \in {"top", "online", "finish", "join", "stopped", "failed"}
        /\ deadline' \in {"none", "armed", "passed"}
    BY <2>1
  <2>4. draining' \in BOOLEAN
    BY <2>1, Zenon
  <2> QED BY <2>1, <2>2, <2>3, <2>4, Zenon
<1>9. CASE FinishCancel \/ FinishReturns \/ DeadlinePasses \/ Stop
  BY <1>9 DEF FinishCancel, FinishReturns, DeadlinePasses, Stop
<1>10. CASE UNCHANGED vars
  BY <1>10 DEF vars
<1> HIDE DEF Scalars
<1> QED
  BY <1>1, <1>2, <1>3, <1>4, <1>5, <1>6, <1>7, <1>8, <1>9, <1>10
  DEF Next, Server, Loop, Ticking, Connecting

\* The cache, the queue of results and the histories keep their invariant.
THEOREM JobsInvariance == Spec => []JobsInv
<1>1. Init => JobsInv
  <2> SUFFICES ASSUME Init PROVE JobsInv
    OBVIOUS
  <2>1. Active = {} /\ Len(order) = 0 /\ accepted = 0 /\ ended = {}
    BY DEF Init, Active
  <2>2. TypeOK
    <3>1. order \in Seq(Jobs) /\ reports \in Seq(Jobs) /\ Len(order) = 0
      BY DEF Init
    <3>2. attempts \in 0..(ReconnectLimit + 1) /\ epochs \in 0..MaxEpochs /\ accepted \in 0..MaxAccepts
      BY WorkerAssumption DEF Init
    <3>3. Len(order) <= SeenCap
      BY <3>1, WorkerAssumption
    <3>4. /\ slot \in [Jobs -> {"free", "reserved", "expired", "running"}]
          /\ task \in [Jobs -> {"none", "running", "cancelled", "done"}]
          /\ starts \in [Jobs -> Nat]
          /\ mode \in {"top", "online", "finish", "join", "stopped", "failed"}
          /\ deadline \in {"none", "armed", "passed"}
      BY DEF Init
    <3> QED BY <3>1, <3>2, <3>3, <3>4 DEF Init, TypeOK
  <2>3. \A j \in Jobs : starts[j] = 0
    BY DEF Init
  <2> QED BY <2>1, <2>2, <2>3 DEF JobsInv
<1>2. WorkerInv /\ JobsInv /\ [Next]_vars => JobsInv'
  <2> SUFFICES ASSUME WorkerInv, JobsInv, [Next]_vars PROVE JobsInv'
    OBVIOUS
  <2>1. Owned /\ Results /\ Scalars
    BY DEF WorkerInv, Owned, JobsInv, TypeOK, Results, Scalars
  <2>2. Remembered' /\ order' \in Seq(Jobs) /\ Len(order') <= SeenCap
    BY <2>1, RememberedNext
  <2>3. Owned' /\ Results' /\ Scalars'
    BY <2>1, OwnedNext, ResultsNext, ScalarsNext
  <2>4. TypeOK'
    BY <2>2, <2>3 DEF TypeOK, Owned, Results, Scalars
  <2> QED BY <2>2, <2>3, <2>4 DEF JobsInv, Remembered, Results
<1> QED BY <1>1, <1>2, Invariance, PTL DEF Spec

\* No job is run twice or forgotten.
THEOREM JobsAccountedHolds == Spec => []JobsAccounted
<1>1. JobsInv => JobsAccounted
  BY DEF JobsInv, JobsAccounted
<1> QED BY JobsInvariance, <1>1, PTL

----------------------------------------------------------------------------
(* The capacity lease                                                       *)

\* What Drop for Lease leaves behind: no id, and exactly one release sent.
LEMMA Dropping ==
  ASSUME LeaseInv, DropLease
  PROVE  /\ place' = "gone" /\ stopped' = TRUE /\ phase' = "none" /\ id' = FALSE
         /\ hb' = hb /\ joined' = joined
         /\ rel' \in Nat /\ rel <= rel'
         /\ issued => rel' = 1
         /\ ~issued => rel' = 0
  <1>1. CASE id
    BY <1>1 DEF LeaseInv, LeaseTypeOK, ReleasedOnce, Counted, DropLease, SendRelease
  <1>2. CASE ~id
    BY <1>2 DEF LeaseInv, LeaseTypeOK, ReleasedOnce, DropLease, SendRelease
  <1> QED BY <1>1, <1>2

\* Drop keeps the account of what was sent.
LEMMA DropCounted ==
  ASSUME LeaseInv, DropLease, place # "none", issued' = issued, late' = late
  PROVE  Counted' /\ LateBeats'
<1>1. issued /\ (joined => late = 0 /\ hb = "none") /\ late <= 1
  BY DEF LeaseInv, Counted, LateBeats
<1>2. rel' = 1 /\ place' = "gone" /\ stopped' = TRUE /\ hb' = hb
  BY <1>1, Dropping
<1>3. joined' => late = 0 /\ hb = "none"
  BY <1>1, Dropping, Zenon
<1>4. late > 0 => hb # "polled"
  BY DEF LeaseInv, Counted
<1>5. issued'
  BY <1>1, Zenon
<1>6. Counted'
  BY <1>2, <1>3, <1>4, <1>5 DEF Counted
<1>7. LateBeats'
  BY <1>1, <1>3 DEF LateBeats
<1> QED BY <1>6, <1>7

\* The initial states satisfy the inductive invariant.
LEMMA LeaseInitInv == LeaseInit => LeaseInv
<1> SUFFICES ASSUME LeaseInit PROVE LeaseInv
  OBVIOUS
<1>1. LeaseTypeOK
  BY DEF LeaseInit, LeaseTypeOK, Slots, JobSteps
<1>2. ReleasedOnce /\ Counted /\ LateBeats
  BY DEF LeaseInit, ReleasedOnce, Counted, LateBeats
<1>3. Held /\ Placed
  BY DEF LeaseInit, Held, Placed
<1> QED BY <1>1, <1>2, <1>3 DEF LeaseInv

\* Every step keeps the inductive invariant, one action at a time.
LEMMA LeaseNextInv == LeaseInv /\ [LeaseNext]_leaseVars => LeaseInv'
<1> SUFFICES ASSUME LeaseInv, [LeaseNext]_leaseVars PROVE LeaseInv'
  OBVIOUS
<1> USE DEF LeaseInv, LeaseTypeOK, ReleasedOnce, Held, Placed, Counted, LateBeats,
            Slots, JobSteps
<1>1. CASE HbWakes
  BY <1>1 DEF HbWakes
<1>2. CASE HbSends
  BY <1>2 DEF HbSends
<1>3. CASE HbAnswered
  BY <1>3 DEF HbAnswered
<1>4. CASE HbStops
  BY <1>4 DEF HbStops
<1>5. CASE ClaimInvalid
  BY <1>5 DEF ClaimInvalid, lease
<1>6. CASE HeaderGranted
  BY <1>6 DEF HeaderGranted, Beating
<1>7. CASE CallerGranted
  BY <1>7 DEF CallerGranted, Beating
<1>8. CASE CallerRefused
  BY <1>8 DEF CallerRefused, lease
<1>9. CASE OwnerTakes
  BY <1>9 DEF OwnerTakes
<1>10. ASSUME NEW h \in Handoffs, Handoff(h) PROVE LeaseInv'
  BY <1>10 DEF Handoff, lease
<1>11. CASE CallStarts
  BY <1>11 DEF CallStarts
<1>12. CASE CallEnds
  BY <1>12 DEF CallEnds, lease
<1>13. CASE Drained
  BY <1>13 DEF Drained, lease
<1>14. CASE RoomCloses
  BY <1>14 DEF RoomCloses, lease
<1>15. CASE Claim
  <2>1. CASE path = "none"
    BY <1>15, <2>1 DEF Claim
  <2>2. CASE path = "header"
    BY <1>15, <2>2 DEF Claim
  <2>3. CASE path = "caller"
    BY <1>15, <2>3 DEF Claim
  <2> QED BY <2>1, <2>2, <2>3
<1>16. CASE Joined
  <2>1. id /\ rel = 0 /\ issued /\ place \in {"handoff", "final"}
    BY <1>16 DEF Joined
  <2>2. rel' = 1 /\ id' = FALSE
    BY <1>16, <2>1 DEF Joined, SendRelease
  <2>3. late = 0
    BY <2>1
  <2>4. LeaseTypeOK' /\ ReleasedOnce'
    BY <1>16, <2>1, <2>2, <2>3 DEF Joined
  <2>5. Held' /\ Placed'
    BY <1>16, <2>1, <2>2, <2>3 DEF Joined
  <2>6. Counted' /\ LateBeats'
    BY <1>16, <2>1, <2>2, <2>3 DEF Joined
  <2> QED BY <2>4, <2>5, <2>6
<1>17. CASE HeaderRefused
  <2>1. DropLease
    BY <1>17 DEF HeaderRefused
  <2>2. LeaseTypeOK' /\ ReleasedOnce'
    BY <1>17, <2>1, Dropping DEF HeaderRefused
  <2>3. Held' /\ Placed'
    BY <1>17, <2>1, Dropping DEF HeaderRefused
  <2>4. Counted' /\ LateBeats'
    BY <1>17, <2>1, DropCounted DEF HeaderRefused
  <2> QED BY <2>2, <2>3, <2>4
<1>18. ASSUME NEW h \in Handoffs, HandoffReleased(h) PROVE LeaseInv'
  <2>1. DropLease
    BY <1>18 DEF HandoffReleased
  <2>2. LeaseTypeOK' /\ ReleasedOnce'
    BY <1>18, <2>1, Dropping DEF HandoffReleased
  <2>3. Held' /\ Placed'
    BY <1>18, <2>1, Dropping DEF HandoffReleased
  <2>4. Counted' /\ LateBeats'
    BY <1>18, <2>1, DropCounted DEF HandoffReleased
  <2> QED BY <2>2, <2>3, <2>4
<1>19. CASE FinalReleased
  <2>1. DropLease
    BY <1>19 DEF FinalReleased
  <2>2. LeaseTypeOK' /\ ReleasedOnce'
    BY <1>19, <2>1, Dropping DEF FinalReleased
  <2>3. Held' /\ Placed'
    BY <1>19, <2>1, Dropping DEF FinalReleased
  <2>4. Counted' /\ LateBeats'
    BY <1>19, <2>1, DropCounted DEF FinalReleased
  <2> QED BY <2>2, <2>3, <2>4
<1>20. CASE CallerSends
  <2>1. CASE job = "claim"
    BY <1>20, <2>1 DEF CallerSends
  <2>2. CASE job # "claim"
    <3>1. DropLease
      BY <1>20, <2>2 DEF CallerSends
    <3>2. LeaseTypeOK' /\ ReleasedOnce'
      BY <1>20, <2>2, <3>1, Dropping DEF CallerSends
    <3>3. Held' /\ Placed'
      BY <1>20, <2>2, <3>1, Dropping DEF CallerSends
    <3>4. Counted' /\ LateBeats'
      BY <1>20, <2>2, <3>1, DropCounted DEF CallerSends
    <3> QED BY <3>2, <3>3, <3>4
  <2> QED BY <2>1, <2>2
<1>21. CASE SetupEnds
  <2>1. CASE place \in {"claim", "sent", "setup"}
    <3>1. DropLease
      BY <1>21, <2>1 DEF SetupEnds
    <3>2. LeaseTypeOK' /\ ReleasedOnce'
      BY <1>21, <2>1, <3>1, Dropping DEF SetupEnds
    <3>3. Held' /\ Placed'
      BY <1>21, <2>1, <3>1, Dropping DEF SetupEnds
    <3>4. Counted' /\ LateBeats'
      BY <1>21, <2>1, <3>1, DropCounted DEF SetupEnds
    <3> QED BY <3>2, <3>3, <3>4
  <2>2. CASE place \notin {"claim", "sent", "setup"}
    BY <1>21, <2>2 DEF SetupEnds, lease
  <2> QED BY <2>1, <2>2
<1>22. ASSUME NEW h \in Handoffs, HandoffTakes(h) PROVE LeaseInv'
  <2>1. CASE place = "mutex"
    BY <1>22, <2>1 DEF HandoffTakes, Releasing
  <2>2. CASE place # "mutex"
    BY <1>22, <2>2 DEF HandoffTakes, lease
  <2> QED BY <2>1, <2>2
<1>23. CASE DrainTimeout
  <2>1. CASE place = "handoff"
    <3>1. DropLease
      BY <1>23, <2>1 DEF DrainTimeout
    <3>2. LeaseTypeOK' /\ ReleasedOnce'
      BY <1>23, <2>1, <3>1, Dropping DEF DrainTimeout
    <3>3. Held' /\ Placed'
      BY <1>23, <2>1, <3>1, Dropping DEF DrainTimeout
    <3>4. Counted' /\ LateBeats'
      BY <1>23, <2>1, <3>1, DropCounted DEF DrainTimeout
    <3> QED BY <3>2, <3>3, <3>4
  <2>2. CASE place # "handoff"
    BY <1>23, <2>2 DEF DrainTimeout, lease
  <2> QED BY <2>1, <2>2
<1>24. CASE FinalTakes
  <2>1. CASE place = "mutex"
    BY <1>24, <2>1 DEF FinalTakes, Releasing
  <2>2. CASE place # "mutex"
    BY <1>24, <2>2 DEF FinalTakes, lease
  <2> QED BY <2>1, <2>2
<1>25. CASE UNCHANGED leaseVars
  BY <1>25 DEF leaseVars, lease
<1> QED BY <1>1, <1>2, <1>3, <1>4, <1>5, <1>6, <1>7, <1>8, <1>9, <1>10, <1>11, <1>12, <1>13, <1>14, <1>15, <1>16, <1>17, <1>18, <1>19, <1>20, <1>21, <1>22, <1>23, <1>24, <1>25
       DEF LeaseNext, Heartbeat, Claiming, Handing, Job

\* The inductive invariant holds in every reachable state.
THEOREM LeaseInvariance == LeaseSpec => []LeaseInv
  BY LeaseInitInv, LeaseNextInv, PTL DEF LeaseSpec

\* Every variable keeps its type.
THEOREM LeaseTypeCorrect == LeaseSpec => []LeaseTypeOK
<1>1. LeaseInv => LeaseTypeOK
  BY DEF LeaseInv
<1> QED BY LeaseInvariance, <1>1, PTL

\* A reservation is never lost and never released twice, whatever the order
\* of cancellation, abort, drop, handoff and late answers.
THEOREM ReleasedOnceHolds == LeaseSpec => []ReleasedOnce
<1>1. LeaseInv => ReleasedOnce
  BY DEF LeaseInv
<1> QED BY LeaseInvariance, <1>1, PTL

\* A running call holds a granted reservation and keeps sending heartbeats.
THEOREM KeptAliveHolds == LeaseSpec => []KeptAlive
<1>1. LeaseInv => KeptAlive
  BY DEF LeaseInv, LeaseTypeOK, Held, Placed, KeptAlive
<1> QED BY LeaseInvariance, <1>1, PTL

\* release() is never followed by a heartbeat, Drop by at most one.
THEOREM LateBeatsHolds == LeaseSpec => []LateBeats
<1>1. LeaseInv => LateBeats
  BY DEF LeaseInv
<1> QED BY LeaseInvariance, <1>1, PTL

\* The heartbeat lives as long as the call holds the reservation, and ends
\* with it.
THEOREM BeatsWithLeaseHolds == LeaseSpec => []BeatsWithLease
<1>1. KeptAlive /\ LateBeats => BeatsWithLease
  BY DEF BeatsWithLease
<1> QED BY <1>1, KeptAliveHolds, LateBeatsHolds, PTL

\* A call that ran gives its slot back only after the room was closed, or
\* from the handoff.
THEOREM FreedAfterCleanupHolds == LeaseSpec => FreedAfterCleanup
<1> DEFINE Ran == job \in {"call", "drain", "close", "release"}
           Freed == rel' > rel /\ Ran => closed \/ place = "handoff"
<1>1. ASSUME LeaseInv, [LeaseNext]_leaseVars PROVE [Freed]_leaseVars
  <2> SUFFICES ASSUME Ran, rel' > rel PROVE closed \/ place = "handoff"
    OBVIOUS
  <2> USE <1>1 DEF LeaseInv, LeaseTypeOK, Held, Placed
  <2>1. CASE Joined
    BY <2>1 DEF Joined
  <2>2. CASE CallerSends
    BY <2>2 DEF CallerSends
  <2>3. CASE HeaderRefused \/ SetupEnds \/ FinalReleased \/ DrainTimeout
    BY <2>3 DEF HeaderRefused, SetupEnds, FinalReleased, DrainTimeout, lease
  <2>4. CASE \E h \in Handoffs : HandoffReleased(h)
    BY <2>4 DEF HandoffReleased
  <2> QED
    BY <2>1, <2>2, <2>3, <2>4
    DEF LeaseNext, leaseVars, lease, Heartbeat, Claiming, Handing, Job, HbWakes, HbSends,
        HbAnswered, HbStops, Claim, ClaimInvalid, HeaderGranted, CallerGranted,
        CallerRefused, OwnerTakes, Beating, Handoff, HandoffTakes, Releasing,
        CallStarts, CallEnds, Drained, RoomCloses, FinalTakes
<1> QED BY LeaseInvariance, <1>1, PTL DEF LeaseSpec, FreedAfterCleanup
=============================================================================
