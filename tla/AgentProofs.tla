---------------------------- MODULE AgentProofs ----------------------------
(***************************************************************************)
(* Proofs about the LiveKit agent (modules Boot, Session and Timeline):       *)
(* AgentInv is inductive; it gives IdentityKept and EndIsFinal.  MarkupHeld    *)
(* is an invariant by itself.                                               *)
(***************************************************************************)
EXTENDS Timeline, TLAPS

----------------------------------------------------------------------------
(* The setup: whose call it is, and the voice                               *)

\* A strict model is of the language of the call or of none.
LEMMA StrictModelFits ==
  ASSUME conf.lang \in Languages, NEW m
  PROVE  StrictModel(m) \notin Languages \ {conf.lang}
  BY Zenon DEF StrictModel

\* No voice is of the other language, and a strict clone has no substitute but
\* the error.
LEMMA VoicesFit ==
  ASSUME conf.lang \in Languages, NEW v \in Voices
  PROVE  /\ v \notin Languages \ {conf.lang}
         /\ conf.strict /\ "clone" \in Voices => v \in {"clone", "error"}
<1> DEFINE a == StrictModel(conf.model)
           b == StrictModel(conf.savedVoice)
<1>1. a \notin Languages \ {conf.lang} /\ b \notin Languages \ {conf.lang}
  BY StrictModelFits
<1>2. Voices = IF UsesDeepgram THEN {a}
               ELSE IF conf.saved = "deepgram" /\ ~Requested THEN {b}
               ELSE IF ~conf.enabled /\ ~Requested THEN {conf.lang}
               ELSE {IF Clones THEN "clone" ELSE "odion",
                     IF (Clones /\ conf.strict) \/ Requested THEN "error" ELSE conf.lang}
  BY DEF Voices
<1> HIDE DEF a, b
<1> QED BY <1>1, <1>2 DEF Languages

\* A step that leaves the call's identity alone, and does not move the
\* entrypoint into the setup.
LEMMA BootStays ==
  ASSUME Known, IdentityKept, UNCHANGED <<conf, boot>>,
         main' = main \/ (main \notin {"claim", "resolve"} /\ main' \notin {"claim", "start", "await"})
  PROVE  Known' /\ IdentityKept'
<1>1. Voices' = Voices
  BY DEF Voices, UsesDeepgram, StrictModel, Requested, Clones, Experiment, SavedClone
<1> QED BY <1>1 DEF Known, IdentityKept

LEMMA SetupKeeps ==
  ASSUME Known, IdentityKept, Setup \/ Joins
  PROVE  Known' /\ IdentityKept'
<1>0. Voices' = Voices
  BY DEF Setup, Joins, Claim, Identify, Awaited, Configure, Build,
         Voices, UsesDeepgram, StrictModel, Requested, Clones, Experiment, SavedClone
<1>1. CASE Joins
  BY <1>0, <1>1 DEF Joins, Known, IdentityKept
<1>2. CASE Claim
  BY <1>0, <1>2 DEF Claim, Known, IdentityKept
<1>3. CASE Identify
  <2> DEFINE id == Overlay(Identity(boot.here))
  <2>1. main = "resolve" /\ boot' = [boot EXCEPT !.id = id] /\ UNCHANGED conf
        /\ main' = IF NeedsIdentity(id) \/ NeedsMetadata(id) THEN "await" ELSE Verified(id)
    BY <1>3 DEF Identify
  <2>2. boot.claimed /\ conf.recipient => id = [user |-> "claim", kind |-> "voice", business |-> "claim", agent |-> "claim"]
    BY DEF Overlay
  <2> HIDE DEF id
  <2>3. boot.claimed /\ conf.recipient => main' = "config"
    BY <2>1, <2>2 DEF NeedsIdentity, NeedsMetadata, Verified
  <2>4. main' \notin {"start", "claim"}
    BY <2>1 DEF Verified
  <2> QED BY <1>0, <2>1, <2>2, <2>3, <2>4 DEF Known, IdentityKept
<1>4. CASE Awaited
  BY <1>0, <1>4 DEF Awaited, Verified, Known, IdentityKept
<1>5. CASE Configure
  BY <1>5, BootStays DEF Configure
<1>6. CASE Build
  BY <1>0, <1>6, VoicesFit DEF Build, Known, IdentityKept
<1> QED BY <1>1, <1>2, <1>3, <1>4, <1>5, <1>6 DEF Setup

----------------------------------------------------------------------------
(* Tasks, names and the calls of the cleanup                                 *)

SessionInv == AgentTypes /\ OneCleaner /\ Phases /\ Drains

LEMMA EventIs ==
  ASSUME NEW k \in Kinds
  PROVE  Event(k) \in TaskSet /\ Event(k).kind = k /\ Event(k).item = 0 /\ ~Event(k).late
  BY DEF Event, TaskSet

LEMMA PersistIs ==
  ASSUME NEW S \in SUBSET TaskSet, NEW t \in TaskSet, NEW known
  PROVE  Persist(S, t, known) \in SUBSET TaskSet /\ S \subseteq Persist(S, t, known) /\ Persist(S, t, known) \subseteq S \union {t}
  BY DEF Persist

LEMMA NamesAre ==
  ASSUME NEW S \in SUBSET TaskSet
  PROVE  /\ Names(S) \in SUBSET (Kinds \X Nat \X BOOLEAN)
         /\ \A t \in S : <<t.kind, t.item, t.late>> \in Names(S)
         /\ \A n \in Names(S) : \E t \in S : n = <<t.kind, t.item, t.late>>
  BY DEF Names, TaskSet

\* A call of the cleanup moves on, waiting for some tasks.
Moved(c, pc, wait) ==
  /\ clean' \in [Callers -> CleanSet]
  /\ clean'[c].pc = pc /\ clean'[c].wait = wait
  /\ \A d \in Callers \ {c} : clean'[d] = clean[d]

LEMMA Moves ==
  ASSUME clean \in [Callers -> CleanSet], NEW c \in Callers, NEW pc \in Steps, NEW wait \in SUBSET (Kinds \X Nat \X BOOLEAN),
         clean' = [clean EXCEPT ![c].pc = pc, ![c].wait = wait]
  PROVE  Moved(c, pc, wait)
<1> DEFINE w == [clean[c] EXCEPT !.pc = pc, !.wait = wait]
<1>1. clean[c] \in CleanSet
  OBVIOUS
<1>2. w \in CleanSet /\ w.pc = pc /\ w.wait = wait
  BY <1>1 DEF CleanSet
<1>3. clean' = [clean EXCEPT ![c] = w]
  BY <1>1 DEF CleanSet
<1> HIDE DEF w
<1> QED BY <1>2, <1>3 DEF Moved

LEMMA MovesOn ==
  ASSUME clean \in [Callers -> CleanSet], NEW c \in Callers, NEW pc \in Steps, Goto(c, pc)
  PROVE  Moved(c, pc, {})
  BY Moves DEF Goto

LEMMA MovesToDrain ==
  ASSUME clean \in [Callers -> CleanSet], NEW c \in Callers, NEW pc \in Steps, NEW S \in SUBSET TaskSet, Draining(c, pc, S)
  PROVE  Moved(c, pc, Names(S))
  BY Moves, NamesAre DEF Draining

\* A call of the cleanup begins.
LEMMA Begins ==
  ASSUME clean \in [Callers -> CleanSet], tracker \in BOOLEAN, NEW c \in Callers,
         clean' = [clean EXCEPT ![c] = [NoCleanup EXCEPT !.pc = "lock", !.tracker = tracker]]
  PROVE  Moved(c, "lock", {})
<1> DEFINE w == [NoCleanup EXCEPT !.pc = "lock", !.tracker = tracker]
<1>1. w \in CleanSet /\ w.pc = "lock" /\ w.wait = {}
  BY DEF NoCleanup, CleanSet, Steps
<1>2. clean' = [clean EXCEPT ![c] = w]
  OBVIOUS
<1> HIDE DEF w
<1> QED BY <1>1, <1>2 DEF Moved

\* Before the call is over nothing is cleaned up, unless the job was shut down early.
LEMMA NotYet ==
  ASSUME SessionInv, shut # "early", main \notin {"finally", "cleanup", "raised"}
  PROVE  ~done /\ \A c \in Callers : clean[c].pc = "no"
  BY DEF SessionInv, OneCleaner, Phases

\* The drains hold on while tasks end, or go on under the same name.
LEMMA DrainsKeep ==
  ASSUME AgentTypes, Drains, UNCHANGED clean, shut' = "early" \/ UNCHANGED shut, bg' \in SUBSET TaskSet,
         \A t \in bg' : \E u \in bg : u.kind = t.kind /\ u.item = t.item /\ u.late = t.late,
         srv'.settled => srv.settled /\ (UNCHANGED rec \/ rec'.pc = "end")
  PROVE  Drains'
<1> SUFFICES ASSUME shut' # "early" PROVE Drains'
  BY DEF Drains
<1>1. shut # "early"
  OBVIOUS
<1> QED BY <1>1, NamesAre DEF Drains, AgentTypes

\* Where no call of the cleanup has begun to drain, there is nothing to keep.
LEMMA DrainsIdle ==
  ASSUME shut' # "early" => ~srv'.settled /\ \A c \in Callers : clean'[c].pc \in {"no", "lock"}
  PROVE  Drains'
  BY DEF Drains

----------------------------------------------------------------------------
(* The entrypoint and the framework                                          *)

LEMMA AgentInvInit == Init => AgentInv
<1> SUFFICES ASSUME Init PROVE AgentInv
  OBVIOUS
<1> USE DEF Init, SessionInit, BootInit
<1>1. Known /\ IdentityKept
  <2>1. conf.lang \in Languages
    BY BootAssumption
  <2> QED BY <2>1 DEF Known, IdentityKept, Languages
<1>2. clean \in [Callers -> CleanSet] /\ \A c \in Callers : clean[c].pc = "no"
  <2>1. NoCleanup \in CleanSet /\ NoCleanup.pc = "no"
    BY DEF NoCleanup, CleanSet, Steps
  <2> QED BY <2>1
<1>3. heart \in HeartSet /\ rec \in RecSet /\ srv \in SrvSet
  BY DEF HeartSet, RecSet, SrvSet
<1>4. talk \in TalkSet
  BY DEF TalkSet
<1>5. AgentTypes
  BY <1>2, <1>3, <1>4 DEF AgentTypes, Places
<1>6. OneCleaner /\ Phases /\ Drains
  BY <1>2 DEF OneCleaner, Phases, Drains, Cleaning, Callers
<1> QED BY <1>1, <1>5, <1>6 DEF AgentInv

\* The other state of the job, and the conversation.
rest == <<shut, hooks, tracker, clean, done, holder, heart, bg, rec, egress, srv, talk>>

\* The entrypoint goes on with the setup, where no cleanup is registered, or
\* builds the session.
LEMMA PrepareStep ==
  ASSUME SessionInv, Setup \/ Joins, UNCHANGED rest
  PROVE  SessionInv'
<1>1. UNCHANGED main \/ (main \in {"claim", "resolve", "await", "config"} /\ main' \in {"resolve", "await", "config", "authorize", "raised"})
      \/ (main = "build" /\ main' \in {"start", "raised"})
  BY DEF Setup, Joins, Claim, Identify, Verified, Awaited, Configure, Build
<1>2. AgentTypes'
  BY <1>1 DEF SessionInv, AgentTypes, rest, Places
<1>3. OneCleaner' /\ Phases' /\ Drains'
  BY <1>1 DEF SessionInv, OneCleaner, Phases, Drains, rest, Event, Names
<1> QED BY <1>2, <1>3 DEF SessionInv

LEMMA AuthorizeStep ==
  ASSUME SessionInv, Authorize, UNCHANGED talk
  PROVE  SessionInv'
<1> USE DEF SessionInv, Authorize
<1>1. AgentTypes'
  BY DEF AgentTypes, Places
<1>2. OneCleaner' /\ Phases' /\ Drains'
  BY DEF OneCleaner, Phases, Drains, Event, Names
<1> QED BY <1>1, <1>2

LEMMA StartSessionStep ==
  ASSUME SessionInv, StartSession, UNCHANGED talk
  PROVE  SessionInv'
<1> USE DEF SessionInv
<1>1. Event("started") \in TaskSet
  BY EventIs DEF Kinds
<1>2. bg' \in SUBSET TaskSet /\ bg \subseteq bg' /\ tracker' \in BOOLEAN
  <2>1. bg \in SUBSET TaskSet
    BY DEF AgentTypes
  <2>2. Persist(bg, Event("started"), TRUE) \in SUBSET TaskSet /\ bg \subseteq Persist(bg, Event("started"), TRUE)
    BY <1>1, <2>1, PersistIs
  <2> QED BY <2>1, <2>2 DEF StartSession, AgentTypes
<1>3. srv' \in SrvSet /\ srv'.usage = srv.usage /\ srv'.settled = srv.settled
  BY DEF StartSession, AgentTypes, SrvSet
<1>4. main = "start" /\ main' \in {"join", "finally"} /\ UNCHANGED <<shut, hooks, clean, done, holder, heart, rec, egress>>
  BY DEF StartSession
<1>5. AgentTypes'
  BY <1>2, <1>3, <1>4 DEF AgentTypes, Places
<1>6. OneCleaner' /\ Phases'
  BY <1>2, <1>3, <1>4 DEF OneCleaner, Phases, Event
<1>7. Drains'
  BY <1>3, <1>4, NotYet, DrainsIdle DEF OneCleaner
<1> QED BY <1>5, <1>6, <1>7

LEMMA JoinStep ==
  ASSUME SessionInv, Join, UNCHANGED talk
  PROVE  SessionInv'
<1> USE DEF SessionInv
<1>1. Event("recording") \in TaskSet
  BY EventIs DEF Kinds
<1>2. bg' \in SUBSET TaskSet /\ bg \subseteq bg' /\ rec' \in RecSet /\ (UNCHANGED rec \/ Event("recording") \in bg')
  BY <1>1 DEF Join, AgentTypes, RecSet
<1>3. heart' \in HeartSet /\ (UNCHANGED heart \/ main' = "wait")
  BY DEF Join, AgentTypes, HeartSet
<1>4. main = "join" /\ main' \in {"wait", "finally"} /\ UNCHANGED <<shut, tracker, clean, done, holder, egress, srv>>
      /\ hooks' \in {hooks, hooks \union {"wait"}}
  BY DEF Join
<1>5. AgentTypes'
  BY <1>2, <1>3, <1>4 DEF AgentTypes, Places
<1>6. Phases'
  BY <1>2, <1>3, <1>4, NotYet DEF Phases, Event
<1>7. OneCleaner'
  BY <1>3, <1>4, NotYet DEF OneCleaner
<1>8. Drains'
  BY <1>4, NotYet, DrainsIdle DEF OneCleaner
<1> QED BY <1>5, <1>6, <1>7, <1>8

\* The job is shut down: not early unless the call has not begun.
LEMMA ShutStep ==
  ASSUME SessionInv, shut = "no", NEW why \in {"early", "yes"}, Shut(why),
         why = "yes" => main \notin {"build", "start", "join"},
         UNCHANGED <<hooks, tracker, done, holder, rec, egress, srv, talk>>,
         heart' \in HeartSet, heart.pc # "none" <=> heart'.pc # "none", heart'.pc \in {heart.pc, "delete"},
         heart.pc \in {"none", "end"} => UNCHANGED heart,
         bg' \in SUBSET TaskSet, bg \subseteq bg', UNCHANGED bg \/ ~done
  PROVE  SessionInv'
<1> USE DEF SessionInv
<1>1. /\ clean["callback"].pc = "no" /\ shut' = why /\ main' = IF main = "wait" THEN "finally" ELSE main
      /\ clean' = clean \/ ("cleanup" \in hooks /\ Moved("callback", "lock", {}))
  BY Begins DEF OneCleaner, Shut, AgentTypes, Callers
<1>2. AgentTypes'
  BY <1>1 DEF AgentTypes, Places, Moved
<1>3. \A c \in Callers : clean'[c] = clean[c] \/ (clean'[c].pc = "lock" /\ clean[c].pc = "no" /\ "cleanup" \in hooks)
  BY <1>1 DEF Moved, Callers
<1>4. clean'["finally"] = clean["finally"] /\ (clean["finally"].pc # "no" => main = "cleanup")
  BY <1>1 DEF Moved, Callers, OneCleaner
<1>5. OneCleaner'
  BY <1>1, <1>3, <1>4 DEF OneCleaner, Cleaning, Callers
<1>6. Phases'
  BY <1>1, <1>3, <1>4 DEF Phases, OneCleaner, Callers, AgentTypes, Places, Event
<1>7. Drains'
  <2>1. CASE ~done
    <3>1. ~srv'.settled /\ \A c \in Callers : clean[c].pc \notin Cleaning /\ clean'[c].pc \notin Cleaning
      BY <1>3, <2>1 DEF OneCleaner, Cleaning
    <3> QED BY <3>1 DEF Drains, Cleaning
  <2>2. CASE UNCHANGED bg
    BY <1>3, <2>2 DEF Drains, Names
  <2> QED BY <2>1, <2>2
<1> QED BY <1>2, <1>5, <1>6, <1>7

LEMMA ShutDownStep ==
  ASSUME SessionInv, ShutDown, UNCHANGED talk
  PROVE  SessionInv'
  BY ShutStep DEF ShutDown, SessionInv, AgentTypes

LEMMA FinallyStep ==
  ASSUME SessionInv, Finally, UNCHANGED talk
  PROVE  SessionInv'
<1> USE DEF SessionInv
<1>1. /\ main = "finally" /\ main' = "cleanup" /\ Moved("finally", "lock", {})
      /\ UNCHANGED <<shut, hooks, tracker, done, holder, heart, bg, rec, egress, srv>>
  BY Begins DEF Finally, AgentTypes, Callers
<1>2. clean'["callback"] = clean["callback"] /\ clean'["finally"].pc = "lock" /\ clean["finally"].pc = "no"
  BY <1>1 DEF Moved, Callers, OneCleaner
<1>3. AgentTypes'
  BY <1>1 DEF AgentTypes, Places, Moved
<1>4. OneCleaner' /\ Phases'
  BY <1>1, <1>2 DEF OneCleaner, Phases, Callers, Cleaning, Event
<1>5. Drains'
  BY <1>1, <1>2 DEF Drains, Callers, Names
<1> QED BY <1>3, <1>4, <1>5

----------------------------------------------------------------------------
(* Billing, the background tasks and the recording                           *)

\* A step of a task that leaves the cleanup and the entrypoint alone.
LEMMA TaskStep ==
  ASSUME SessionInv, UNCHANGED <<main, shut, hooks, tracker, clean, done, holder, heart, rec, egress, srv>>,
         talk' \in TalkSet,
         bg' \in SUBSET TaskSet, Event("recording") \in bg => Event("recording") \in bg', Drains'
  PROVE  SessionInv'
<1> USE DEF SessionInv
<1>1. AgentTypes'
  BY DEF AgentTypes
<1>2. OneCleaner'
  BY DEF OneCleaner
<1>3. Phases'
  BY DEF Phases, Event
<1> QED BY <1>1, <1>2, <1>3

LEMMA PostStep ==
  ASSUME SessionInv, NEW event \in Posts, Post(event), UNCHANGED talk
  PROVE  SessionInv'
<1>1. event # Event("recording")
  BY DEF Posts, Event
<1>2. bg' \in SUBSET TaskSet /\ bg' \subseteq bg
  BY DEF SessionInv, AgentTypes, Post
<1>3. Drains'
  BY <1>2, DrainsKeep DEF SessionInv, Post
<1> QED BY <1>1, <1>2, <1>3, TaskStep DEF Post, SessionInv, AgentTypes, Phases

\* The heart goes on beating or stops; it does not begin.
LEMMA HeartStep ==
  ASSUME SessionInv, UNCHANGED <<main, shut, hooks, tracker, clean, done, holder, rec, egress, talk>>,
         heart.pc # "none", heart.pc # "end", heart' \in HeartSet, heart'.pc # "none", srv' \in SrvSet, srv'.usage = srv.usage,
         srv'.settled = srv.settled, bg' \in SUBSET TaskSet, bg \subseteq bg', UNCHANGED bg \/ ~done \/ shut = "early"
  PROVE  SessionInv'
<1> USE DEF SessionInv
<1>1. AgentTypes'
  BY DEF AgentTypes
<1>2. OneCleaner'
  BY DEF OneCleaner
<1>3. Phases'
  BY DEF Phases, Event
<1>4. Drains'
  <2>1. CASE ~done
    BY <2>1, DrainsIdle DEF OneCleaner, Cleaning, AgentTypes, CleanSet, Steps, Drains
  <2>2. CASE UNCHANGED bg
    BY <2>2 DEF Drains, Names
  <2>3. CASE shut = "early"
    BY <2>3 DEF Drains
  <2> QED BY <2>1, <2>2, <2>3
<1> QED BY <1>1, <1>2, <1>3, <1>4

LEMMA HeartbeatStep ==
  ASSUME SessionInv, Heartbeat, UNCHANGED talk
  PROVE  SessionInv'
<1> USE DEF SessionInv
<1>0. bg \in SUBSET TaskSet /\ heart \in HeartSet /\ srv \in SrvSet /\ shut \in {"no", "early", "yes"}
  BY DEF AgentTypes
<1>1. CASE Beat
  <2>1. srv' \in SrvSet /\ srv'.usage = srv.usage /\ srv'.settled = srv.settled
    BY <1>0, <1>1 DEF Beat, SrvSet
  <2>2. heart.pc = "sleep" /\ heart' \in HeartSet /\ heart'.pc = "post"
    BY <1>0, <1>1 DEF Beat, HeartSet
  <2> QED BY <1>0, <1>1, <2>1, <2>2, HeartStep DEF Beat
<1>2. CASE RoomDeleted
  <2>2. heart.pc = "delete" /\ heart' \in HeartSet /\ heart'.pc = "end"
    BY <1>0, <1>2 DEF RoomDeleted, HeartSet
  <2> QED BY <1>0, <1>2, <2>2, HeartStep DEF RoomDeleted
<1>3. CASE BeatAnswered
  <2>0. heart.pc = "post" /\ UNCHANGED <<conf, boot, hooks, tracker, done, holder, rec, egress, srv>>
    BY <1>3 DEF BeatAnswered
  <2>1. CASE heart' \in HeartSet /\ heart'.pc = "sleep" /\ UNCHANGED <<bg, shut, clean, main>>
    BY <1>0, <2>0, <2>1, HeartStep
  <2>2. CASE BillingEnds
    <3>1. heart' \in HeartSet /\ heart'.pc = "delete"
      BY <1>0, <2>2 DEF BillingEnds, HeartSet
    <3>2. bg' \in SUBSET TaskSet /\ bg \subseteq bg'
      BY <1>0, <2>2, EventIs, PersistIs DEF BillingEnds, Kinds
    <3>3. ~done \/ shut = "early"
      BY <2>0 DEF OneCleaner
    <3>4. CASE shut = "no"
      <4>1. Shut("yes")
        BY <2>2, <3>4 DEF BillingEnds
      <4>2. main \notin {"build", "start", "join"}
        BY <2>0 DEF Phases
      <4> QED BY <1>0, <2>0, <3>1, <3>2, <3>3, <3>4, <4>1, <4>2, ShutStep
    <3>5. CASE shut # "no"
      BY <1>0, <2>0, <2>2, <3>1, <3>2, <3>3, <3>5, HeartStep DEF BillingEnds
    <3> QED BY <3>4, <3>5
  <2>3. BillingEnds \/ (heart' \in HeartSet /\ heart'.pc = "sleep" /\ UNCHANGED <<bg, shut, clean, main>>)
    BY <1>0, <1>3 DEF BeatAnswered, Goes, HeartSet
  <2> QED BY <2>1, <2>2, <2>3
<1> QED BY <1>1, <1>2, <1>3 DEF Heartbeat

LEMMA RecordingStep ==
  ASSUME SessionInv, Recording, UNCHANGED talk
  PROVE  SessionInv'
<1> USE DEF SessionInv
<1>0. bg \in SUBSET TaskSet /\ rec \in RecSet /\ srv \in SrvSet
  BY DEF AgentTypes
<1>1. CASE StartRecording
  <2>1. rec' \in RecSet /\ rec.pc = "start" /\ rec'.pc = "update" /\ egress' \in {"none", "running"}
    <3>1. \A b \in BOOLEAN : [pc |-> "update", id |-> b] \in RecSet /\ [pc |-> "update", id |-> b].pc = "update"
      BY DEF RecSet
    <3>2. \E b \in BOOLEAN : rec' = [pc |-> "update", id |-> b]
      BY <1>1 DEF StartRecording
    <3>3. rec.pc = "start" /\ egress' \in {"none", "running"}
      BY <1>1 DEF StartRecording
    <3> QED BY <3>1, <3>2, <3>3
  <2>2. UNCHANGED <<main, shut, hooks, tracker, clean, done, holder, heart, bg, srv, talk>>
    BY <1>1 DEF StartRecording
  <2>3. AgentTypes' /\ OneCleaner' /\ Phases'
    BY <2>1, <2>2 DEF AgentTypes, OneCleaner, Phases, Event
  <2>4. Drains'
    BY <2>1, <2>2 DEF Drains, Names
  <2> QED BY <2>3, <2>4
<1>2. CASE UpdateRecording
  <2>1. rec' \in RecSet /\ rec.pc = "update" /\ rec'.pc = "end" /\ Event("recording") \in bg
    BY <1>0, <1>2 DEF UpdateRecording, RecSet, Phases
  <2>2. srv' \in SrvSet /\ srv'.usage = srv.usage /\ (srv'.settled => srv.settled)
    BY <1>0, <1>2 DEF UpdateRecording, SrvSet
  <2>3. UNCHANGED <<main, shut, hooks, tracker, clean, done, holder, heart, egress, talk>>
    BY <1>2 DEF UpdateRecording
  <2>4. bg' \in SUBSET TaskSet /\ bg' \subseteq bg \union {Event("recorded")}
    <3>1. bg \ {Event("recording")} \in SUBSET TaskSet
      BY <1>0
    <3> QED BY <1>2, <3>1, EventIs, PersistIs DEF UpdateRecording, Kinds
  <2>5. AgentTypes' /\ OneCleaner' /\ Phases'
    BY <2>1, <2>2, <2>3, <2>4 DEF AgentTypes, OneCleaner, Phases, Event
  <2>6. Drains'
    <3> SUFFICES ASSUME shut # "early" PROVE Drains'
      BY <2>3 DEF Drains
    <3>1. \A c \in Callers : clean[c].pc \notin {"poll", "status", "events", "drained"}
      BY <2>1, EventIs DEF Drains, Parents, Kinds
    <3>2. \A t \in bg' : t.kind \in Parents => t \in bg
      BY <2>4, EventIs DEF Parents, Kinds
    <3>3. clean' = clean /\ rec'.pc = "end"
      BY <2>1, <2>3
    <3> QED BY <3>1, <3>2, <3>3 DEF Drains
  <2> QED BY <2>5, <2>6
<1> QED BY <1>1, <1>2 DEF Recording

LEMMA EgressStep ==
  ASSUME SessionInv, EgressEnds, UNCHANGED talk
  PROVE  SessionInv'
<1> USE DEF SessionInv, EgressEnds
<1>1. AgentTypes'
  BY DEF AgentTypes
<1>2. OneCleaner' /\ Phases' /\ Drains'
  BY DEF OneCleaner, Phases, Drains, Event, Names
<1> QED BY <1>1, <1>2

----------------------------------------------------------------------------
(* The cleanup                                                              *)

\* The call of the cleanup that works goes on, keeping the lock.
LEMMA WorkStep ==
  ASSUME SessionInv, NEW c \in Callers, clean[c].pc \in Cleaning, NEW pc \in Cleaning \ {"usage"}, NEW wait,
         Moved(c, pc, wait), UNCHANGED <<main, shut, hooks, tracker, done, holder, heart, rec, talk>>,
         egress' \in {"none", "running", "complete", "failed"}, srv' \in SrvSet, bg' \in SUBSET TaskSet, bg \subseteq bg', Drains'
  PROVE  SessionInv'
<1> USE DEF SessionInv
<1>1. AgentTypes'
  BY DEF AgentTypes, Moved
<1>2. \A d \in Callers \ {c} : clean'[d] = clean[d] /\ clean[d].pc \notin Cleaning
  BY DEF Moved, OneCleaner
<1>3. \A d \in Callers : (clean[d].pc = "no" <=> clean'[d].pc = "no")
  BY <1>2 DEF Moved, Cleaning
<1>4. OneCleaner'
  <2>1. \A d \in Callers : clean'[d].pc \in Cleaning => holder' = d /\ done'
    BY <1>2 DEF OneCleaner, Moved
  <2>2. \A d \in Callers : clean'[d].pc # "usage"
    BY <1>2 DEF Moved, Cleaning
  <2>3. done /\ (done' => \E d \in Callers : clean'[d].pc # "no")
    BY DEF Moved, Cleaning, OneCleaner
  <2> QED BY <1>3, <2>1, <2>2, <2>3 DEF OneCleaner, Callers
<1>5. Phases'
  BY <1>3 DEF Phases, Event
<1> QED BY <1>1, <1>4, <1>5

\* The lock is free: the cleanup is done already, or begins.
LEMMA CleanStartStep ==
  ASSUME SessionInv, NEW c \in Callers, CleanStart(c), UNCHANGED talk
  PROVE  SessionInv'
<1> USE DEF SessionInv
<1>0. /\ clean[c].pc = "lock" /\ holder = "none" /\ clean \in [Callers -> CleanSet] /\ heart \in HeartSet
      /\ UNCHANGED <<main, shut, hooks, tracker, bg, rec, egress, srv>>
  BY DEF CleanStart, AgentTypes
<1>1. \A d \in Callers : clean[d].pc \notin Cleaning
  BY <1>0 DEF OneCleaner, Callers
<1>2. PICK pc \in {"end", "usage"} :
        Moved(c, pc, {}) /\ IF done THEN pc = "end" /\ UNCHANGED <<done, holder, heart>>
                            ELSE pc = "usage" /\ done' = TRUE /\ holder' = c /\ heart' \in HeartSet
                                 /\ heart'.pc = IF heart.pc = "none" THEN "none" ELSE "end"
  <2>1. CASE done
    BY <1>0, <2>1, MovesOn DEF CleanStart, Steps
  <2>2. CASE ~done
    <3>1. Moved(c, "usage", {}) /\ done' = TRUE /\ holder' = c
      BY <1>0, <2>2, MovesOn DEF CleanStart, Steps, Cleaning
    <3>2. heart' \in HeartSet /\ heart'.pc = IF heart.pc = "none" THEN "none" ELSE "end"
      BY <1>0, <2>2 DEF CleanStart, HeartSet
    <3> QED BY <2>2, <3>1, <3>2
  <2> QED BY <2>1, <2>2
<1>3. AgentTypes'
  BY <1>0, <1>2 DEF AgentTypes, Moved
<1>4. clean'[c].pc = pc /\ \A d \in Callers \ {c} : clean'[d] = clean[d]
  BY <1>2 DEF Moved
<1>5. \A d \in Callers : (clean[d].pc = "no" <=> clean'[d].pc = "no")
  BY <1>0, <1>4
<1>6. OneCleaner'
  <2>1. \A d \in Callers : /\ clean'[d].pc \in Cleaning => holder' = d /\ done'
                           /\ clean'[d].pc = "usage" => srv'.usage = 0
    <3>1. ~done => srv.usage = 0
      BY DEF OneCleaner, AgentTypes, SrvSet
    <3> QED BY <1>0, <1>1, <1>2, <1>4, <3>1 DEF Cleaning
  <2>2. done' => \E d \in Callers : clean'[d].pc # "no"
    BY <1>2, <1>4
  <2>3. (done' /\ shut' # "early") => heart'.pc \in {"none", "end"}
    BY <1>0, <1>2 DEF OneCleaner
  <2>4. (srv'.usage = 1 \/ srv'.settled) => done'
    BY <1>0, <1>2 DEF OneCleaner
  <2> QED BY <1>0, <1>5, <2>1, <2>2, <2>3, <2>4 DEF OneCleaner, Callers
<1>7. Phases'
  <2>1. heart'.pc # "none" => heart.pc # "none"
    BY <1>2
  <2> QED BY <1>0, <1>5, <2>1 DEF Phases, Event
<1>8. Drains'
  <2>1. \A d \in Callers : clean'[d].pc \notin {"drain", "poll", "status", "events", "drained"}
    BY <1>1, <1>4 DEF Cleaning
  <2> QED BY <1>0, <2>1 DEF Drains
<1> QED BY <1>3, <1>6, <1>7, <1>8

\* The lock is released.
LEMMA CleanCallStep ==
  ASSUME SessionInv, NEW c \in Callers, CleanCall(c), UNCHANGED talk
  PROVE  SessionInv'
<1> USE DEF SessionInv
<1>0. /\ clean[c].pc = "call" /\ holder' = "none" /\ clean \in [Callers -> CleanSet] /\ srv \in SrvSet
      /\ UNCHANGED <<main, shut, hooks, tracker, done, heart, bg, rec, egress>>
  BY DEF CleanCall, AgentTypes
<1>1. holder = c /\ done
  BY <1>0 DEF OneCleaner, Cleaning
<1>2. Moved(c, "end", {})
  BY <1>0, MovesOn DEF CleanCall, Steps
<1>3. srv' \in SrvSet /\ srv'.usage = srv.usage /\ srv'.settled = srv.settled
  BY <1>0 DEF CleanCall, SrvSet
<1>4. clean'[c].pc = "end" /\ \A d \in Callers \ {c} : clean'[d] = clean[d] /\ clean'[d].pc \notin Cleaning
  BY <1>1, <1>2 DEF Moved, OneCleaner
<1>5. \A d \in Callers : (clean[d].pc = "no" <=> clean'[d].pc = "no") /\ clean'[d].pc \notin Cleaning
  BY <1>0, <1>4 DEF Cleaning
<1>6. AgentTypes'
  BY <1>0, <1>2, <1>3 DEF AgentTypes, Moved
<1>7. OneCleaner'
  BY <1>0, <1>1, <1>3, <1>5 DEF OneCleaner, Callers, Cleaning
<1>8. Phases'
  BY <1>0, <1>5 DEF Phases, Event
<1>9. Drains'
  BY <1>0, <1>3, <1>5 DEF Drains, Cleaning
<1> QED BY <1>6, <1>7, <1>8, <1>9

\* Only the call that works drains.
LEMMA DrainsOf ==
  ASSUME SessionInv, NEW c \in Callers, clean[c].pc \in Cleaning, NEW pc, NEW wait, Moved(c, pc, wait),
         shut' # "early" =>
           /\ \A t \in bg' : ~t.late =>
                /\ pc = "drain" /\ t.kind \in Parents => <<t.kind, t.item, t.late>> \in wait
                /\ pc \in {"poll", "status", "events", "drained"} => t.kind \notin Parents
                /\ pc = "drained" => <<t.kind, t.item, t.late>> \in wait
           /\ srv'.settled => rec'.pc \in {"none", "end"}
  PROVE  Drains'
<1>1. clean'[c].pc = pc /\ clean'[c].wait = wait
  BY DEF Moved
<1>2. \A d \in Callers \ {c} : clean'[d].pc \notin Cleaning
  BY DEF Moved, SessionInv, OneCleaner
<1>3. \A d \in Callers \ {c} : clean'[d].pc \notin {"drain", "poll", "status", "events", "drained"}
  BY <1>2 DEF Cleaning
<1> QED BY <1>1, <1>3 DEF Drains

\* When the tasks waited for are gone, none of those that are to be waited for is left.
LEMMA Gone ==
  ASSUME SessionInv, NEW c \in Callers, Drained(c), NEW t \in bg
  PROVE  <<t.kind, t.item, t.late>> \notin clean[c].wait
  BY NamesAre DEF Drained, SessionInv, AgentTypes

LEMMA CleanUsageStep ==
  ASSUME SessionInv, NEW c \in Callers, CleanUsage(c), UNCHANGED talk
  PROVE  SessionInv'
<1> USE DEF SessionInv
<1>0. /\ clean[c].pc = "usage" /\ clean \in [Callers -> CleanSet] /\ srv \in SrvSet /\ bg \in SUBSET TaskSet
      /\ egress \in {"none", "running", "complete", "failed"}
      /\ UNCHANGED <<main, shut, hooks, tracker, done, holder, heart, bg, rec, egress>>
  BY DEF CleanUsage, AgentTypes
<1>1. Moved(c, "drain", Names(bg))
  BY <1>0, MovesToDrain DEF CleanUsage, Steps, Cleaning
<1>2. srv.usage = 0 /\ clean[c].pc \in Cleaning
  BY <1>0 DEF OneCleaner, Cleaning
<1>3. srv' \in SrvSet /\ srv'.settled = srv.settled
  BY <1>0, <1>2 DEF CleanUsage, SrvSet
<1>4. Drains'
  BY <1>0, <1>1, <1>2, <1>3, DrainsOf, NamesAre DEF Drains
<1> QED BY <1>0, <1>1, <1>2, <1>3, <1>4, WorkStep DEF Cleaning

LEMMA CleanStopStep ==
  ASSUME SessionInv, NEW c \in Callers, CleanStop(c), UNCHANGED talk
  PROVE  SessionInv'
<1> USE DEF SessionInv
<1>0. /\ clean[c].pc = "drain" /\ Drained(c) /\ clean \in [Callers -> CleanSet] /\ srv \in SrvSet /\ bg \in SUBSET TaskSet
      /\ egress' \in {"none", "running", "complete", "failed"}
      /\ UNCHANGED <<main, shut, hooks, tracker, done, holder, heart, bg, rec, srv>>
  BY DEF CleanStop, AgentTypes
<1>1. PICK pc \in {"poll", "events"} : Moved(c, pc, {})
  BY <1>0, MovesOn DEF CleanStop, Steps, Cleaning
<1>2. clean[c].pc \in Cleaning
  BY <1>0 DEF Cleaning
<1>3. shut # "early" => \A t \in bg : ~t.late => t.kind \notin Parents
  BY <1>0, Gone DEF Drains
<1>4. Drains'
  BY <1>0, <1>1, <1>2, <1>3, DrainsOf DEF Drains
<1> QED BY <1>0, <1>1, <1>2, <1>4, WorkStep DEF Cleaning

LEMMA CleanPollStep ==
  ASSUME SessionInv, NEW c \in Callers, CleanPoll(c), UNCHANGED talk
  PROVE  SessionInv'
<1> USE DEF SessionInv
<1>0. /\ clean[c].pc = "poll" /\ clean \in [Callers -> CleanSet] /\ srv \in SrvSet /\ bg \in SUBSET TaskSet
      /\ egress \in {"none", "running", "complete", "failed"}
      /\ UNCHANGED <<main, shut, hooks, tracker, done, holder, heart, bg, rec, egress, srv>>
  BY DEF CleanPoll, AgentTypes
<1>1. Moved(c, "status", clean[c].wait)
  <2>1. PICK r \in Results : clean' = [clean EXCEPT ![c].pc = "status", ![c].result = r]
    BY DEF CleanPoll
  <2>2. r \in {"none", "unavailable", "processing", "available", "failed"}
    BY DEF Results
  <2> DEFINE w == [clean[c] EXCEPT !.pc = "status", !.result = r]
  <2>3. clean[c] \in CleanSet
    BY <1>0
  <2>4. w \in CleanSet /\ w.pc = "status" /\ w.wait = clean[c].wait
    BY <2>2, <2>3 DEF CleanSet, Steps, Cleaning
  <2>5. clean' = [clean EXCEPT ![c] = w]
    BY <2>1, <2>3 DEF CleanSet
  <2> HIDE DEF w
  <2> QED BY <1>0, <2>4, <2>5 DEF Moved
<1>2. clean[c].pc \in Cleaning
  BY <1>0 DEF Cleaning
<1>4. Drains'
  BY <1>0, <1>1, <1>2, DrainsOf DEF Drains
<1> QED BY <1>0, <1>1, <1>2, <1>4, WorkStep DEF Cleaning

LEMMA CleanStatusStep ==
  ASSUME SessionInv, NEW c \in Callers, CleanStatus(c), UNCHANGED talk
  PROVE  SessionInv'
<1> USE DEF SessionInv
<1>0. /\ clean[c].pc = "status" /\ clean \in [Callers -> CleanSet] /\ srv \in SrvSet /\ bg \in SUBSET TaskSet
      /\ egress \in {"none", "running", "complete", "failed"} /\ rec \in RecSet
      /\ UNCHANGED <<main, shut, hooks, tracker, done, holder, heart, bg, rec, egress>>
  BY DEF CleanStatus, AgentTypes
<1>1. Moved(c, "events", {})
  BY <1>0, MovesOn DEF CleanStatus, Steps, Cleaning
<1>2. clean[c].pc \in Cleaning
  BY <1>0 DEF Cleaning
<1>3. srv' \in SrvSet
  <2>1. clean[c] \in CleanSet
    BY <1>0
  <2>2. clean[c].result \in {"none", "recording", "unavailable", "processing", "available", "failed"}
    BY <2>1 DEF CleanSet
  <2> QED BY <1>0, <2>2 DEF CleanStatus, SrvSet
<1>4. shut # "early" => (\A t \in bg : ~t.late => t.kind \notin Parents) /\ rec.pc \in {"none", "end"}
  <2>1. shut # "early" => \A t \in bg : ~t.late => t.kind \notin Parents
    BY <1>0 DEF Drains
  <2>2. shut # "early" => Event("recording") \notin bg
    BY <2>1, EventIs DEF Parents, Kinds
  <2> QED BY <1>0, <2>1, <2>2 DEF Phases, RecSet
<1>5. Drains'
  BY <1>0, <1>1, <1>2, <1>4, DrainsOf
<1> QED BY <1>0, <1>1, <1>2, <1>3, <1>5, WorkStep DEF Cleaning

LEMMA CleanEventsStep ==
  ASSUME SessionInv, NEW c \in Callers, CleanEvents(c), UNCHANGED talk
  PROVE  SessionInv'
<1> USE DEF SessionInv
<1>0. /\ clean[c].pc = "events" /\ clean \in [Callers -> CleanSet] /\ srv \in SrvSet /\ bg \in SUBSET TaskSet
      /\ egress \in {"none", "running", "complete", "failed"}
      /\ UNCHANGED <<main, shut, hooks, tracker, done, holder, heart, rec, egress, srv>>
  BY DEF CleanEvents, AgentTypes
<1>1. bg' \in SUBSET TaskSet /\ bg \subseteq bg' /\ bg' \subseteq bg \union {Event("ready"), Event("ended")}
  <2> DEFINE S == IF Recorded(c) THEN Persist(bg, Event("ready"), tracker) ELSE bg
  <2>1. S \in SUBSET TaskSet /\ bg \subseteq S /\ S \subseteq bg \union {Event("ready")}
    BY <1>0, EventIs, PersistIs DEF Kinds
  <2>2. bg' = Persist(S, Event("ended"), tracker)
    BY DEF CleanEvents
  <2> HIDE DEF S
  <2>3. bg' \in SUBSET TaskSet /\ S \subseteq bg' /\ bg' \subseteq S \union {Event("ended")}
    BY <2>1, <2>2, EventIs, PersistIs DEF Kinds
  <2> QED BY <2>1, <2>3
<1>2. Moved(c, "drained", Names(bg'))
  BY <1>0, <1>1, MovesToDrain DEF CleanEvents, Steps, Cleaning
<1>3. clean[c].pc \in Cleaning
  BY <1>0 DEF Cleaning
<1>4. shut # "early" => \A t \in bg' : ~t.late => t.kind \notin Parents
  BY <1>0, <1>1, EventIs DEF Drains, Parents, Kinds
<1>5. \A t \in bg' : <<t.kind, t.item, t.late>> \in Names(bg')
  BY <1>1, NamesAre
<1>6. Drains'
  BY <1>0, <1>2, <1>3, <1>4, <1>5, DrainsOf DEF Drains
<1> QED BY <1>0, <1>1, <1>2, <1>3, <1>6, WorkStep DEF Cleaning

LEMMA CleanEndStep ==
  ASSUME SessionInv, NEW c \in Callers, CleanEnd(c), UNCHANGED talk
  PROVE  SessionInv'
<1> USE DEF SessionInv
<1>0. /\ clean[c].pc = "drained" /\ clean \in [Callers -> CleanSet] /\ srv \in SrvSet /\ bg \in SUBSET TaskSet
      /\ egress \in {"none", "running", "complete", "failed"}
      /\ UNCHANGED <<main, shut, hooks, tracker, done, holder, heart, bg, rec, egress>>
  BY DEF CleanEnd, AgentTypes
<1>1. Moved(c, "call", {})
  BY <1>0, MovesOn DEF CleanEnd, Steps, Cleaning
<1>2. clean[c].pc \in Cleaning
  BY <1>0 DEF Cleaning
<1>3. srv' \in SrvSet /\ srv'.settled = srv.settled
  BY <1>0 DEF CleanEnd, SrvSet
<1>4. Drains'
  BY <1>0, <1>1, <1>2, <1>3, DrainsOf DEF Drains
<1> QED BY <1>0, <1>1, <1>2, <1>3, <1>4, WorkStep DEF Cleaning

----------------------------------------------------------------------------
(* The conversation                                                         *)

LEMMA TaskIs ==
  ASSUME NEW k \in Kinds, NEW i \in Nat, NEW a \in Int
  PROVE  Task(k, i, a) \in TaskSet /\ Task(k, i, a).kind = k /\ Task(k, i, a).item = i /\ Task(k, i, a).late = TooLate
<1>1. TooLate \in BOOLEAN
  BY DEF TooLate
<1> QED BY <1>1 DEF Task, TaskSet

\* Where nothing has begun to drain no task is waited for; later a handler only
\* starts tasks that come too late.
LEMMA HandlerStep ==
  ASSUME SessionInv, Same, talk' \in TalkSet, NEW T \in SUBSET TaskSet, \A t \in T : t.late = TooLate,
         bg \subseteq bg', bg' \subseteq bg \union T
  PROVE  SessionInv'
<1>0. bg' \in SUBSET TaskSet
  BY DEF SessionInv, AgentTypes
<1>1. Drains'
  <2> SUFFICES ASSUME shut # "early" PROVE Drains'
    BY DEF Drains, Same
  <2>1. clean' = clean /\ (srv'.settled => rec'.pc \in {"none", "end"})
    BY DEF Drains, Same, SessionInv
  <2>2. CASE TooLate
    <3>1. \A t \in bg' : ~t.late => t \in bg
      BY <2>2
    <3> QED BY <2>1, <3>1 DEF Drains, SessionInv
  <2>3. CASE ~TooLate
    <3>1. \A c \in Callers : clean'[c].pc \notin {"drain", "poll", "status", "events", "drained"}
      BY <2>1, <2>3 DEF TooLate
    <3> QED BY <2>1, <3>1 DEF Drains
  <2> QED BY <2>2, <2>3
<1> QED BY <1>0, <1>1, TaskStep DEF Same

LEMMA ConversationStep ==
  ASSUME SessionInv, Conversation
  PROVE  SessionInv'
<1> USE DEF SessionInv
<1>0. bg \in SUBSET TaskSet /\ talk \in TalkSet
  BY DEF AgentTypes
<1>i. talk.items \in Nat /\ talk.items + 1 \in Nat /\ talk.turn \in Nat /\ talk.turn + 1 \in Nat /\ talk.user \in Nat
  BY <1>0 DEF TalkSet
<1>r. \A a, i \in Nat : Refresh(a, i) \in SUBSET TaskSet /\ \A t \in Refresh(a, i) : t.late = TooLate
  BY TaskIs DEF Refresh, Kinds
<1>s. \A k \in {"message", "answer"}, i \in Nat : Save(k, i) \in SUBSET TaskSet /\ \A t \in Save(k, i) : t.late = TooLate
  BY TaskIs DEF Save, Kinds
<1>n. {} \in SUBSET TaskSet
  OBVIOUS
<1>1. CASE UserInputTranscribed
  <2>1. talk' \in TalkSet
    BY <1>0, <1>i, <1>1 DEF UserInputTranscribed, TalkSet
  <2>2. bg' = bg \union Refresh(talk.items + 1, talk.items + 1) /\ Same
    BY <1>1 DEF UserInputTranscribed
  <2> QED BY <1>i, <1>r, <2>1, <2>2, HandlerStep
<1>2. ASSUME NEW merged \in BOOLEAN, UserItemAdded(merged) PROVE SessionInv'
  <2> DEFINE content == IF merged THEN talk.items + 1 ELSE talk.user
  <2>1. content \in Nat
    BY <1>i
  <2>2. /\ talk' = [talk EXCEPT !.items = talk.items + 1, !.turn = IF merged THEN @ + 1 ELSE @, !.user = content]
        /\ bg' = bg \union Save("message", talk.items + 1) \union Refresh(content, talk.items + 1)
    BY <1>2 DEF UserItemAdded
  <2> HIDE DEF content
  <2>3. talk' \in TalkSet
    BY <1>0, <1>i, <2>1, <2>2 DEF TalkSet
  <2> DEFINE T == Save("message", talk.items + 1) \union Refresh(content, talk.items + 1)
  <2>4. T \in SUBSET TaskSet /\ \A t \in T : t.late = TooLate
    BY <1>i, <1>r, <1>s, <2>1
  <2>5. bg' = bg \union T /\ Same
    BY <1>2, <2>2 DEF UserItemAdded
  <2> HIDE DEF T
  <2> QED BY <2>3, <2>4, <2>5, HandlerStep
<1>3. ASSUME NEW claim \in Claims, NEW repeats \in BOOLEAN, AssistantItemAdded(claim, repeats) PROVE SessionInv'
  <2> DEFINE claims == IF claim = "none" THEN {} ELSE {Task(claim, talk.items + 1, -1)}
  <2>1. claims \in SUBSET TaskSet /\ \A t \in claims : t.late = TooLate
    <3>1. -1 \in Int /\ (claim # "none" => claim \in Kinds)
      BY DEF Claims, Kinds
    <3> QED BY <1>i, <3>1, TaskIs
  <2>2. /\ talk' = [talk EXCEPT !.items = talk.items + 1, !.saved = @ \/ (~repeats /\ ~conf.service)]
        /\ bg' = IF repeats THEN bg ELSE bg \union Save("answer", talk.items + 1) \union claims
    BY <1>3 DEF AssistantItemAdded
  <2> HIDE DEF claims
  <2>3. talk' \in TalkSet
    BY <1>0, <1>i, <2>2 DEF TalkSet
  <2> DEFINE T == Save("answer", talk.items + 1) \union claims
  <2>4. T \in SUBSET TaskSet /\ \A t \in T : t.late = TooLate
    BY <1>i, <1>s, <2>1
  <2>5. bg \subseteq bg' /\ bg' \subseteq bg \union T /\ Same
    BY <1>3, <2>2 DEF AssistantItemAdded
  <2> HIDE DEF T
  <2> QED BY <2>3, <2>4, <2>5, HandlerStep
<1>4. ASSUME NEW same \in BOOLEAN, CreateTicket(same) PROVE SessionInv'
  <2>1. talk' \in TalkSet
    BY <1>0, <1>i, <1>4 DEF CreateTicket, TalkSet
  <2>2. bg' = bg /\ Same
    BY <1>4 DEF CreateTicket
  <2> QED BY <1>n, <2>1, <2>2, HandlerStep
<1>5. CASE CreateTicketAnswered
  <2>1. talk' \in TalkSet
    <3>2. talk.turn \in Int
      BY <1>i
    <3>3. [talk EXCEPT !.tool = "done"] \in TalkSet
      BY <1>0 DEF TalkSet
    <3>4. [talk EXCEPT !.tool = "done", !.ticketTurn = talk.turn, !.result = "record"] \in TalkSet
      BY <1>0, <3>2 DEF TalkSet
    <3> QED BY <1>5, <3>3, <3>4 DEF CreateTicketAnswered
  <2>2. bg' = bg /\ Same
    BY <1>5 DEF CreateTicketAnswered
  <2> QED BY <1>n, <2>1, <2>2, HandlerStep
<1>6. CASE ToolsExecuted
  <2>1. talk' \in TalkSet
    <3>1. talk' = [talk EXCEPT !.tool = "no", !.ticketTurn = talk.turn, !.result = "text"]
      BY <1>6 DEF ToolsExecuted
    <3>2. talk.turn \in Int
      BY <1>i
    <3> QED BY <1>0, <3>1, <3>2 DEF TalkSet
  <2> DEFINE u == Task("told", talk.items, 0)
  <2>2. u \in TaskSet /\ u.late = TooLate
    <3>1. "told" \in Kinds /\ 0 \in Int
      BY DEF Kinds
    <3> QED BY <1>i, <3>1, TaskIs
  <2>3. bg' = Persist(bg, u, tracker) /\ Same
    BY <1>6 DEF ToolsExecuted
  <2> HIDE DEF u
  <2>4. bg \subseteq bg' /\ bg' \subseteq bg \union {u}
    BY <1>0, <2>2, <2>3, PersistIs
  <2>5. {u} \in SUBSET TaskSet /\ \A t \in {u} : t.late = TooLate
    BY <2>2
  <2> QED BY <2>1, <2>3, <2>4, <2>5, HandlerStep
<1>7. ASSUME NEW c, NEW allowed \in BOOLEAN, Replies(c, allowed) PROVE SessionInv'
  <2>1. UNCHANGED <<svars, talk>>
    BY <1>7 DEF Replies
  <2> QED BY <2>1 DEF svars, bvars, AgentTypes, OneCleaner, Phases, Drains, Event, Names
<1> QED BY <1>1, <1>2, <1>3, <1>4, <1>5, <1>6, <1>7 DEF Conversation

LEMMA WorkingStep ==
  ASSUME SessionInv, NEW t \in bg, Work(t)
  PROVE  SessionInv'
<1> USE DEF SessionInv
<1>0. bg \in SUBSET TaskSet /\ talk \in TalkSet /\ t \in TaskSet /\ tracker \in BOOLEAN
  BY DEF AgentTypes
<1>1. Same /\ t.kind # "recording" /\ Event("recording") # t
  BY EventIs DEF Work, Refreshed, Written, Reconcile, Reconciled, Kinds
<1>2. talk' \in TalkSet
  <2>1. CASE Refreshed(t)
    <3>1. t.about \in Int
      BY <1>0 DEF TaskSet
    <3> QED BY <1>0, <2>1, <3>1 DEF Refreshed, TalkSet
  <2>2. CASE Written(t)
    BY <1>0, <2>2 DEF Written, TalkSet
  <2>3. CASE Reconcile(t)
    BY <1>0, <2>3 DEF Reconcile
  <2>4. CASE Reconciled(t)
    BY <1>0, <2>4 DEF Reconciled, TalkSet, TaskSet
  <2> QED BY <2>1, <2>2, <2>3, <2>4 DEF Work
<1>3. CASE bg' = bg \ {t}
  <2>1. Drains'
    BY <1>0, <1>1, <1>3, DrainsKeep DEF Same
  <2> QED BY <1>0, <1>1, <1>2, <1>3, <2>1, TaskStep DEF Same
<1>4. CASE Reconcile(t)
  <2> DEFINE u == [t EXCEPT !.about = talk.turn]
  <2>1. u \in TaskSet /\ u.kind = t.kind /\ u.item = t.item /\ u.late = t.late
    BY <1>0 DEF TaskSet, TalkSet
  <2>2. bg' = bg \ {t} \/ bg' = (bg \ {t}) \union {u}
    BY <1>4 DEF Reconcile
  <2> HIDE DEF u
  <2>3. bg' \in SUBSET TaskSet /\ \A v \in bg' : \E w \in bg : w.kind = v.kind /\ w.item = v.item /\ w.late = v.late
    BY <1>0, <2>1, <2>2
  <2>4. Drains'
    BY <1>1, <2>3, DrainsKeep DEF Same
  <2> QED BY <1>1, <1>2, <2>2, <2>3, <2>4, TaskStep DEF Same
<1>5. CASE t.kind \in {"reconcile", "update"} /\ bg' = Persist(bg \ {t}, [t EXCEPT !.kind = "opened", !.about = 0], tracker)
  <2> DEFINE u == [t EXCEPT !.kind = "opened", !.about = 0]
  <2>1. u \in TaskSet /\ u.kind = "opened" /\ u.late = t.late
    <3>1. "opened" \in Kinds /\ 0 \in Int
      BY DEF Kinds
    <3>2. [t EXCEPT !.kind = "opened"] \in TaskSet
      BY <1>0, <3>1 DEF TaskSet
    <3> QED BY <1>0, <3>1, <3>2 DEF TaskSet
  <2>2. bg' \in SUBSET TaskSet /\ bg \ {t} \subseteq bg' /\ bg' \subseteq bg \union {u}
    BY <1>0, <1>5, <2>1, PersistIs
  <2> HIDE DEF u
  <2>3. Drains'
    <3> SUFFICES ASSUME shut # "early" PROVE Drains'
      BY <1>1 DEF Drains, Same
    <3>0. clean' = clean /\ rec' = rec /\ srv' = srv
      BY <1>1 DEF Same
    <3>1. ~t.late => \A c \in Callers : clean[c].pc \notin {"poll", "status", "events", "drained"}
      BY <1>5 DEF Drains, Parents
    <3>2. \A v \in bg' : v \in bg \/ (v.kind \notin Parents /\ v.late = t.late)
      BY <2>1, <2>2 DEF Parents
    <3> QED BY <3>0, <3>1, <3>2 DEF Drains
  <2> QED BY <1>1, <1>2, <2>2, <2>3, TaskStep DEF Same
<1> QED BY <1>3, <1>4, <1>5 DEF Work, Refreshed, Written, Reconciled

----------------------------------------------------------------------------
(* The theorems                                                             *)

LEMMA AgentInvNext == AgentInv /\ [Next]_vars => AgentInv'
<1> SUFFICES ASSUME AgentInv, [Next]_vars PROVE AgentInv'
  OBVIOUS
<1>0. SessionInv /\ Known /\ IdentityKept
  BY DEF AgentInv, SessionInv
<1>1. SessionInv' /\ Known' /\ IdentityKept' => AgentInv'
  BY DEF AgentInv, SessionInv
<1>2. CASE UNCHANGED vars
  <2>1. UNCHANGED <<conf, boot, main, talk, rest>>
    BY <1>2 DEF vars, svars, bvars, tvars, rest
  <2>2. SessionInv'
    BY <1>0, <2>1 DEF rest, SessionInv, AgentTypes, OneCleaner, Phases, Drains, Event, Names
  <2> QED BY <1>0, <1>1, <2>1, <2>2, BootStays
<1>3. CASE SessionNext /\ UNCHANGED tvars
  <2>0. UNCHANGED talk
    BY <1>3 DEF tvars
  <2>1. CASE Prepare \/ (Joins /\ UNCHANGED <<shut, hooks, tracker, clean, done, holder, heart, bg, rec, egress, srv>>)
    <3>1. (Setup \/ Joins) /\ UNCHANGED rest
      BY <2>0, <2>1 DEF Prepare, rest
    <3> QED BY <1>0, <1>1, <3>1, PrepareStep, SetupKeeps
  <2>2. CASE Authorize
    <3>1. Known' /\ IdentityKept'
      BY <1>0, <2>2, BootStays DEF Authorize
    <3> QED BY <1>0, <1>1, <2>0, <2>2, <3>1, AuthorizeStep
  <2>3. CASE StartSession
    <3>1. Known' /\ IdentityKept'
      BY <1>0, <2>3, BootStays DEF StartSession
    <3> QED BY <1>0, <1>1, <2>0, <2>3, <3>1, StartSessionStep
  <2>4. CASE Join
    <3>1. Known' /\ IdentityKept'
      BY <1>0, <2>4, BootStays DEF Join
    <3> QED BY <1>0, <1>1, <2>0, <2>4, <3>1, JoinStep
  <2>5. CASE Finally
    <3>1. Known' /\ IdentityKept'
      BY <1>0, <2>5, BootStays DEF Finally
    <3> QED BY <1>0, <1>1, <2>0, <2>5, <3>1, FinallyStep
  <2>6. CASE ShutDown
    <3>1. Known' /\ IdentityKept'
      BY <1>0, <2>6, BootStays DEF ShutDown, Shut
    <3> QED BY <1>0, <1>1, <2>0, <2>6, <3>1, ShutDownStep
  <2>7. CASE Heartbeat
    <3>1. UNCHANGED <<conf, boot>> /\ (UNCHANGED main \/ (main = "wait" /\ main' = "finally"))
      BY <2>7 DEF Heartbeat, Beat, BeatAnswered, RoomDeleted, Goes, BillingEnds, Shut
    <3>2. Known' /\ IdentityKept'
      BY <1>0, <3>1, BootStays
    <3> QED BY <1>0, <1>1, <2>0, <2>7, <3>2, HeartbeatStep
  <2>8. CASE Recording
    <3>1. Known' /\ IdentityKept'
      BY <1>0, <2>8, BootStays DEF Recording, StartRecording, UpdateRecording
    <3> QED BY <1>0, <1>1, <2>0, <2>8, <3>1, RecordingStep
  <2>9. CASE EgressEnds
    <3>1. Known' /\ IdentityKept'
      BY <1>0, <2>9, BootStays DEF EgressEnds
    <3> QED BY <1>0, <1>1, <2>0, <2>9, <3>1, EgressStep
  <2>10. ASSUME NEW event \in Posts, Post(event) PROVE AgentInv'
    <3>1. Known' /\ IdentityKept'
      BY <1>0, <2>10, BootStays DEF Post
    <3> QED BY <1>0, <1>1, <2>0, <2>10, <3>1, PostStep
  <2>11. ASSUME NEW c \in Callers, Cleanup(c) PROVE AgentInv'
    <3>1. Known' /\ IdentityKept'
      BY <1>0, <2>11, BootStays DEF Cleanup, CleanStart, CleanUsage, CleanStop, CleanPoll, CleanStatus, CleanEvents, CleanEnd, CleanCall
    <3> QED BY <1>0, <1>1, <2>0, <2>11, <3>1, CleanStartStep, CleanUsageStep, CleanStopStep, CleanPollStep, CleanStatusStep,
               CleanEventsStep, CleanEndStep, CleanCallStep DEF Cleanup
  <2> QED BY <1>3, <2>1, <2>2, <2>3, <2>4, <2>5, <2>6, <2>7, <2>8, <2>9, <2>10, <2>11 DEF SessionNext, Entrypoint
<1>4. CASE Conversation
  <2>1. UNCHANGED <<conf, boot, main>>
    BY <1>4 DEF Conversation, UserInputTranscribed, CreateTicketAnswered, ToolsExecuted, CreateTicket, UserItemAdded,
                AssistantItemAdded, Replies, Same, svars, bvars
  <2>2. Known' /\ IdentityKept'
    BY <1>0, <2>1, BootStays
  <2> QED BY <1>0, <1>1, <1>4, <2>2, ConversationStep
<1>5. CASE Working
  <2>1. PICK t \in bg : Work(t)
    BY <1>5 DEF Working
  <2>2. UNCHANGED <<conf, boot, main>>
    BY <2>1 DEF Work, Refreshed, Written, Reconcile, Reconciled, Same
  <2>3. Known' /\ IdentityKept'
    BY <1>0, <2>2, BootStays
  <2> QED BY <1>0, <1>1, <2>1, <2>3, WorkingStep
<1> QED BY <1>2, <1>3, <1>4, <1>5 DEF Next

\* AgentInv holds in every reachable state of the agent's job.
THEOREM AgentInvariance == Spec => []AgentInv
  BY AgentInvInit, AgentInvNext, PTL DEF Spec

\* Whose call it is does not change with who joins (_init_session_userdata),
\* and the voice is the configured one or of the call's language
\* (_build_tts_engine_for_language), for every configuration.
THEOREM IdentityKeptHolds == Spec => []IdentityKept
<1>1. AgentInv => IdentityKept
  BY DEF AgentInv
<1> QED BY <1>1, AgentInvariance, PTL

\* What one step of the agent may do to what its services were told.
LEMMA EndIsFinalStep ==
  ASSUME AgentInv, AgentInv', Next
  PROVE  /\ srv'.usage <= 1
         /\ shut # "early" =>
              /\ srv.usage = 1 => srv'.beats = srv.beats
              /\ srv'.session = "ended" /\ srv.session # "ended" => \A t \in bg : t.late
              /\ srv.settled => srv'.settled
<1>0. SessionInv /\ srv \in SrvSet /\ srv' \in SrvSet
  BY DEF AgentInv, SessionInv, AgentTypes
<1>1. srv'.usage <= 1
  <2>1. srv'.usage \in {0, 1}
    BY <1>0 DEF SrvSet
  <2> QED BY <2>1
<1>2. ASSUME shut # "early", srv' # srv
      PROVE  /\ srv.usage = 1 => srv'.beats = srv.beats
             /\ srv'.session = "ended" /\ srv.session # "ended" => \A t \in bg : t.late
             /\ srv.settled => srv'.settled
  <2>1. StartSession \/ Beat \/ UpdateRecording \/ \E c \in Callers : CleanUsage(c) \/ CleanStatus(c) \/ CleanEnd(c) \/ CleanCall(c)
    BY <1>2 DEF Next, SessionNext, Entrypoint, Prepare, Authorize, Join, Finally, ShutDown, Heartbeat, BeatAnswered, RoomDeleted,
      Recording, StartRecording, EgressEnds, Post, Cleanup, CleanStart, CleanStop, CleanPoll, CleanEvents,
      Conversation, UserInputTranscribed, CreateTicketAnswered, ToolsExecuted, CreateTicket, UserItemAdded, AssistantItemAdded,
      Replies, Same, svars, Working, Work, Refreshed, Written, Reconcile, Reconciled
  <2>2. CASE StartSession
    BY <1>0, <2>2 DEF StartSession, SrvSet
  <2>3. CASE Beat
    <3>1. srv.usage # 1
      BY <1>0, <1>2, <2>3 DEF Beat, SessionInv, OneCleaner
    <3> QED BY <1>0, <2>3, <3>1 DEF Beat, SrvSet
  <2>4. CASE UpdateRecording
    <3>1. ~srv.settled
      BY <1>0, <1>2, <2>4 DEF UpdateRecording, SessionInv, Drains
    <3> QED BY <1>0, <2>4, <3>1 DEF UpdateRecording, SrvSet
  <2>5. ASSUME NEW c \in Callers, CleanUsage(c) \/ CleanStatus(c) \/ CleanCall(c)
        PROVE  srv'.beats = srv.beats /\ srv'.session = srv.session /\ (srv.settled => srv'.settled)
    BY <1>0, <2>5 DEF CleanUsage, CleanStatus, CleanCall, SrvSet
  <2>6. ASSUME NEW c \in Callers, CleanEnd(c)
        PROVE  srv'.beats = srv.beats /\ (\A t \in bg : t.late) /\ (srv.settled => srv'.settled)
    <3>1. \A t \in bg : ~t.late => <<t.kind, t.item, t.late>> \in clean[c].wait
      BY <1>0, <1>2, <2>6 DEF CleanEnd, SessionInv, Drains
    <3>2. \A t \in bg : t.late
      <4>1. Drained(c)
        BY <2>6 DEF CleanEnd
      <4>2. \A t \in bg : <<t.kind, t.item, t.late>> \notin clean[c].wait
        BY <1>0, <4>1, Gone
      <4>3. \A t \in bg : t.late \in BOOLEAN
        BY <1>0 DEF SessionInv, AgentTypes, TaskSet
      <4> QED BY <3>1, <4>2, <4>3
    <3> QED BY <1>0, <2>6, <3>2 DEF CleanEnd, SrvSet
  <2> QED BY <2>1, <2>2, <2>3, <2>4, <2>5, <2>6
<1> QED BY <1>1, <1>2

\* The end of a session is its last word: the usage is reported at most once and
\* no heartbeat follows it; the session is ended when every background task is
\* over that was started, by the job or by the conversation, before the cleanup
\* began to drain, and those that these started, so that only what a session being
\* drained says later (main.py:643) can follow its end; and the outcome of the
\* recording stays (_finalize_session_cleanup), in a job that is not shut down early.
THEOREM EndIsFinalHolds == Spec => EndIsFinal
<1>1. AgentInv /\ AgentInv' /\ [Next]_vars
      => [/\ srv'.usage <= 1
          /\ shut # "early" =>
               /\ srv.usage = 1 => srv'.beats = srv.beats
               /\ srv'.session = "ended" /\ srv.session # "ended" => \A t \in bg : t.late
               /\ srv.settled => srv'.settled]_svars
  BY EndIsFinalStep DEF vars
<1> QED BY <1>1, AgentInvariance, PTL DEF Spec, EndIsFinal

----------------------------------------------------------------------------
(* llm_node                                                                 *)

\* A reply begins with the markup of a call, and is text.
Marked(c) ==
  /\ \E k \in DOMAIN c : c[k] = "marker" /\ \A j \in 1 .. k - 1 : c[j] = "blank"
  /\ \A k \in DOMAIN c : c[k] # "tool"

\* Such a reply is held to its end: nothing in it decides that it is no call,
\* so it is made a call or replaced by the apology.
LEMMA MarkedIsHeld ==
  ASSUME NEW n \in Nat, NEW c \in [1 .. n -> Chunks], Marked(c), NEW allowed
  PROVE  LlmNode(c, allowed).spoken \in {<<>>, <<"apology">>}
<1>1. PICK k \in 1 .. n : c[k] = "marker" /\ \A j \in 1 .. k - 1 : c[j] = "blank"
  BY DEF Marked
<1>2. \A i \in DOMAIN c : ~Decides(c, i)
  <2> SUFFICES ASSUME NEW i \in 1 .. n, Decides(c, i) PROVE FALSE
    OBVIOUS
  <2>1. c[i] # "tool" /\ c[i] # "blank" /\ c[i] # "marker" /\ \A j \in 1 .. i - 1 : c[j] # "marker"
    BY DEF Decides, Marked
  <2>2. i < k \/ i = k \/ k < i
    OBVIOUS
  <2> QED BY <1>1, <2>1, <2>2
<1>3. {i \in DOMAIN c : Decides(c, i)} = {}
  BY <1>2
<1>4. \E i \in DOMAIN c : c[i] = "marker"
  BY <1>1
<1>5. LlmNode(c, allowed) = IF Parses(c, allowed) THEN [spoken |-> <<>>, call |-> "recovered"]
                            ELSE [spoken |-> <<"apology">>, call |-> "none"]
  BY <1>3, <1>4, Zenon DEF LlmNode
<1> DEFINE e == <<>>
           a == <<"apology">>
<1>6. LlmNode(c, allowed) = IF Parses(c, allowed) THEN [spoken |-> e, call |-> "recovered"] ELSE [spoken |-> a, call |-> "none"]
  BY <1>5
<1> HIDE DEF e, a
<1>7. LlmNode(c, allowed).spoken \in {e, a}
  BY <1>6
<1> QED BY <1>7 DEF e, a

\* Text of a reply that begins with the markup of a tool call is never spoken,
\* for replies of any length, of the model or its backup (SalonAgent.llm_node).
THEOREM MarkupHeldHolds == Spec => []MarkupHeld
<1>0. reply = NoReply => MarkupHeld
  <2> SUFFICES ASSUME reply = NoReply PROVE MarkupHeld
    OBVIOUS
  <2>1. DOMAIN reply.chunks = {}
    BY DEF NoReply
  <2> QED BY <2>1 DEF MarkupHeld
<1>1. Init => MarkupHeld
  BY <1>0 DEF Init
<1>2. MarkupHeld /\ [Next]_vars => MarkupHeld'
  <2> SUFFICES ASSUME MarkupHeld, [Next]_vars PROVE MarkupHeld'
    OBVIOUS
  <2>1. CASE UNCHANGED reply
    BY <2>1 DEF MarkupHeld
  <2>2. ASSUME NEW n \in 1 .. MaxReply, NEW c \in [1 .. n -> Chunks], NEW allowed \in BOOLEAN, Replies(c, allowed) PROVE MarkupHeld'
    <3>1. PICK primary \in Outcomes, backup \in BOOLEAN :
            LET chunks == Streamed(c, primary, backup)
                said == LlmNode(chunks, allowed)
            IN reply' = [chunks |-> chunks, spoken |-> said.spoken, call |-> said.call]
      BY <2>2 DEF Replies
    <3> DEFINE chunks == Streamed(c, primary, backup)
               said == LlmNode(chunks, allowed)
    <3>2. chunks = c \/ chunks = <<>>
      BY DEF Streamed
    <3>3. reply'.chunks = chunks /\ reply'.spoken = said.spoken
      BY <3>1
    <3> HIDE DEF chunks, said
    <3>4. CASE ~Marked(chunks)
      BY <3>3, <3>4 DEF MarkupHeld, Marked
    <3>5. CASE Marked(chunks)
      <4>1. chunks = c
        BY <3>2, <3>5 DEF Marked
      <4>2. said.spoken \in {<<>>, <<"apology">>}
        BY <3>5, <4>1, MarkedIsHeld, TimelineAssumption DEF said
      <4>3. \A k \in DOMAIN said.spoken : said.spoken[k] \notin {"marker", "args"}
        BY <4>2
      <4> QED BY <3>3, <4>3 DEF MarkupHeld
    <3> QED BY <3>4, <3>5
  <2>3. UNCHANGED reply \/ \E n \in 1 .. MaxReply : \E c \in [1 .. n -> Chunks], allowed \in BOOLEAN : Replies(c, allowed)
    BY DEF Next, vars, tvars, Conversation, UserInputTranscribed, CreateTicketAnswered, ToolsExecuted, CreateTicket, UserItemAdded,
           AssistantItemAdded, Working, Work, Refreshed, Written, Reconcile, Reconciled
  <2> QED BY <2>1, <2>2, <2>3
<1> QED BY <1>1, <1>2, PTL DEF Spec
=============================================================================
