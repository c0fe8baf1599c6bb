# A TLA+ verification of the SalesGirl voice agent

The repository holds a realtime voice agent: a worker takes a call from a
LiveKit room, listens to the caller through a streaming recognizer, guesses
what the caller is about to say, prepares a reply before the sentence is over
and plays it only when the final transcript agrees. There are three
implementations of such a call, and this directory models all of them:

* the Rust worker, `rust/src`;
* the reference pipeline in Python, `latency_lab/`, which the Rust worker ports;
* the LiveKit agent in Python, `main.py` and `agent/`, the first generation.

TLC checks the models on small instances, and TLAPS proves the most important
safety properties of both languages' parts for every instance. Paths are
relative to the repository.

## 1. Inventory

### Parts, their state and their operations

| part | state | operations | interacts with |
|---|---|---|---|
| **Rust** | | | |
| Worker control loop `rust/src/worker.rs` | slots (`Admission`), remembered ids (`SeenJobs`), a task and a cancel watch per job, unsent results, reconnects, drain deadline | offer, assignment, termination, disconnect, reconnect, tick, stop, join, finish | LiveKit server, call jobs |
| SIP capacity lease `rust/src/rvc/capacity.rs`, `bin/rvc_worker.rs` | reservation id (taken once), heartbeat task, stop watch | claim by header or caller, heartbeat, release, `Drop` | capacity service, job |
| Turn coordinator `rust/src/rvc/coordinator.rs` | turn and its state, live attempt, hypotheses and final, timers, speech gate, ending flags, engagement | audio, partial, hypothesis, final, typed text, timers, generation and room events | recognizer, LLM, TTS, playout, room |
| Playout `rust/src/playout.rs` | owner attempt, highest attempt, authorized, gate, ended, drain estimate | begin, authorize, cancel, gate, shutdown, PCM, end | coordinator, generation tasks, native audio source |
| **Reference pipeline** | | | |
| Turns `latency_lab/pipeline.py`, `livekit_worker.py` | state, turn id, attempt, stability and timeout tasks, held audio, handoff, ending | speech, commit, partial, final, timeout, text, greeting, announcement, barge-in | recognizer, LLM, TTS, transport |
| Business actions `pipeline.py`, `banking_tools.py`, `action_tools.py`, `directory_email.py`, `engagement.py` | pending action, prepared operation, operation in progress, mail outbox, voice verdict | prepare, confirm, execute, mail, wait, verify | bank, ticket, directory and mail services |
| Device approval `passkey.py`, `passkey_demo.py` | the pending ceremony, session context, credential | start, receive, execute, cancel, expire, close | bank, caller's app |
| Recognizer `providers.py`, `pidgin.py`, `deployment/stable/npu/asr` | socket and its receiver, inference lock, final tasks | append, commit, transcribe, fall back, recover | ASR engine |
| Call job `livekit_worker.py`, `server.py`, `aicc_transfer.py` | reservation, outbound claim, transfer, disconnect event | set-up, talk, transfer, cleanup | capacity, outbound and SIP services |
| Store, recording, usage `conversation_persist.py`, `usage.py` | bounded queue and its worker, session, message keys, egress, usage revision | start, message, handoff, stop, flush, close | conversation and billing services, egress API |
| Memory `memory.py` | turns, summary, epoch | user, answer, tool result, interruption, compaction, context | pipeline |
| **LiveKit agent** | | | |
| Job `main.py` | userdata, background tasks, billing heartbeat, recording, cleanup lock | claim, identity, voice, authorization, heartbeat, cleanup | billing, conversation, outbound, egress |
| Conversation `main.py`, `salon_agent.py` | turn index, last transcript, last ticket, knowledge query, buffered reply | conversation item, tool, reconciliation, `llm_node` | conversation service, knowledge, tickets |
| Speech `odion_stt.py`, `odion_tts.py`, `latency_lab/input_noise.py` | generation flags, pending audio, VAD state; voice, attempt, pushed frames; filter remainder | append, commit, receive; request, retry, fall back; process, finish | ASR and TTS services |

The Rust parts talk through tokio channels and tasks: a message may be handled
after its sender is gone, events an aborted task already sent stay in the
channel, and what must be given back is held by a value whose `Drop` gives it
back. The Python parts run on one asyncio loop: a coroutine is interrupted only
where it awaits, and may be cancelled there.

### What is hard

* Speculation: hypotheses, finals, barge-in and failures arrive in any order;
  what is heard must answer what was said.
* What was read before an await and is used after it: the attempt, the turn, the
  preview, the session context, the identity.
* Cancellation at every await, between claiming a resource and storing it, in
  the middle of a request whose effect is then unknown, or of a native callback.
* Requests lost before or after they took effect, and their retries.
* Locks, queues and drains: the engine's lock and the recovery, the cleanup's
  lock, the store's drain, a socket that comes and goes under calls that go on.
* Timers that race the events they guard.

`PROJECT.json` lists each hazard at its line with the properties that cover it.

### What makes each part correct

* Playout: nothing unauthorized is heard, at most one 10 ms piece of a reply
  that is over, drains reported for the right attempt, everyone answered.
* Worker: calls fit the slots, slots and tasks agree, no result is lost, draining
  ends. Lease: released exactly once, alive during the call, freed after cleanup.
* Coordinator and Turns: only an agreed answer is audible, every live reply can
  be interrupted, a caller who speaks keeps the floor, no state without a way out.
* Actions: done with the caller's word, and once. Approval: a proof is judged at
  most once, in time, for the ceremony that is open.
* Recognizer: a transcript is of its turn, whole and once; stream and request
  never share the engine.
* Job, Store, Session: whoever was told of the call is told that it is over, and
  the end is the last word.
* Memory: nothing is lost between the turns and their summary.
* Speech: no audio of the caller is lost or misplaced, nothing is said twice.

## 2. Modules

| module | models | state and actions |
|---|---|---|
| `PlayoutControl` | `State` and `State::control` of `playout.rs` | a record and what each command does to it; used by `Playout` and `Coordinator` |
| `Playout` | the actor around it | control and audio channel, pieces of one quantum, SDK buffer and back-pressure, drain estimate, aborted producers |
| `Worker` | `worker.rs` | one action per message, tick, join, connect and per step of `finish_jobs` |
| `CapacityLease` | `rvc/capacity.rs` and the owner of the lease | the place of the lease, the heartbeat, the release in its two awaits, handoffs, cancellation at each await |
| `Coordinator` | `rvc/coordinator.rs`, `rvc/engagement.rs` | the actor's fields in one record `c`, the channel `ev`; each method is an operator on the record, so methods call each other as in the code |
| `Turns` | turn ownership in `pipeline.py` over `livekit_worker.py` | one action per stretch between two awaits; `cq` holds the coroutines that wait inside `_cancel_attempt`, in order |
| `Actions` | the tools of `pipeline.py` and their services | the attempt's tool call, `pending_action`, the preview, shielded and background requests, voice verification |
| `Approval` | `passkey.py`, `passkey_demo.py` | ceremonies, the starter, the device's messages (which may come again), the context |
| `Ceremony` | (abstract) | what a ceremony promises: offered once, at most one proof judged, in time, the verdict final |
| `Recognizer` | `providers.py`, `pidgin.py`, the ASR server | client, socket, server generation, lock, final task per turn, recovery |
| `Memory` | `memory.py`, the compaction task | turns, summary, snapshot |
| `Store` (extends `Memory`) | `conversation_persist.py`, `usage.py`, `livekit_recording.py` | queue, worker, recording, stop, usage, close, and the services |
| `Job` (extends `Store`) | `livekit_worker.py`, `server.py`, `aicc_transfer.py` | the entrypoint from dispatch to cleanup; composes the two modules above |
| `Boot` | the set-up of `main.py` | participants, claim, identity, voice |
| `Session` (extends `Boot`) | the job of `main.py` | billing, recording, background tasks, two calls of the cleanup |
| `Timeline` (extends `Session`) | the conversation of `main.py`, `salon_agent.py` | items, knowledge, tickets, replies; their tasks are background tasks of `Session` |
| `Transcriber`, `Synthesizer`, `NoiseFilter` | `odion_stt.py`, `odion_tts.py`, `input_noise.py` | the streams' tasks and the service; the sentence; the filter |
| `Speech` | the three above | they share no state: a behaviour is one of them, chosen by the call |
| `PlayoutProofs`, `WorkerProofs`, `CoordinatorProofs` | | theorems about the Rust parts |
| `TurnsProofs`, `ActionsProofs`, `PipelineProofs`, `AgentProofs`, `SpeechProofs` | | theorems about the Python parts |
| `MC...` | | instances |

Operators whose comment says "Mutant of" are the wrong variants with which the
properties are tested: with one in place of the definition it names, TLC finds
the property violated. No specification uses them.

### Modelling decisions

* A call's settings are chosen in `Init` from a CONSTANT set of configurations
  (`Configs`, `Confs`, `Flows`, `Modes`, `Calls`) and never change, so one run
  covers every combination the instance lists; tools, caller input and failures
  are enabled by the configuration, which keeps each case small.
* Transcripts stand for their normal forms, with the relation that decides
  whether they agree given by the instance (`Similar`, `Norm`). Audio is counted
  or numbered, never valued. Names, numbers and ids are where they come from.
* Durations are dropped: when a timer fires is a choice. A minimum utterance
  and an end of silence are choices too, so the results hold for every setting.
* Between two awaits a coroutine is one step. A cancelled coroutine is resumed
  with its exception at the await where it was; `finally` parts are actions.
* An HTTP request takes effect or not, and its caller learns it or not, at the
  latest when the caller gives up on it. Requests delivered later than that are
  not modelled. Services, devices, models and the native source are external.
* The coordinator's loop selects with a bias, but events become ready while a
  handler runs, so every order can occur. The playout's bias is modelled: its
  properties depend on it.
* Two timers of `Turns` are long: the final's timeout and the spoken apology of a
  failed transfer do not end while a cancellation that began before them is still
  under way. Awaits on a status message to the client are part of the step around
  them.
* Histories (`permitted`, `starts`, `finals`, `agreed`, `said`, `lost`, ...) are
  marked as such and never guard an action; bounds are named `Max...`.

## 3. What the runs check

Deadlock checking is off in every run: a worker that stopped, a closed call and
a finished job are final states, and the named bounds end behaviours. Each run
checks safety and, under weak fairness, liveness; only the recognizer's lock has
strong fairness, because `asyncio.Lock` serves its waiters in order.

### `playout`

Two attempts, a quantum of two samples and chunks of up to three (a full and a
partial piece), an audio channel of one, an SDK that holds callbacks back beyond
four samples, two sends and four commands: enough for every relation between an
owner and its successor. `OnlyPermittedAudio`: no sample of a never-authorized
attempt reaches the SDK. `ResidueBound`: what is unplayed of a muted or drained
reply is at most one piece ("Drain only this one piece before reuse").
`DrainedOnlyForOwner`. `Answered`: commands are answered although no native
callback ever completes; pushes are answered while the source plays. Fairness:
the actor's task runs.

### `worker`

Four jobs, two slots, a cache of three ids, two connections and a reconnect
limit of one: the cache evicts while slots are held, and reservations, jobs and
results meet a disconnect. `SlotsFaithful`: calls fit in the slots, each slot
agrees with its task, no reservation crosses a connection. `JobsAccounted`: a
held id is remembered, no job starts twice before the cache wraps, no result is
lost. `DrainAdmitsNothing`. `StopReturns`: the stop signal makes the worker
return; assumed are the loop, its clock and that a cancelled job ends (it is under
a 240 s timeout), not the server, the network or the calls.

### `capacity_lease`

One call that claims by header, by caller number or not at all, two handoffs,
three heartbeats, cancelled at any await. `ReleasedOnce`, `BeatsWithLease`,
`FreedAfterCleanup`, and `Quiesces`: the job returns and nothing of the
reservation is left. Fairness: bounded requests and runnable tasks.

### `coordinator`

Four configurations: early hypotheses with two transcripts; `end_call` with a
minimum utterance; engagement with the speech gate, reply grace, idle check-ins
and the goodbye of an absent caller; an open gate with `end_call`, where a reply
goes on to further tool calls after it (`providers.rs:486`). Two turns, two attempts, two revisions and a
channel of two: a guess meets its final, the next turn and the events of the
aborted generation. The attempt bound limits new caller input only.
`OnlyFinalSpeaks` is about what the playout would accept, through the operators
of `PlayoutControl`. `NeverStranded`: every waiting state has its timer, attempt
or farewell. `OnlyCurrentActs`: tools act on the accepted final, stale proactive
speech is never begun, an ending call ignores the caller. `TurnResolves` under
fairness of the loop, its timers and authorized generations, whose provider
calls have timeouts.

### `turns`

Four callers: one who revises a sentence (two sentences and a spelling variant),
one who is greeted, speaks and types while replies end or transfer the call, the
same without engagement, and one with announcements; two turns and two
generations at a time. `NoOrphan`: every authorized generation is the stored
one. `OnlyFinalHeard`. `FloorKept`: a turn's id is new (`NewId`), no audio of a
reply is pushed while the caller speaks, and nothing but his own turn's course takes
the floor, up to the second turn or where neither typed text nor a handoff can
overtake a final (section 4). The second half of that condition needs a third turn;
TLC checked the safety properties with three turns, and with four for callers who
only speak (2.9 million states), and the run keeps two for its time.
`AwaitingResolves`: the wait for a final ends, under fairness of ready
coroutines, timers and provider calls.

### `actions`

Ten calls: bank tools, tickets, e-mails and directory lookups, in the foreground and
background, with and without engagement and voice verification; two operations,
three e-mail addresses (the saved one and two others, so that a confirmed address is
replaced by another), two requests at a time, up to five turns, so that a preview is
replaced, refused and confirmed again. The e-mail to the saved address and the
lookup run inside their attempt and end with it, also for an attempt that joined
them (`left`). `Authorised`, `DoneOnce`, `WaitEnds` (fairness: requests have timeouts).
The parts about the newest preview and one unresolved request are for foreground
tools; with background tools the code allows otherwise.

### `approval`

Both flows, two ceremonies and two session contexts; the device answers, cancels,
repeats or stays silent. `Implements`: `Approval` refines `Ceremony` under the
mapping that reads a ceremony's stage off its `Pending` object and the task that
judges it. `CredentialOfContext`. `StarterReturns` (sends and requests have
timeouts, and time passes).

### `recognizer`

All four modes, two turns of two chunks each, two sockets: sockets break at any
point, arming is refused, requests fail or answer late. `NoOverlap`,
`FinalIsTurn`, `Resolved`. Finals carry no turn, so `FinalIsTurn` excludes typed
text while one is due.

### `agent`, `agent_outbound`

Five lives of a billed or recorded job, every combination of room, claim,
participant and override, every combination of the voice settings, two items of an
unbilled conversation, one of a billed one, or a reply of three chunks; three
heartbeats. `IdentityKept`: a claimed call stays
its recipient's, no voice of the other language, no clone replaced where that is
forbidden. `EndIsFinal`: the final usage once and no heartbeat after it, the
session ended when all background tasks are through, the recording's outcome not
overwritten. Items, tools and transcripts go on coming while the cleanup runs, from a
session that billing shuts down with `drain=True` (643) or that the framework is
still closing; what comes after the cleanup has begun to drain is marked `late`, and
only that may be written after the end. `MarkupHeld`: the markup of a tool call is
never spoken. `CleanedUp`: both calls of the cleanup return. A conversation in a job
that was shut down before its call began is left out.

### `job`

Six calls: with three words to store, recorded, with usage in a browser that may fail, SIP with
a reservation and a prepared call, transferred, and with memory of three turns, a
tool result and a cleared history. Cancellation or failure at every await of
set-up and talk; every request may be lost before or after it took effect.
`Settled`: at the end each service that answered knows that the call is over.
A transfer, which nobody stops, may then still dial: its leg is excused until it is
taken back. `EndIsLast`: transcripts in order and once; after the session's end at most
the two requests of one snapshot of a transfer; no heartbeat after the release. `NothingForgotten`. `JobEnds` (every task runs, every
await has a bound; hang-up noticed, see section 4).

### `speech`

Realtime recognition with a VAD whose caller falls silent or is cut off and whose
socket holds or breaks; without a VAD; in segments; sentences (two, three frames, two
attempts); the filter (six units in blocks of two). `CallerHeard`: nothing is lost
by the filter or between two generations, and what is reported lies inside
speech. `SpokenOnce`. `StreamEnds`: once the input ended the stream ends, but for the
two hangs of section 4, which `Stranded` names and an input that ends in silence on a
socket that holds excludes; assumed are the tasks, the VAD and a recognizer that
answers a commit.

## 4. Where the code deviates

`agent_outbound` shows `CorrelatedHasContext` violated. The comment at
`main.py:2105` says "never start a correlated call without its context"; the
reference is looked for once, before the wait in which the participant that
carries it joins (2098, 2151), and the call then starts as an inbound one.

The following were met while modelling. The properties are stated so that they
do not depend on them, and the exclusion is in the property's text or here.

* **Coordinator.** `end_call` without text and with the empty-response fallback
  loses the request to end (4349), and so does a localized farewell that fails
  (4196). A reply that calls `end_call` and then `set_speech_enabled` cancels its own
  attempt (3227) and with it the request to end, while `call_ending` stays set
  (3145-3187): nobody closes the call, and what the caller says is ignored. `Forgets`
  collects these cases. `set_speech_enabled(true)` with an empty reply
  opens the coordinator's gate and not the playout's (3226). A speculative failure
  in the reply grace cancels the pending reply (4213). Typed text that repeats the
  recognizer's hint is dropped (1856) after the timer was aborted. A discarded
  minimum utterance keeps its guess (1726, 1643), which the next turn can accept if
  its words agree: `latency_lab/ENGAGEMENT.md:65` says "New speech cancels stale
  generation." The run has the fallback and the hint off, `NeverStranded` names these
  cases; `NeverStranded` and `TurnResolves` leave out the grace, and `OnlyFinalSpeaks` the ownership of a
  minimum utterance.
* **Turns** (`pipeline.py`). A farewell that fails leaves `call_ending` set (1388). An
  announcement is not stored as the attempt. Without engagement an attempt can be
  orphaned in `_cancel_attempt` (2887). A speculative attempt that failed and then
  agrees with the final stays in `releasing`. Typed text that repeats the
  recognizer's context stays in `awaiting_final`. `Echo` is empty in the run, and
  `NoOrphan`, `FloorKept` and `AwaitingResolves` are stated with engagement.
  `on_final` publishes the transcript (1081) and then takes the floor for whatever
  turn is current (1090): if a typed turn or a failed handoff replaced the caller's
  meanwhile and he speaks again, the late final interrupts and answers that third
  turn (`Undisturbed`). One simplification: speech that starts from `idle` while an
  attempt is stored, which takes an announcement during the recovery of the
  recognizer, re-arms the stability timer and does not compare the attempt.
* **Actions.** A confirmed e-mail awaits `banking.activity` (`pipeline.py:1895`) and
  then sends to whatever address is prepared (1898): with engagement a newer
  address, which the caller named meanwhile and did not confirm, is mailed, although
  `directory_email.py:78` asks for the confirmation. `Confirmed` names the case
  (`swapped`). An attempt that joins the request of one that has left
  (`pipeline.py:2073`, 2166) is cancelled with it, without an answer
  (`engagement.py:279`); `WaitEnds` names it. With engagement, background tools and voice verification together a
  background request replaces the record of the confirmed one that is still being
  verified (`engagement.py:219`), whose preview is kept until it is sent
  (`banking_tools.py:329`): a caller who confirms again can have it executed twice.
  `DoneOnce` names the combination, which no call of the run has; the proof
  attempt found it. A bank request that times out is reported failed
  (`banking_tools.py:284`), an e-mail to the saved address whose outcome is unknown
  blocks every later tool (`engagement.py:239`; a confirmed one does not, its result
  is no dict), and the preview is read before an await and asked about
  after it (`pipeline.py:2546`).
* **Approval.** `_finish` clears `self.pending` whichever ceremony it holds
  (`passkey.py:276`); a lost bank answer is told as nothing sent (287); an expired
  ceremony still refuses a new one as busy.
* **LiveKit agent** (`main.py`). A job shut down while its session opens is cleaned up
  before it has started what is to be cleaned up (4512, 4539; `EndIsFinal` leaves
  it out). What a session being drained says during the cleanup, and a ticket opened for it,
  may be written after the session's end (643, 934). A claim whose set-up then fails
  is never finished (2101, 4459); one whose answer is no JSON counts as none
  (`outbound_call_api.py:44`), and so does a reference whose SIP headers cannot be
  read (1954).
  Knowledge refreshes overtake each other (2363, 2369). Two reconciliations can open
  two tickets (447, 480). An egress whose start answer is lost is never stopped
  (`livekit_recording.py:319`).
* **Job.** A hang-up between `wait_for_participant` and the handler's registration is
  missed (`livekit_worker.py:446`; `missed` in the model, and `JobEnds` leaves it
  out). A connecting transfer and the cleanup can both release the reservation (546,
  793). Once the reply that asks for a transfer was played `self.attempt` is `None`
  (`pipeline.py:3009`) and `close` finds nothing to cancel (2895, 3044): the
  transfer goes on beside the cleanup and after it, may dial a colleague or connect one
  to a caller who has left, against `aicc_transfer.py:31`, and may post the
  snapshot's two requests after the session's end (`conversation_persist.py:355`).
  What the end of the process then does to it is not modelled. A lost `claim_for_route` answer leaves the prepared call
  open. A session whose start was lost is never ended. `Settled` excuses a service
  only when its answer was lost (`lost`).
* **Memory.** The note of an interruption may go to a tool's reply
  (`memory.py:125`); a late tool result of a compacted turn creates the turn again; a
  turn that is never closed blocks compaction; `context()` may keep an older unit
  than one it skipped.
* **Speech.** If the input ends while the caller speaks and a transcript is due, the
  receiver returns without arming and the endpoint task waits for ever
  (`odion_stt.py:883`). If the socket closes while a transcript is due and the next
  utterance's audio waits for a generation, the receiver of an ended input returns
  (851) and leaves that task waiting too. `StreamEnds` allows these two, as
  `Stranded`. The transcript and the
  speaking flag survive a reconnect. A segment's frames are lost with a failed
  request. A framework retry of a failed sentence would return to the clone:
  `SpokenOnce` speaks of the attempts and the fallback within one `_run`.

## 5. What is proved

TLAPS proves, for every value of the constants that satisfies the modules'
`ASSUME`s: bounds are numbers, sets of jobs finite, the id cache larger than the
number of slots as `worker.rs` makes it, settings of their type and as the code
combines them (a reply grace only with engagement; in `Boot`, each configuration
names a language `main.py` knows; in `Job`, a call says at most the words there are;
in `Memory`, at least two exchanges are kept, as `memory.py` makes it). Each
inductive invariant stands in the component's own module, those of the job and of
the memory beside their proofs; TLC checked each on
instances richer than the run's before it was proved; each proof takes the
actions one by one and rests on lemmas about the operators the actions are made
of.

* `PlayoutProofs`: `TypeCorrect`, `OnlyPermittedAudioHolds`, `ResidueBoundHolds`,
  `DrainedOnlyForOwnerHolds`. None is inductive: whether a piece may be appended
  depends on who owns the sink while the capture is under way (`Ownership`), the
  buffer is empty wherever a drain was asked for (`Flushed`), the estimate lags the
  buffer by at most one quantum, the piece in flight included (`Accounted`), and a
  closed gate has nothing left to capture (`Muted`). `PlayoutInv` is their
  conjunction with `TypeOK`.
* `WorkerProofs`: `SlotsFaithfulHolds`, `DrainAdmitsNothingHolds` from `WorkerInv`,
  which adds that a drain holds no reservation and that a deadline or a shutdown
  on a live connection implies draining, and bounds the slots rather than the tasks:
  an offer adds a slot only when one is free, an assignment turns a reserved slot
  into a task. `JobsAccountedHolds` from `JobsInv`: the cache holds no id twice, so
  by counting it always has an inactive id to evict, and before it wraps a job that
  started is remembered and holds no reservation. About `CapacityLease`:
  `LeaseTypeCorrect`, `ReleasedOnceHolds`, `BeatsWithLeaseHolds`,
  `FreedAfterCleanupHolds` from `LeaseInv`: what the lease is like in each place
  (`Held`), which place goes with which point of the job, the claim and the handoffs
  (`Placed`), and what the requests sent so far say about it (`Counted`).
* `CoordinatorProofs`: `OnlyFinalSpeaksHolds`, `NeverStrandedHolds` and the action
  property `OnlyCurrentActsHolds` from `CoordInv`. What the actor may do depends on
  events that are already in its channel, so the invariant speaks of both: `CallInv`
  (one playout for the live attempt, authorized for the accepted final, the kinds of
  attempt, the state a reply is in, what a closing call keeps, however many tools
  the reply goes on to call) and, for every event
  in `ev`, what handling it may still do (`EventInv`, `QueueInv`), with the safety
  timer as the third part (`Timed`). Methods call each other as in the code, so each
  has a lemma of its own, and a handler's proof composes them.
* `TurnsProofs`: `OnlyFinalHeardHolds` from `HeardInv`: the types of the pipeline and
  of its coroutines, and that the text a coroutine carries is a retained final all
  the way from `on_final` over its publication, the reply grace and the wait for a
  cancellation to the attempt that answers it (`FinalsRetained`). A speculative
  attempt is authorized only where its words compare equal. `NoOrphanHolds` from
  `OrphanInv`. `NoOrphan` says nothing of the coroutines inside `_cancel_attempt`,
  which is where an attempt could be orphaned: they all wait for the end of one task,
  the answering task is the last of them, and its end wakes all or none (`Queue`);
  each is at a place that calls `_cancel_attempt` (`Waiters`); while they wait no
  other attempt is stored and none is live, and a final published meanwhile is
  answered after them (`Pending`, `Stored`); before the first turn only the opening
  is under way (`Greeting`). `NewIdHolds`, the first part of `FloorKept`, from
  `IdInv`: the id computed for a candidate, or kept while a barge-in waits, is the next
  one, and whoever closes a turn closes an old one.
* `ActionsProofs`: `DoneOnceHolds`, `AuthorisedHolds` from `ActionsInv`: a request in
  the foreground is the one the attempt waits for or the one engagement knows of
  (`Kept`), what is confirmed was agreed (`Consent`), an execution that was sent is no
  longer the prepared one, and one still being verified has not been sent
  (`Executions`), a mail that left is in the outbox (`Mails`), and the utterance a
  request was verified with is the owner's (`Speakers`). For the mail `Addresses`
  follows an address from its preparation over the caller's confirmation to the
  request that takes it: what a confirmed e-mail finds prepared is the saved address,
  the one it names, or one prepared while it had not taken its own. About `Approval`:
  `CredentialOfContextHolds`, and `ImplementsHolds`: `Approval` refines `Ceremony`. `ApprovalInv` says that at most one ceremony is open and that a
  ceremony is unjudged until its proof is read; a step that closes, replaces or
  cancels ceremonies changes the abstract stage of exactly the one it should.
* `PipelineProofs`, the recognizer: `NoOverlapHolds`, `FinalIsTurnHolds` from
  `RecognizerInv`: whoever holds the engine's lock for a request has no open
  socket beside it, there is one stream with at most one message under way, at most
  one of the stream, the request and the fallback still owes a turn its transcript,
  and the audio the open stream was sent is the turn's from its beginning.
* `PipelineProofs`, the job: `SettledHolds` and `EndIsLastHolds` from `JobInv`.
  `Settled` speaks of the last state only; the invariant says for every phase what each
  service has been told so far. Nothing is queued, said or dialled before the pipeline
  is there (`Building`); the session is opened once, by the first operation of the
  queue, and brings the recording with it (`Opening`); each phase of the close finds
  the queue, then the recording, then the stop request over (`Closing`, `Egress`); the
  status at the service is the last one or is marked as differing (`Status`); revisions
  rise and the last is one above those sent while talking (`Billing`); a leg that rings
  is being dialled or taken back (`Leg`); a snapshot begins before the store is closed, so
  that it has at most its own two requests after the end (`Overdue`); a reservation that was cleared is freed,
  lost or about to be released by the transfer, and a heartbeat not told to stop still
  has one (`Lease`). For the order of the transcript, what is stored was said before
  what is being posted, and that before what is queued; while a message is posted it
  may already be the last one stored, so that a retry of it changes nothing
  (`Written`). From `Closing`, when the end is posted nobody is left who would write.
* `PipelineProofs`, the memory: `WholeHolds`, the first part of `NothingForgotten`,
  from `MemoryInv`. A summary that is being written covers what it was shown, and it
  is shown whole turns (`Snapshots`); the comparison before it is applied makes these
  the first of the list, so what is cut off is what is covered. That no message is in
  both needs more: ids are not repeated and a turn's messages are its own
  (`Exchanges`), a tool's reply brings its call, also into a summary (`Summarised`), and
  no snapshot reaches the latest turn: behind it there are only turns that a late tool
  result created again, and these are not closed. So with at least two exchanges kept,
  the turn that is still being answered is never summarised, and an answer or a note of
  an interruption is never added to a message that a summary covers.
* `AgentProofs`: `EndIsFinalHolds` from `AgentInv`: one call of the cleanup works while
  the other waits or has returned, the heartbeat is over before the usage is reported,
  and of the tasks that did not come too late the first drain waits for all that may
  start others, so that from then on none is left, and the second for all. `IdentityKeptHolds` follows from what the set-up wrote at the claim
  and `BootAssumption`, `MarkupHeldHolds` is inductive by itself.
* `SpeechProofs`: `SpokenOnceHolds` from `SpokenInv` (what was heard is of sentences up
  to the present one, of that only what was pushed, in a voice the session has not
  left); `AudioKeptHolds` from `FilterInv` (less than a block is held back, nothing
  after a failure); `WholeUtteranceHolds` and `CallerHeardHolds` from `HearInv`. The
  last relates three clocks that drift apart, the microphone, the endpoint task and
  the service: what the flags tell of the service's generations (`Generating`), what
  is pending where the endpoint task stands (`Endpointing`), the order of the VAD's
  unread events (`Queued`), that every unit said is in one of these places (`Kept`),
  which utterance is being sent and from where it goes on (`Breathing`), and that no
  generation cuts an utterance (`Uncut`).

The attempts to prove corrected the models. In `Turns`, typed text now also ends
the task that answers a final published during its cancellation
(`pipeline.py:1085`), the recovery closes the turn that had timed out, not the
current one, a partial buffered before a barge-in reschedules a stability task that
waits in `_cancel_attempt` (991), and the elapsed grace runs into the answer without
a pause (804). In `Job`, a browser's call that breaks before its pipeline exists has
no cleanup (`server.py:158`) and its pipeline starts as soon as it is built, and
a cancelled attempt stores an answer it cut off, never words of the caller
(`pipeline.py:2939`). `DoneOnce`, `NeverStranded` and `FloorKept` name the combinations of
settings, or the turn, from which they fail (section 4).

### Only model-checked

* All liveness properties: fairness and `ENABLED` are outside the prover.
* `FloorKept` of `Turns` beyond `NewId`: why the third turn is the first that a late
  final can reach is a count of turns per place of every coroutine.
* The other parts of `NothingForgotten`, on the context of a request: `Context` folds
  over sequences, which is induction over data.

## 6. What is not modelled

* The Rust ports of approval, actions, records, transfer, outbound, memory and the
  second recognizer, and the coordinator's use of them: modelled from the Python
  implementation they were ported from.
* HTTP clients, voice-print arithmetic and the enrolment endpoint of `agent/`: one
  request and its parsing each, no state between requests; their answers are choices.
* Text normalization, prompts, languages, schemas, configuration, reports: data
  conversion without shared state.
* `rnnoise`, the listening route, one-shot recognition; number capture and inactivity
  check-ins of the pipeline; a second cancellation inside a `finally`.
* The demo backend (CRUD), the iOS SDK (the device of `Approval`), the vendored
  AttentiveRTC, deployment and infrastructure.

## 7. Plan

1. The Rust approval and records as refinements of `Ceremony` and of an abstract
   store shared with `Store`.
2. The second recognizer and number capture.
