------------------------------ MODULE Approval ------------------------------
(***************************************************************************)
(* Approval on the caller's device: the bank's passkey ceremony             *)
(* (latency_lab/passkey.py) and the simulated one (passkey_demo.py), with    *)
(* the worker that wires them (livekit_worker.py).                           *)
(*                                                                         *)
(* An attempt of the conversation starts a ceremony (the starter) and may be *)
(* cancelled at any await; every message of the device is received by a task *)
(* of its own; the call may end at any moment.  Each action is the code      *)
(* between two awaits.                                                      *)
(***************************************************************************)
EXTENDS Naturals, FiniteSets

CONSTANTS
  MaxCeremonies, \* bound: ceremonies of a call (the demo allows 6)
  MaxContexts,   \* bound: session contexts the app announces
  Flows          \* the flows explored, of {"bank", "demo"}

ASSUME ApprovalAssumption ==
  MaxCeremonies \in Nat /\ MaxContexts \in Nat /\ Flows \subseteq {"bank", "demo"}

VARIABLES
  flow,
  cer,      \* the ceremonies (Pending objects and the tasks that handle them)
  pending,  \* self.pending, 0 for None
  starter,  \* the attempt in start() or run()
  ctx,      \* demo: context_id, 0 for None
  cred,     \* demo: the context of the stored credential, 0 for None
  msgs,     \* what the device has sent; a message may arrive again
  closed

approvalVars == <<flow, cer, pending, starter, ctx, cred, msgs, closed>>

Ids == 1 .. MaxCeremonies
Kinds == {"fido2_proof", "fido2_cancelled"}
NoCeremony == [begun |-> FALSE, shown |-> FALSE, consumed |-> FALSE, expired |-> FALSE, mode |-> "authenticate",
               recv |-> "none", verdict |-> "none", future |-> "none"]
Idle == [pc |-> "idle", c |-> 0, ctx |-> 0]

ApprovalInit ==
  /\ flow \in Flows
  /\ cer = [c \in Ids |-> NoCeremony] /\ pending = 0 /\ starter = Idle
  /\ ctx = 0 /\ cred = 0 /\ msgs = {} /\ closed = FALSE

Fresh == {c \in Ids : ~cer[c].begun}
New == CHOOSE c \in Fresh : TRUE
At(pc) == starter.pc = pc

\* A Pending is made and stored before the device hears of it.
Begin(mode) ==
  /\ cer' = [cer EXCEPT ![New] = [NoCeremony EXCEPT !.begun = TRUE, !.mode = mode]]
  /\ pending' = New
  /\ starter' = [starter EXCEPT !.pc = "send", !.c = New]

----------------------------------------------------------------------------
(* PasskeyFlow.start                                                        *)

\* Refused when the call is over or another ceremony waits, expired or not.
Busy == closed \/ (pending # 0 /\ ~cer[pending].consumed)

\* _start_passkey_ceremony, from a confirmed preview or the start tool.
Start ==
  /\ flow = "bank" /\ At("idle") /\ ~Busy
  /\ starter' = [Idle EXCEPT !.pc = "begin"]
  /\ UNCHANGED <<flow, cer, pending, ctx, cred, msgs, closed>>

\* The bank opens the ceremony; nothing is checked again after the request.
Begun ==
  /\ At("begin") /\ Fresh # {}
  /\ Begin("authenticate")
  /\ UNCHANGED <<flow, ctx, cred, msgs, closed>>

BeginFails ==
  /\ At("begin")
  /\ starter' = Idle
  /\ UNCHANGED <<flow, cer, pending, ctx, cred, msgs, closed>>

\* The ceremony reaches the device: start() returns, the demo waits.
Shown ==
  /\ At("send")
  /\ cer' = [cer EXCEPT ![starter.c].shown = TRUE]
  /\ starter' = IF flow = "bank" THEN Idle ELSE [starter EXCEPT !.pc = "wait"]
  /\ UNCHANGED <<flow, pending, ctx, cred, msgs, closed>>

----------------------------------------------------------------------------
(* DemoSession.run and _ceremony                                            *)

DemoRun ==
  /\ flow = "demo" /\ At("idle") /\ ~closed /\ ctx # 0
  /\ starter' = [pc |-> IF cred = 0 THEN "register" ELSE "authenticate", c |-> 0, ctx |-> ctx]
  /\ UNCHANGED <<flow, cer, pending, ctx, cred, msgs, closed>>

\* After the spoken introduction: the context must still be the same.
DemoCeremony ==
  /\ starter.pc \in {"register", "authenticate"}
  /\ IF closed \/ starter.ctx # ctx \/ Fresh = {} \/ (At("authenticate") /\ cred = 0)
     THEN starter' = Idle /\ UNCHANGED <<cer, pending>>
     ELSE Begin(starter.pc)
  /\ UNCHANGED <<flow, ctx, cred, msgs, closed>>

Forgets(c) == pending' = IF pending = c THEN 0 ELSE pending

DemoResumes ==
  /\ At("wait") /\ cer[starter.c].future # "none"
  /\ Forgets(starter.c)
  /\ starter' = IF cer[starter.c].mode = "register" /\ cer[starter.c].future = "verified"
                THEN [starter EXCEPT !.pc = "authenticate"] ELSE Idle
  /\ UNCHANGED <<flow, cer, ctx, cred, msgs, closed>>

\* Mutant of DemoGivesUp: the wait has no timeout.
DemoGivesUpNever(cancelled) ==
  /\ At("wait") /\ cer[starter.c].future = "none" /\ cancelled
  /\ starter' = [starter EXCEPT !.pc = "abort"]
  /\ UNCHANGED <<flow, cer, pending, ctx, cred, msgs, closed>>

\* wait_for ends, or the attempt is cancelled: the prompt is withdrawn first.
DemoGivesUp(cancelled) ==
  /\ At("wait") /\ cer[starter.c].future = "none"
  /\ cancelled \/ cer[starter.c].expired
  /\ starter' = [starter EXCEPT !.pc = "abort"]
  /\ UNCHANGED <<flow, cer, pending, ctx, cred, msgs, closed>>

DemoAborted ==
  /\ At("abort")
  /\ cer' = [cer EXCEPT ![starter.c].future = IF @ = "none" THEN "cancelled" ELSE @]
  /\ Forgets(starter.c)
  /\ starter' = Idle
  /\ UNCHANGED <<flow, ctx, cred, msgs, closed>>

\* The attempt is cancelled before the device has the ceremony.  The demo
\* withdraws it; the bank's stays in self.pending.
StarterCancelled ==
  /\ starter.pc \in {"begin", "send", "register", "authenticate"}
  /\ starter' = IF flow = "demo" /\ At("send") THEN [starter EXCEPT !.pc = "abort"] ELSE Idle
  /\ UNCHANGED <<flow, cer, pending, ctx, cred, msgs, closed>>

----------------------------------------------------------------------------
(* The device and the clock (external).                                     *)

DeviceSends(c, kind) ==
  /\ cer[c].shown /\ [c |-> c, kind |-> kind] \notin msgs
  /\ msgs' = msgs \union {[c |-> c, kind |-> kind]}
  /\ UNCHANGED <<flow, cer, pending, starter, ctx, cred, closed>>

\* Time is looked at only for a ceremony that waits.
Expire(c) ==
  /\ c = pending /\ ~cer[c].expired
  /\ cer' = [cer EXCEPT ![c].expired = TRUE]
  /\ UNCHANGED <<flow, pending, starter, ctx, cred, msgs, closed>>

----------------------------------------------------------------------------
(* receive()                                                                *)

\* Mutant of Current: a message for any ceremony that began is taken.
CurrentAny(c) == cer[c].begun

\* The message is for the ceremony that waits, whose proof was not used yet.
Current(c) == c = pending /\ ~cer[c].consumed

Receive(m, kind) == ~closed /\ m \in msgs /\ m.kind = kind /\ Current(m.c)

\* "one proof, one use": consumed even when it is rejected.
Settles(c, status) == [cer EXCEPT ![c].consumed = TRUE, ![c].future = IF @ = "none" THEN status ELSE @]

ReceiveCancelled(m) ==
  /\ Receive(m, "fido2_cancelled")
  /\ cer' = Settles(m.c, "cancelled")
  /\ pending' = IF flow = "bank" THEN 0 ELSE pending
  /\ UNCHANGED <<flow, starter, ctx, cred, msgs, closed>>

\* The proof goes to the bank, unless it is late.
BankProof(m) ==
  /\ flow = "bank" /\ Receive(m, "fido2_proof")
  /\ IF cer[m.c].expired
     THEN cer' = Settles(m.c, "expired") /\ pending' = 0
     ELSE cer' = [cer EXCEPT ![m.c].consumed = TRUE, ![m.c].recv = "execute"] /\ UNCHANGED pending
  /\ UNCHANGED <<flow, starter, ctx, cred, msgs, closed>>

\* The bank answers, or the request fails, which counts as a refusal.
BankAnswers(c) ==
  /\ cer[c].recv = "execute"
  /\ \E v \in {"accepted", "refused"} : cer' = [cer EXCEPT ![c].recv = "result", ![c].verdict = v]
  /\ UNCHANGED <<flow, pending, starter, ctx, cred, msgs, closed>>

\* The proof is verified here; the credential is kept before the device hears
\* of it.  An enrolment needs none, an assertion one of this call.
DemoProof(m) ==
  /\ flow = "demo" /\ Receive(m, "fido2_proof")
  /\ \E valid \in BOOLEAN :
       LET ok == valid /\ ~cer[m.c].expired /\ (cer[m.c].mode = "authenticate" => cred # 0)
       IN /\ cer' = [cer EXCEPT ![m.c].consumed = TRUE, ![m.c].recv = "result",
                               ![m.c].verdict = IF ok THEN "accepted" ELSE IF cer[m.c].expired THEN "none" ELSE "refused"]
          /\ cred' = IF ok /\ cer[m.c].mode = "register" THEN starter.ctx ELSE cred
  /\ UNCHANGED <<flow, pending, starter, ctx, msgs, closed>>

\* The verdict was sent to the device.  The bank flow forgets whatever is
\* pending now; the demo ends the ceremony the verdict is about.
ResultSent(c) ==
  /\ cer[c].recv = "result"
  /\ cer' = [Settles(c, IF cer[c].verdict = "accepted" THEN "verified" ELSE "rejected") EXCEPT ![c].recv = "none"]
  /\ pending' = IF flow = "bank" THEN 0 ELSE pending
  /\ UNCHANGED <<flow, starter, ctx, cred, msgs, closed>>

\* The verdict cannot be sent: the bank's task ends there.
ResultLost(c) ==
  /\ cer[c].recv = "result"
  /\ cer' = IF flow = "bank" THEN [cer EXCEPT ![c].recv = "none"]
            ELSE [Settles(c, "delivery_failed") EXCEPT ![c].recv = "none"]
  /\ UNCHANGED <<flow, pending, starter, ctx, cred, msgs, closed>>

\* Mutant of Context: the old ceremony and the credential survive.
ContextKept ==
  /\ flow = "demo" /\ ~closed /\ ctx < MaxContexts
  /\ ctx' = ctx + 1
  /\ UNCHANGED <<flow, cer, pending, starter, cred, msgs, closed>>

\* session_context: a new one interrupts the ceremony and drops the credential.
Context ==
  /\ flow = "demo" /\ ~closed /\ ctx < MaxContexts
  /\ ctx' = ctx + 1
  /\ cer' = IF ctx # 0 /\ pending # 0 THEN Settles(pending, "interrupted") ELSE cer
  /\ cred' = 0
  /\ UNCHANGED <<flow, pending, starter, msgs, closed>>

----------------------------------------------------------------------------
(* The end of the call: the receiving tasks are cancelled, then close().     *)

Close ==
  /\ ~closed /\ closed' = TRUE
  /\ LET cut == [c \in Ids |-> IF cer[c].recv # "none" THEN [cer[c] EXCEPT !.recv = "none"] ELSE cer[c]]
     IN cer' = IF flow = "demo" /\ pending # 0
               THEN [cut EXCEPT ![pending].consumed = TRUE, ![pending].future = IF @ = "none" THEN "ended" ELSE @]
               ELSE cut
  /\ pending' = IF flow = "bank" THEN 0 ELSE pending
  /\ ctx' = 0 /\ cred' = 0
  /\ UNCHANGED <<flow, starter, msgs>>

StarterStep ==
  \/ Begun \/ BeginFails \/ Shown \/ DemoCeremony \/ DemoResumes \/ DemoGivesUp(FALSE) \/ DemoAborted

ApprovalNext ==
  \/ Start \/ DemoRun \/ StarterStep \/ DemoGivesUp(TRUE) \/ StarterCancelled
  \/ \E c \in Ids, k \in Kinds : DeviceSends(c, k)
  \/ \E c \in Ids : Expire(c) \/ BankAnswers(c) \/ ResultSent(c) \/ ResultLost(c)
  \/ \E m \in msgs : ReceiveCancelled(m) \/ BankProof(m) \/ DemoProof(m)
  \/ Context \/ Close

ApprovalSpec == ApprovalInit /\ [][ApprovalNext]_approvalVars

\* Sends and requests have timeouts, and time passes.
ApprovalFairSpec == ApprovalSpec /\ WF_approvalVars(StarterStep) /\ \A c \in Ids : WF_approvalVars(Expire(c))

----------------------------------------------------------------------------
(* Properties                                                               *)

Stage(c) ==
  IF ~cer[c].begun THEN "new"
  ELSE IF cer[c].verdict # "none" THEN cer[c].verdict
  ELSE IF cer[c].recv = "execute" THEN "judging"
  ELSE IF c = pending /\ ~cer[c].consumed THEN "open"
  ELSE "closed"

Promise == INSTANCE Ceremony WITH stage <- [c \in Ids |-> Stage(c)], late <- {c \in Ids : cer[c].expired}

\* Both flows keep the promise of module Ceremony: no replayed, late, cancelled
\* or withdrawn proof is ever judged, and no verdict changes, whatever the
\* attempt, the device and the call do meanwhile (passkey.py:225, passkey_demo.py:109).
Implements == Promise!Spec

\* A credential enrolled in one session context is never there in another
\* (passkey_demo.py:102), although the proof may arrive after the change.
CredentialOfContext == cred # 0 => cred = ctx

Ceremonies == [begun : BOOLEAN, shown : BOOLEAN, consumed : BOOLEAN, expired : BOOLEAN,
               mode : {"register", "authenticate"}, recv : {"none", "execute", "result"},
               verdict : {"none", "accepted", "refused"},
               future : {"none", "verified", "rejected", "cancelled", "expired", "interrupted", "ended", "delivery_failed"}]

ApprovalTypes ==
  /\ flow \in {"bank", "demo"} /\ pending \in Ids \union {0} /\ msgs \subseteq [c : Ids, kind : Kinds]
  /\ starter \in [pc : {"idle", "begin", "send", "register", "authenticate", "wait", "abort"}, c : Ids \union {0}, ctx : Nat]
  /\ cer \in [Ids -> Ceremonies] /\ ctx \in Nat /\ cred \in Nat /\ closed \in BOOLEAN

\* A ceremony whose proof was not used has no verdict and nobody who judges it.
Unjudged(c) ==
  /\ ~cer[c].consumed => cer[c].recv = "none" /\ cer[c].verdict = "none"
  /\ cer[c].recv = "execute" => cer[c].verdict = "none"
  /\ ~cer[c].begun => ~cer[c].consumed /\ ~cer[c].expired /\ pending # c

\* A ceremony that is begun finds no other open; in the demonstration the one
\* that waits is the starter's own, of the context that is still announced.
OneOpen ==
  /\ starter.pc \in {"send", "wait", "abort"} => starter.c \in Ids /\ cer[starter.c].begun
  /\ At("begin") => flow = "bank" /\ (pending = 0 \/ cer[pending].consumed)
  /\ starter.pc \in {"register", "authenticate", "wait", "abort"} => flow = "demo"
  /\ flow = "demo" /\ ~At("idle") => starter.ctx # 0
  /\ flow = "demo" => /\ pending = (IF starter.pc \in {"send", "wait", "abort"} THEN starter.c ELSE 0)
                      /\ pending # 0 /\ ~cer[pending].consumed => ctx # 0 /\ starter.ctx = ctx

\* The inductive invariant behind the two properties above.
ApprovalInv == ApprovalTypes /\ (\A c \in Ids : Unjudged(c)) /\ OneOpen /\ CredentialOfContext

\* Whoever starts a ceremony is never stuck in it: run() gives up by itself
\* when the device stays silent (passkey_demo.py:193).
StarterReturns == starter.pc # "idle" ~> starter.pc = "idle"
=============================================================================
