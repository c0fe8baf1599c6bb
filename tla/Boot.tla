-------------------------------- MODULE Boot --------------------------------
(***************************************************************************)
(* How a job of the LiveKit agent (main.py) finds out what it is about        *)
(* before its call starts: the outbound call it belongs to, who is calling    *)
(* and for which business, and the voice it speaks with.                     *)
(*                                                                         *)
(* Participants join while this is going on: what was read before an await    *)
(* may be out of date after it.  Names, numbers and ids are reduced to where   *)
(* they come from: "room" (its name), "meta" (a participant's metadata),       *)
(* "claim" (the outbound call), "default" (the environment), "none".          *)
(***************************************************************************)
EXTENDS Integers, Sequences, FiniteSets

CONSTANT Confs    \* the configurations explored

VARIABLES
  conf,   \* the configuration of the job, and what it meets
  main,   \* the entrypoint
  boot    \* who is in the room, and what was found out so far

bvars == <<conf, main, boot>>

Nobody == [user |-> "none", kind |-> "voice", business |-> "default", agent |-> "none"]

BootInit ==
  /\ conf \in Confs
  /\ main = "claim"
  /\ boot = [here |-> conf.here, granted |-> FALSE, claimed |-> FALSE, id |-> Nobody, voice |-> "none"]

\* The participant who is on the way is in the room.
Joins ==
  /\ conf.joins # "none" /\ Len(boot.here) = Len(conf.here) /\ main \in {"claim", "resolve", "await"}
  /\ boot' = [boot EXCEPT !.here = Append(@, conf.joins)]
  /\ UNCHANGED <<conf, main>>

----------------------------------------------------------------------------
(* The outbound call                                                        *)

\* _extract_outbound_call_ref_from_ctx: in the job's metadata, or in the
\* attributes or SIP headers of a participant who is there.
Reference == conf.outbound = "job" \/ (conf.outbound \in {"participant", "header"} /\ boot.here # <<>>)

\* An outbound call is claimed; without its context there is no call.  Headers
\* that cannot be read are no reference, and a grant that cannot be read is an
\* empty one, with which the call goes on.  The service may have granted a claim
\* whose answer is lost.
Claim ==
  /\ main = "claim"
  /\ \/ (~Reference \/ conf.outbound = "header") /\ main' = "resolve" /\ UNCHANGED boot
     \/ Reference /\ main' = "resolve" /\ boot' = [boot EXCEPT !.granted = TRUE, !.claimed = ~conf.garbled]
     \/ Reference /\ main' = "raised" /\ boot' \in {boot, [boot EXCEPT !.granted = TRUE]}
  /\ UNCHANGED conf

----------------------------------------------------------------------------
(* Who is calling                                                           *)

\* A participant: "blank" has nothing to tell, "email" and "phone" are in its
\* metadata, "coded" is in its identity.
OfParticipant(p) ==
  CASE p = "email" -> [user |-> "meta", kind |-> "web", business |-> "meta", agent |-> "meta"]
    [] p = "phone" -> [user |-> "meta", kind |-> "voice", business |-> "meta", agent |-> "meta"]
    [] p = "coded" -> [user |-> "meta", kind |-> "web", business |-> "default", agent |-> "meta"]
    [] OTHER -> Nobody

\* A web room's name tells everything, a phone room's the number.
OfRoom ==
  CASE conf.room = "web" -> [user |-> "room", kind |-> "web", business |-> "room", agent |-> "room"]
    [] conf.room = "phone" -> [Nobody EXCEPT !.user = "room"]
    [] OTHER -> Nobody

\* _participant_identity_from_ctx: from the room, or else of the first
\* participant with an identity.
Identity(here) ==
  LET known == {i \in DOMAIN here : here[i] # "blank"}
  IN IF OfRoom # Nobody \/ known = {} THEN OfRoom
     ELSE OfParticipant(here[CHOOSE i \in known : \A j \in known : i <= j])

\* The claim's business, agent and recipient come first.
Overlay(id) == IF boot.claimed
               THEN [user |-> IF conf.recipient THEN "claim" ELSE id.user, kind |-> "voice", business |-> "claim", agent |-> "claim"]
               ELSE id

\* The overrides of a web call come with a participant's metadata.
Overrides == conf.override \/ \E i \in DOMAIN boot.here : boot.here[i] # "blank"
NeedsIdentity(id) == conf.require /\ id.user = "none"
NeedsMetadata(id) == id.kind = "web" /\ ~Overrides /\ boot.here = <<>>

Verified(id) == IF conf.require /\ id.user = "none" THEN "raised" ELSE "config"

\* Mutant of Identify: every call waits for its participant.
IdentifyWaits ==
  /\ main = "resolve"
  /\ boot' = [boot EXCEPT !.id = Overlay(Identity(boot.here))]
  /\ main' = "await"
  /\ UNCHANGED conf

\* _init_session_userdata, up to the wait for a participant if one is needed.
Identify ==
  LET id == Overlay(Identity(boot.here))
  IN /\ main = "resolve"
     /\ boot' = [boot EXCEPT !.id = id]
     /\ main' = IF NeedsIdentity(id) \/ NeedsMetadata(id) THEN "await" ELSE Verified(id)
     /\ UNCHANGED conf

\* Somebody is there: the identity is read again, without the claim.  Or nobody
\* came in time, or the room is not connected.
Awaited ==
  /\ main = "await"
  /\ \/ boot.here # <<>> /\ boot' = [boot EXCEPT !.id = Identity(boot.here)]
     \/ UNCHANGED boot
  /\ main' = Verified(boot'.id)
  /\ UNCHANGED conf

\* The agent's configuration is fetched or empty: then an outbound call is
\* refused, and one of an agent that makes none.  The conversation of a known
\* caller is resolved or keeps the name it has; the request may raise, and a
\* service that is required must be there.
Configure ==
  LET known == boot.id.user # "none"
  IN /\ main = "config"
     /\ \/ main' = "authorize" /\ (~known \/ conf.service \/ ~conf.needed)
        \/ main' = "raised" /\ (boot.claimed \/ (known /\ (conf.service \/ conf.needed)))
     /\ UNCHANGED <<conf, boot>>

----------------------------------------------------------------------------
(* The voice: _build_tts_engine_for_language.  A Deepgram model is reduced to  *)
(* the language at the end of its name, "" when there is none.               *)

Languages == {"en", "fr"}

\* A job has the entrypoint of one language.
ASSUME BootAssumption == \A c \in Confs : c.lang \in Languages

\* _strict_language_aware_deepgram_model
StrictModel(model) == IF model \in Languages \ {conf.lang} \/ model = "" THEN conf.lang ELSE model

\* A voice server is named for this call, or Odion's is asked for.
Requested == conf.endpoint \/ conf.provider = "odion"
UsesDeepgram == conf.provider = "deepgram" \/ (conf.provider = "custom" /\ ~Requested)
Experiment == ~Requested /\ conf.experiment

\* _should_use_odion_tts_for_language
SavedClone == conf.saved = "odion" /\ conf.savedVoice # "" /\ conf.scope \in {"all", conf.lang}

\* The cloned voice, or Odion's own.
Clones == IF Requested THEN conf.mode = "cloned" /\ conf.savedVoice # ""
          ELSE conf.mode = "cloned" \/ (conf.mode = "auto" /\ (Experiment \/ SavedClone))

\* Mutant of Voices: an engine that cannot be built is replaced.
VoicesLenient ==
  IF UsesDeepgram THEN {StrictModel(conf.model)}
  ELSE IF conf.saved = "deepgram" /\ ~Requested THEN {StrictModel(conf.savedVoice)}
  ELSE IF ~conf.enabled /\ ~Requested THEN {conf.lang}
  ELSE {IF Clones THEN "clone" ELSE "odion", conf.lang}

\* The engine, or the error that there is none, when Odion's is not available.
Voices ==
  IF UsesDeepgram THEN {StrictModel(conf.model)}
  ELSE IF conf.saved = "deepgram" /\ ~Requested THEN {StrictModel(conf.savedVoice)}
  ELSE IF ~conf.enabled /\ ~Requested THEN {conf.lang}
  ELSE {IF Clones THEN "clone" ELSE "odion",
        IF (Clones /\ conf.strict) \/ Requested THEN "error" ELSE conf.lang}

Build ==
  /\ main = "build"
  /\ \E voice \in Voices : /\ boot' = [boot EXCEPT !.voice = voice]
                           /\ main' = IF voice = "error" THEN "raised" ELSE "start"
  /\ UNCHANGED conf

----------------------------------------------------------------------------
Setup == Claim \/ Identify \/ Awaited \/ Configure \/ Build

(* Properties                                                               *)

\* Who joins, and what is missing, does not change whose call it is: a claimed
\* call with a recipient stays his, for the business and the agent that placed
\* it; no caller hears a voice of the other language; and a configured clone is
\* not replaced by another voice where consistency is strict.
IdentityKept ==
  /\ (boot.claimed /\ conf.recipient /\ main \notin {"claim", "resolve"})
       => boot.id = [user |-> "claim", kind |-> "voice", business |-> "claim", agent |-> "claim"]
  /\ boot.voice \notin Languages \ {conf.lang}
  /\ (main = "start" /\ conf.strict /\ "clone" \in Voices) => boot.voice = "clone"

\* "never start a correlated call without its context" (main.py:2105): a call
\* whose participant carries the reference of an outbound call is that call.
CorrelatedHasContext ==
  (main = "start" /\ conf.outbound # "no" /\ boot.here # <<>>) => boot.claimed
=============================================================================
