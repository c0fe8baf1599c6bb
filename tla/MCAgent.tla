------------------------------- MODULE MCAgent -------------------------------
(* The LiveKit agent's job and its conversation on small instances.          *)
EXTENDS Timeline

Billed == [billing |-> "on", failClosed |-> TRUE, service |-> TRUE, needed |-> TRUE, recording |-> TRUE,
           outbound |-> "no", recipient |-> TRUE, room |-> "phone", here |-> <<>>, joins |-> "none",
           require |-> TRUE, override |-> FALSE, items |-> 0, replies |-> FALSE, setupOnly |-> FALSE,
           lang |-> "en", garbled |-> FALSE, saved |-> "deepgram", savedVoice |-> "en", scope |-> "all", provider |-> "none",
           model |-> "", endpoint |-> FALSE, experiment |-> FALSE, mode |-> "auto", enabled |-> TRUE, strict |-> TRUE]
Quiet == [Billed EXCEPT !.billing = "off", !.failClosed = FALSE, !.service = FALSE, !.needed = FALSE, !.recording = FALSE]
SetupOnly == [Quiet EXCEPT !.setupOnly = TRUE]
Plain == [Billed EXCEPT !.billing = "bypass", !.recording = FALSE]

\* Jobs that are billed; recorded, of an outbound call; refused; without any service.
Lives ==
  { [Billed EXCEPT !.recording = FALSE], [Billed EXCEPT !.failClosed = FALSE, !.recording = FALSE],
    [Billed EXCEPT !.billing = "bypass", !.outbound = "job"],
    [Billed EXCEPT !.billing = "off"], Quiet }

\* Every way to find out who is calling.
CallerConfs ==
  { [SetupOnly EXCEPT !.room = r, !.outbound = o[1], !.garbled = o[2], !.recipient = p, !.here = h, !.joins = j, !.require = q,
                  !.override = v] :
      r \in {"web", "phone", "other"}, o \in {<<"no", FALSE>>} \union ({"job", "participant", "header"} \X BOOLEAN), p \in BOOLEAN,
      h \in {<<>>, <<"blank">>, <<"phone">>}, j \in {"none", "email", "coded"}, q \in BOOLEAN, v \in BOOLEAN }

\* The participant of an outbound call joins while he is waited for.
Late == {[SetupOnly EXCEPT !.room = "other", !.outbound = "participant", !.joins = "phone"]}

\* Every way to choose a voice.
VoiceConfs ==
  { [SetupOnly EXCEPT !.lang = l, !.saved = s, !.savedVoice = w, !.scope = c, !.provider = p, !.model = d,
                  !.endpoint = e, !.experiment = x, !.mode = k, !.enabled = n, !.strict = t] :
      l \in Languages, s \in {"none", "deepgram", "odion"}, w \in {"", "fr"}, c \in {"all", "fr"},
      p \in {"none", "deepgram", "custom", "odion"}, d \in {"", "en", "fr"}, e \in BOOLEAN, x \in BOOLEAN,
      k \in {"auto", "cloned", "default"}, n \in BOOLEAN, t \in BOOLEAN }

\* Conversations, one that billing may end, and replies.
Talking == {[Plain EXCEPT !.items = MaxItems], [Billed EXCEPT !.recording = FALSE, !.items = 1]}
Replying == {[Plain EXCEPT !.service = FALSE, !.needed = FALSE, !.items = MaxItems],
             [Plain EXCEPT !.service = FALSE, !.needed = FALSE, !.replies = TRUE]}

MCConfs == Lives \union CallerConfs \union VoiceConfs \union Talking \union Replying
=============================================================================
