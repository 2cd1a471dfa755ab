-------------------------------- MODULE Wiring --------------------------------
(***************************************************************************)
(* How one topic prefix and one device identifier become the topics a      *)
(* publisher publishes to (application/topics.py) and the filters a        *)
(* consumer subscribes with (presentation/container.py), and which of the  *)
(* topics the filters select.  The two files build their strings apart     *)
(* from each other and trim them differently.                              *)
(*                                                                         *)
(* A string is a sequence of characters: "x" stands for any character but  *)
(* a blank, a slash and the wildcards of MQTT, and the name of a channel   *)
(* is a single character.                                                  *)
(***************************************************************************)
EXTENDS Integers, Sequences, FiniteSetsExt, SequencesExt

Blank == " "
Slash == "/"
Plus == "+"

\* What a configuration accepts for either string: anything at all.
Strings(length) == BoundedSeq({"x", Blank, Slash}, length)

PositionsBut(s, char) == {i \in DOMAIN s : s[i] # char}

\* str.strip()
Strip(s) ==
    LET kept == PositionsBut(s, Blank) IN
    IF kept = {} THEN <<>> ELSE SubSeq(s, Min(kept), Max(kept))

\* str.rstrip("/")
RStrip(s) == SubSeq(s, 1, Max(PositionsBut(s, Slash) \cup {0}))

-----------------------------------------------------------------------------
(* The publisher's side and the consumer's                                  *)

\* TopicFactory and SensorPublisher refuse what is blank; nothing else that
\* the settings let through is refused by a constructor.
Builds(prefix, device) == Strip(prefix) # <<>> /\ Strip(device) # <<>>

TopicPrefixMutant(prefix) == RStrip(prefix)

TopicPrefix(prefix) == RStrip(Strip(prefix))

Topic(prefix, device, channel) ==
    TopicPrefix(prefix) \o <<Slash>> \o Strip(device) \o <<Slash, channel>>

FilterPrefixMutant(prefix) == prefix

FilterPrefix(prefix) == RStrip(prefix)

Filter(prefix, channel) == FilterPrefix(prefix) \o <<Slash, Plus, Slash, channel>>

-----------------------------------------------------------------------------
(* The broker                                                               *)

\* A topic is selected if it reads like the filter but for its `+', which
\* stands for any one level: for a stretch of the topic without a slash.
Matches(filter, topic) ==
    LET stretch == Len(topic) - Len(filter) + 1 IN
    /\ stretch >= 0
    /\ \E plus \in DOMAIN filter :
        /\ filter[plus] = Plus
        /\ \A i \in 1 .. plus - 1 : topic[i] = filter[i]
        /\ \A i \in plus .. plus + stretch - 1 : topic[i] # Slash
        /\ \A i \in plus + 1 .. Len(filter) : topic[i + stretch - 1] = filter[i]

\* The pairs of a channel that is published and a filter that selects it.
Routes(prefix, device) ==
    {route \in {"temperature", "alert", "status"} \X {"temperature", "alert"} :
        Matches(Filter(prefix, route[2]), Topic(prefix, device, route[1]))}

=============================================================================
