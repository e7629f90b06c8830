------------------------- MODULE MCMsrpParticipant --------------------------
EXTENDS MsrpParticipant

CONSTANTS s1, c1, v1

OneStream == {s1}
OneClass == {c1}

OnePayload == {v1}

Roomy == [t \in Types |-> 4]

\* A talker: it advertises s1 and declares its domain; the peer answers with
\* a Listener and its own Domain.
TalkerOwn  == {<<"TalkerAdvertise", s1>>, <<"Domain", c1>>}
TalkerPeer == {<<"Listener", s1>>, <<"Domain", c1>>}
=============================================================================
