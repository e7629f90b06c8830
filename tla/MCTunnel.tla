------------------------------ MODULE MCTunnel ------------------------------
(***************************************************************************)
(* The tunnel on small instances, in a behaviour either the rendezvous and *)
(* the watchdog of two sites, or the audio from one site to the other.     *)
(***************************************************************************)
EXTENDS UdptunTransport, UdptunAudio

\* The clock the source anchors on may be off by the whole buffer and more.
SomeSteps == {0, 40}

\* The live TAI wanders back and forth by a frame.
SomeNoise == {-2}

VARIABLE part

MCInit ==
    /\ TunnelInit /\ AudioInit
    /\ part \in {"transport", "audio"}

MCNext ==
    \/ part = "transport" /\ TunnelNext /\ UNCHANGED <<part, audioVars>>
    \/ part = "audio" /\ AudioNext /\ UNCHANGED <<part, tunnelVars>>

MCSpec ==
    /\ MCInit /\ [][MCNext]_<<part, tunnelVars, audioVars>>
    /\ WF_clock(part = "transport" /\ TimePasses)

\* What the two sites and the server know of a rendezvous agrees, and the audio
\* of the tunnel is the right frame at the right time, through outages and
\* sources that anchor again.
TunnelAgrees == RendezvousAgrees /\ AudioHeard
=============================================================================
