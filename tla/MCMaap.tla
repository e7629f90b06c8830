------------------------------ MODULE MCMaap -------------------------------
(***************************************************************************)
(* Maap on small instances: in a behaviour either two stations on a LAN    *)
(* that delivers every frame, or two that claim one address each over a    *)
(* network that loses and delays.                                          *)
(***************************************************************************)
EXTENDS Maap, TLC

CONSTANTS n1, n2

TwoNodes == {n1, n2}
TwoRanks == n1 :> 1 @@ n2 :> 2

VARIABLES lossyNode, lossyNet, lan

L == INSTANCE Maap WITH node <- lossyNode, net <- lossyNet, Lossy <- TRUE,
                        PoolSize <- 2, Counts <- {1}, ProbeRetransmits <- 1,
                        Window <- 1

MCInit == Init /\ L!Init /\ lan \in {"reliable", "lossy"}

MCNext ==
    \/ lan = "reliable" /\ Next /\ UNCHANGED <<lan, lossyNode, lossyNet>>
    \/ lan = "lossy" /\ L!Next /\ UNCHANGED <<lan, node, net>>

MCSpec ==
    /\ MCInit /\ [][MCNext]_<<lan, vars, L!vars>>
    /\ \A n \in Nodes : /\ WF_<<lossyNode, lossyNet>>(lan = "lossy" /\ L!ProbeTimer(n))
                        /\ WF_<<lossyNode, lossyNet>>(lan = "lossy" /\ L!AnnounceTimer(n))
    /\ \A n, m \in Nodes : WF_<<lossyNode, lossyNet>>(lan = "lossy" /\ L!Receive(n, m))

\* ConflictEnds of Maap, where frames are lost: announcing ends a double claim.
LossyConflictEnds == L!ConflictEnds
=============================================================================
