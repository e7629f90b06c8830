--------------------------- MODULE MCMsrpConflict ---------------------------
(***************************************************************************)
(* Participants that meet trouble, one in a behaviour: both ends declare   *)
(* the same stream, as talker and as listener, with different values       *)
(* ("roomy"); one (Crowd) whose tables hold one record meets more talkers  *)
(* than that, with LeaveAll suppressed ("tight"); and the VLANs of an      *)
(* endpoint, with a record for each ("vlans") and with one record for      *)
(* three of them ("fewVlans").                                             *)
(***************************************************************************)
EXTENDS MsrpParticipant, Mvrp, TLC

CONSTANTS s1, s2, c1, v1, v2, v3

TwoStreams  == {s1, s2}
OneClass    == {c1}
TwoPayloads == {v1, v2}
Roomy       == [t \in Types |-> 4]

\* Nothing tells one value of the disputed stream from the other.
EitherPayload == Permutations(TwoPayloads)

SharedAttr == {<<"TalkerAdvertise", s1>>, <<"Listener", s1>>}

VARIABLES cport, csent, ccause, cheard, tables

crowdVars == <<cport, csent, ccause, cheard>>

Crowd == INSTANCE MsrpParticipant WITH
    port <- cport, sent <- csent, cause <- ccause, heard <- cheard,
    Payload <- {v3}, MaxRecords <- [t \in Types |-> 1],
    RedeclareRegisteredListeners <- FALSE, SuppressLeaveAll <- TRUE,
    OwnAttr <- {<<"TalkerAdvertise", s1>>, <<"TalkerFailed", s1>>},
    PeerAttr <- {<<"TalkerAdvertise", s1>>, <<"TalkerAdvertise", s2>>},
    Batch <- 2, Decl <- {"AskingFailed", "Ready"}

FewVlans == INSTANCE Mvrp WITH LastVid <- 3, MaxVlans <- 1

MCInit ==
    /\ Init /\ Crowd!Init
    /\ tables \in {"roomy", "tight", "vlans", "fewVlans"}
    /\ IF tables = "fewVlans" THEN FewVlans!MvInit ELSE MvInit

MCNext ==
    /\ UNCHANGED tables
    /\ \/ tables = "roomy" /\ Next /\ UNCHANGED <<mvVars, crowdVars>>
       \/ tables = "tight" /\ Crowd!Next /\ UNCHANGED <<mvVars, vars>>
       \/ tables = "vlans" /\ MvNext /\ UNCHANGED <<vars, crowdVars>>
       \/ tables = "fewVlans" /\ FewVlans!MvNext /\ UNCHANGED <<vars, crowdVars>>

MCSpec == MCInit /\ [][MCNext]_<<tables, vars, crowdVars, mvVars>>

\* Every participant is consistent after every PDU, timer and client call: the
\* records, observers and timers of the conflicting streams; the tables that
\* are too small, which never outgrow their capacity; and the VLANs, in a
\* table with room and in one without.
TablesAgree ==
    /\ PortAgrees
    /\ Crowd!TablesBounded
    /\ IF tables = "fewVlans" THEN FewVlans!VlansAgree ELSE VlansAgree
=============================================================================
