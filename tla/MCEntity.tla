------------------------------ MODULE MCEntity ------------------------------
(***************************************************************************)
(* One entity seen from two sides, each on its own in a behaviour: the     *)
(* host with its machines and main loop, and its MSRP client with the      *)
(* transmit gate.                                                          *)
(***************************************************************************)
EXTENDS EntityHost, MsrpHandler

CONSTANTS s1, cls, v1

OneStream  == {s1}
OneClass   == {cls}
OnePayload == {v1}
Roomy      == [t \in Types |-> 4]

VARIABLE part

EntityInit ==
    /\ HostInit /\ HandlerInit
    /\ \/ part = "host" /\ role = "talker"
       \/ part = "srp" /\ lan.link = "up"

EntityNext ==
    \/ part = "host" /\ HostNext /\ UNCHANGED <<part, handlerVars>>
    \/ part = "srp" /\ HandlerNext /\ UNCHANGED <<part, hostVars>>

EntitySpec ==
    EntityInit /\ [][EntityNext]_<<part, hostVars, handlerVars>> /\ HostFairness
=============================================================================
