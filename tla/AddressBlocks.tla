--------------------------- MODULE AddressBlocks ----------------------------
(***************************************************************************)
(* What MAAP promises a talker: stations own blocks of addresses, no       *)
(* address has two owners, and a station gives up its block before it owns *)
(* another.                                                                *)
(***************************************************************************)
CONSTANTS Stations, Addresses

VARIABLE owned      \* the addresses each station may stream to

Init == owned = [n \in Stations |-> {}]

Claim(n, B) ==
    /\ owned[n] = {} /\ B # {}
    /\ \A m \in Stations \ {n} : owned[m] \cap B = {}
    /\ owned' = [owned EXCEPT ![n] = B]

GiveUp(n) ==
    /\ owned[n] # {}
    /\ owned' = [owned EXCEPT ![n] = {}]

Next == \E n \in Stations : GiveUp(n) \/ \E B \in SUBSET Addresses : Claim(n, B)

Spec == Init /\ [][Next]_owned
=============================================================================
