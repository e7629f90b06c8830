-------------------------------- MODULE Adp ---------------------------------
(***************************************************************************)
(* ATDECC discovery: the advertisers of several entities and the database  *)
(* of one controller (src/statusbar/nanoavb/nanoavb_adp.{hpp,cpp} and      *)
(* src/statusbar/atdecc/atdecc_adp_discovery.{hpp,cpp}).                   *)
(*   adpAdv[e]    the advertiser: whether it is Advertising, the           *)
(*                available_index_ it will send next, the identify index   *)
(*                it remembers and the one its ADPDU carries;              *)
(*   adpNet[e]    ADPDUs of e on their way to the controller;              *)
(*   adpDb        the controller's entries, the one seen longest ago first *)
(*                (last_seen and expiry_time are abstracted to this order);*)
(*   adpTold[e]   the available_index of the last on_entity_available or   *)
(*                on_entity_updated about e, NotTold after a departure;    *)
(*   adpEvicted   entities a full database has dropped without a word (a   *)
(*                history variable).                                       *)
(***************************************************************************)
EXTENDS Naturals, FiniteSets, Sequences

LOCAL INSTANCE SequencesExt

CONSTANTS Advertised,   \* entities on the network
          IndexMod,     \* available_index wraps here (2^32 in the code)
          MaxAdpdus,    \* ADPDUs of one entity in flight
          MaxEntities   \* capacity of AdpEntityDatabase

VARIABLES adpAdv, adpNet, adpDb, adpTold, adpEvicted

adpVars == <<adpAdv, adpNet, adpDb, adpTold, adpEvicted>>

NotTold == IndexMod

-----------------------------------------------------------------------------
(***************************************************************************)
(* The advertiser.                                                         *)
(***************************************************************************)
\* Construction: Stopped, index 0, no identify control advertised.
NewAdvertiser ==
    [state |-> "Stopped", index |-> 0, remembered |-> FALSE, identify |-> FALSE]

EntityAvailable(v) ==
    [type |-> "available", index |-> v.index]

EntityDeparting == [type |-> "departing", index |-> 0]

Transmit(e, m) == adpNet' = [adpNet EXCEPT ![e] = Append(@, m)]

\* send_entity_available by advertiser v of e: only a transmission that
\* succeeds moves available_index on.
SendEntityAvailable(e, v) ==
    \/ /\ Len(adpNet[e]) < MaxAdpdus
       /\ Transmit(e, EntityAvailable(v))
       /\ adpAdv' = [adpAdv EXCEPT ![e] = [v EXCEPT !.index = (@ + 1) % IndexMod]]
    \/ adpAdv' = [adpAdv EXCEPT ![e] = v] /\ UNCHANGED adpNet

\* send_entity_departing: a copy of the ADPDU with index 0.
SendEntityDeparting(e) ==
    \/ Len(adpNet[e]) < MaxAdpdus /\ Transmit(e, EntityDeparting)
    \/ UNCHANGED adpNet

\* update_adpdu_from_model: init_entity_available clears the ADPDU; what the
\* ENTITY descriptor does not hold is applied again.
UpdateAdpduFromModel(v) == [v EXCEPT !.identify = v.remembered]

UnchangedController == UNCHANGED <<adpDb, adpTold, adpEvicted>>

StartAdvertising(e) ==
    /\ adpAdv[e].state = "Stopped"
    /\ SendEntityAvailable(e, [adpAdv[e] EXCEPT !.state = "Advertising"])
    /\ UnchangedController

\* A Departing that could not be sent stops the advertiser all the same.
StopAdvertising(e) ==
    /\ adpAdv[e].state = "Advertising"
    /\ adpAdv' = [adpAdv EXCEPT ![e].state = "Stopped"]
    /\ SendEntityDeparting(e)
    /\ UnchangedController

NotifyEntityChanged(e) ==
    LET v == UpdateAdpduFromModel(adpAdv[e]) IN
    /\ IF v.state = "Advertising" THEN SendEntityAvailable(e, v)
       ELSE adpAdv' = [adpAdv EXCEPT ![e] = v] /\ UNCHANGED adpNet
    /\ UnchangedController

SetIdentifyControlIndex(e) ==
    /\ adpAdv' = [adpAdv EXCEPT ![e].remembered = TRUE, ![e].identify = TRUE]
    /\ UNCHANGED adpNet
    /\ UnchangedController

\* tick() once the reannounce interval has elapsed, and receive_adpdu of an
\* ENTITY_DISCOVER for everyone or for e, which the controller's send_discover
\* may send at any time and the network may lose.
Reannounce(e) ==
    /\ adpAdv[e].state = "Advertising"
    /\ SendEntityAvailable(e, adpAdv[e])
    /\ UnchangedController

\* The entity restarts without a word.
Reboot(e) ==
    /\ adpAdv' = [adpAdv EXCEPT ![e] = NewAdvertiser]
    /\ UNCHANGED adpNet
    /\ UnchangedController

-----------------------------------------------------------------------------
(***************************************************************************)
(* The controller's database, as operators on its entries.                 *)
(***************************************************************************)
Listed(db) == {db[k].id : k \in DOMAIN db}

Entry(db, e) == db[CHOOSE k \in DOMAIN db : db[k].id = e]

Without(db, E) == SelectSeq(db, LAMBDA x : x.id \notin E)

ProcessResult(db, e, m) ==
    CASE e \in Listed(db) /\ Entry(db, e).index # m.index -> "Updated"
      [] e \in Listed(db) /\ Entry(db, e).index = m.index -> "Unchanged"
      [] e \notin Listed(db) /\ Len(db) < MaxEntities     -> "Added"
      [] OTHER                                            -> "Full"

\* process_available: the entry is replaced and is now the last one seen; a
\* full database gives up the one seen longest ago.
ProcessAvailable(db, e, m) ==
    LET kept == IF ProcessResult(db, e, m) = "Full" THEN Tail(db) ELSE Without(db, {e})
    IN  Append(kept, [id |-> e, index |-> m.index])

HandleAvailable(e, m) ==
    /\ adpDb' = ProcessAvailable(adpDb, e, m)
    /\ adpTold' = IF ProcessResult(adpDb, e, m) = "Unchanged" THEN adpTold
                  ELSE [adpTold EXCEPT ![e] = m.index]
    /\ adpEvicted' = (IF ProcessResult(adpDb, e, m) = "Full"
                      THEN adpEvicted \cup {Head(adpDb).id} ELSE adpEvicted) \ {e}

\* The departure callback is due only for entities the database lists.
ForgetEntities(E) ==
    /\ adpDb' = Without(adpDb, E)
    /\ adpTold' = [e \in Advertised |->
                      IF e \in E \cap Listed(adpDb) THEN NotTold ELSE adpTold[e]]
    /\ UNCHANGED adpEvicted

ReceiveAdpdu(e) ==
    /\ adpNet[e] # <<>>
    /\ adpNet' = [adpNet EXCEPT ![e] = Tail(@)]
    /\ LET m == Head(adpNet[e]) IN
       IF m.type = "available" THEN HandleAvailable(e, m) ELSE ForgetEntities({e})
    /\ UNCHANGED adpAdv

\* tick() of the controller finds the valid_time of the entries of E over.
ExpireStale(E) ==
    /\ E # {} /\ E \subseteq Listed(adpDb)
    /\ ForgetEntities(E)
    /\ UNCHANGED <<adpAdv, adpNet>>

\* The network loses an ADPDU.
LoseAdpdu(e) ==
    /\ adpNet[e] # <<>>
    /\ adpNet' = [adpNet EXCEPT ![e] = Tail(@)]
    /\ UNCHANGED <<adpAdv, adpDb, adpTold, adpEvicted>>

-----------------------------------------------------------------------------
AdpInit ==
    /\ adpAdv = [e \in Advertised |-> NewAdvertiser]
    /\ adpNet = [e \in Advertised |-> <<>>]
    /\ adpDb = <<>>
    /\ adpTold = [e \in Advertised |-> NotTold]
    /\ adpEvicted = {}

AdpNext ==
    \/ \E e \in Advertised :
         \/ StartAdvertising(e) \/ StopAdvertising(e) \/ NotifyEntityChanged(e)
         \/ SetIdentifyControlIndex(e) \/ Reannounce(e) \/ Reboot(e)
         \/ ReceiveAdpdu(e) \/ LoseAdpdu(e)
    \/ \E E \in SUBSET Advertised : ExpireStale(E)

\* The timer of e's advertiser runs and its frames do not fail, and are not
\* lost, for ever; the controller's tick finds an entry that is not refreshed.
AdpFairness(e) ==
    /\ SF_adpVars(Reannounce(e) /\ adpNet' # adpNet)
    /\ SF_adpVars(ReceiveAdpdu(e))
    /\ WF_adpVars(\E E \in SUBSET Advertised : e \in E /\ ExpireStale(E))

-----------------------------------------------------------------------------
\* What discovery promises its user (NanoAvbAdpDiscovery's callbacks): it has
\* been told of exactly the entities listed and of those a full database gave
\* up; it knows the index the database holds, so that a change of index is
\* never missed; and the identify control set once stays in the ADPDU through
\* every rebuild ("Remembered across update_adpdu_from_model() rebuilds").
DirectoryAgrees ==
    /\ Len(adpDb) <= MaxEntities
    /\ Cardinality(Listed(adpDb)) = Len(adpDb)
    /\ \A e \in Advertised :
         /\ adpTold[e] # NotTold <=> e \in Listed(adpDb) \cup adpEvicted
         /\ e \in Listed(adpDb) => e \notin adpEvicted
                                   /\ adpTold[e] = Entry(adpDb, e).index
         /\ adpAdv[e].identify = adpAdv[e].remembered

\* An entity that is silent for good leaves the directory for good, and one
\* that keeps advertising is listed again and again, whatever is lost and
\* whatever the other entities do.
DirectoryFollows(e) ==
    /\ <>[](adpAdv[e].state = "Stopped") => <>[](e \notin Listed(adpDb))
    /\ <>[](adpAdv[e].state = "Advertising") => []<>(e \in Listed(adpDb))
=============================================================================
