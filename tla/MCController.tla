---------------------------- MODULE MCController ----------------------------
(***************************************************************************)
(* The controller's side, each part on its own in a behaviour: connection  *)
(* management with its listener and talkers ("acmp"), discovery ("adp"),   *)
(* the descriptor crawl of an entity ("crawl") and the tasks other threads *)
(* hand to its reactor ("marshal").                                        *)
(***************************************************************************)
EXTENDS Acmp, Adp, ControllerSimple

\* A CONFIGURATION that lists one stream; the detail view also wants a
\* descriptor the entity does not have.
MCCounts == <<"Stream">>

CONSTANT Watched   \* one entity; the others are like it

VARIABLE part

ctlVars == <<part, vars, adpVars, csVars, rmVars>>

CtlInit ==
    /\ part \in {"acmp", "adp", "crawl", "marshal"}
    /\ Init /\ AdpInit /\ CrawlInit /\ MarshalInit

CtlNext ==
    /\ UNCHANGED part
    /\ \/ part = "acmp" /\ Next /\ UNCHANGED <<adpVars, csVars, rmVars>>
       \/ part = "adp" /\ AdpNext /\ UNCHANGED <<vars, csVars, rmVars>>
       \/ part = "crawl" /\ CrawlNext /\ UNCHANGED <<vars, adpVars, rmVars>>
       \/ part = "marshal" /\ MarshalNext /\ UNCHANGED <<vars, adpVars, csVars>>

\* FairSpec, AdpFairness(Watched), CrawlFairness and MarshalFairness, each for
\* the behaviours of its part.
CtlSpec ==
    /\ CtlInit /\ [][CtlNext]_ctlVars
    /\ WF_vars(part = "acmp" /\ ListenerReceive)
    /\ WF_vars(part = "acmp" /\ Tick(TRUE, TRUE))
    /\ \A t \in Talkers : WF_vars(part = "acmp" /\ TalkerReceive(t))
    /\ SF_adpVars(part = "adp" /\ Reannounce(Watched) /\ adpNet' # adpNet)
    /\ SF_adpVars(part = "adp" /\ ReceiveAdpdu(Watched))
    /\ WF_adpVars(/\ part = "adp"
                  /\ \E E \in SUBSET Advertised : Watched \in E /\ ExpireStale(E))
    /\ WF_csVars(part = "crawl" /\ CrawlTick(csInflight, TRUE))
    /\ SF_csVars(part = "crawl" /\ \E x \in DOMAIN csInflight : ReceiveAecp(x))
    /\ WF_rmVars(part = "marshal" /\ ReactorTurn)
    /\ \A t \in Posters : WF_rmVars(part = "marshal" /\ WriteWake(t))

\* The controller is consistent after every packet, tick, user command and
\* posted task: its user was told of exactly the entities it lists
\* (NanoAvbAdpDiscovery), and no descriptor read, no completion and no task is
\* ever stranded (ControllerSimple, AemControllerContext and ReactorMarshal).
ControllerAgrees == DirectoryAgrees /\ CrawlAgrees /\ MarshalAgrees

\* Whatever is lost: the directory comes to show who advertises and who does
\* not (reannouncement and valid_time), an entity that stays in it is read to
\* the end (the retries of send_next_descriptor_read), and every task posted
\* to the reactor runs.
ControllerSettles == DirectoryFollows(Watched) /\ CrawlFinishes /\ PostedTasksRun
=============================================================================
