----------------------------- MODULE EntityHost -----------------------------
(***************************************************************************)
(* An AVB entity from start to stop: AvbEntityHost with the small state    *)
(* machines it drives (src/statusbar/avb_entity/avb_entity_host.cpp and    *)
(* nanoavb/nanoavb_*_sm.hpp), the kit's talker advertisement, and the main *)
(* loop of avb_entity_runner.hpp with its gPTP watchdog.  Everything here  *)
(* runs on the reactor thread: an action is one reactor callback or one    *)
(* pass of the loop's checks.                                              *)
(*                                                                         *)
(* host is the entity:                                                     *)
(*   sup, gptp, tkr, mvrp, eng   states of the supervisor, gPTP, MSRP      *)
(*           talker, MVRP and talker engine machines;                      *)
(*   locked  gptp_ctx_.time_locked;   send  send_allowed and play_allowed; *)
(*   adp     the advertiser is running;   dom  the SR domain is declared;  *)
(*   adv     the destination address declared for each talker stream;      *)
(*   dest    the address ACMP hands out (its generation);                  *)
(*   maap    MaapAddressAcquirer::ready.                                   *)
(* runner is the loop: on, last (last_state), aged (GPTP_LOCK_TIMEOUT has  *)
(* passed since last_state_change_time), gm (the identity the announce     *)
(* handler remembers) and had (had_grandmaster).  lan is the world: the    *)
(* link, what the link monitor saw of it, the grandmaster that announces,  *)
(* whether it was heard since the watchdog was last restarted, and how     *)
(* often the world may still change.                                       *)
(***************************************************************************)
EXTENDS Naturals

CONSTANTS TalkerStreams,      \* talker streams
          Masters,      \* clock identities of grandmasters
          NoMaster,
          Unset,        \* no declaration
          MaxChanges,   \* changes of link, grandmaster and readiness
          MaxAcquired   \* MAAP blocks acquired, at most

ASSUME HostAssumption ==
    /\ NoMaster \notin Masters
    /\ MaxChanges \in Nat /\ MaxAcquired \in Nat /\ Unset \notin Nat

VARIABLES host, runner, lan

hostVars == <<host, runner, lan>>

Host == [sup  : {"Start", "Down", "Init", "Ready"},
         gptp : {"Start", "Unlocked", "Acquiring", "Locked"},
         tkr  : {"Start", "Idle", "Advertising", "Ready"},
         mvrp : {"Start", "NotJoined", "Joining"},
         eng  : {"Start", "Off", "Priming"},
         locked : BOOLEAN, send : BOOLEAN, adp : BOOLEAN, dom : BOOLEAN,
         adv  : [TalkerStreams -> 0..MaxAcquired \cup {Unset}],
         dest : 0..MaxAcquired,
         maap : BOOLEAN]

FreshHost == [sup |-> "Start", gptp |-> "Start", tkr |-> "Start", mvrp |-> "Start",
              eng |-> "Start", locked |-> FALSE, send |-> FALSE, adp |-> FALSE,
              dom |-> FALSE, adv |-> [s \in TalkerStreams |-> Unset], dest |-> 0,
              maap |-> TRUE]

HostInit ==
    /\ host = FreshHost
    /\ runner = [on |-> FALSE, last |-> "Start", aged |-> FALSE,
                 gm |-> NoMaster, had |-> FALSE]
    /\ lan \in [link : {"up", "down"}, seen : {"up"}, gm : {NoMaster},
                heard : {FALSE}, left : {MaxChanges}]

-----------------------------------------------------------------------------
(***************************************************************************)
(* The machines.  One in Start takes its UCT transition before the first   *)
(* event it is given; reset() puts it back to Start and touches no context.*)
(***************************************************************************)
\* The kit waits for MAAP: the address would not be the one ACMP hands out.
AdvertiseTalkerStreams(h) ==
    IF h.maap THEN [h EXCEPT !.adv = [s \in TalkerStreams |-> h.dest]] ELSE h

MsrpTalkerAdvertise(h) == AdvertiseTalkerStreams([h EXCEPT !.dom = TRUE])

TalkerBegin(h) == IF h.tkr = "Start" THEN [h EXCEPT !.tkr = "Idle"] ELSE h

EngineEvent(h, e) ==
    [h EXCEPT !.eng = CASE e = "Fatal" -> "Off"
                        [] @ \in {"Start", "Off"} /\ e = "AudioReady" -> "Priming"
                        [] OTHER -> @]

\* mark_ready only primes the engine of an entity that is Ready.
TalkerEvent(h, e) ==
    LET b == TalkerBegin(h) IN
    CASE b.tkr = "Idle" /\ e = "StartAdvertise" ->
             MsrpTalkerAdvertise([b EXCEPT !.tkr = "Advertising"])
      [] b.tkr = "Advertising" /\ e = "Ready" ->
             LET r == [b EXCEPT !.tkr = "Ready"]
             IN  IF r.sup = "Ready" THEN EngineEvent(r, "AudioReady") ELSE r
      [] b.tkr = "Ready" /\ e = "Lost" ->
             MsrpTalkerAdvertise([b EXCEPT !.tkr = "Advertising"])
      [] OTHER -> b

MvrpAcquire(h) == [h EXCEPT !.mvrp = IF @ = "Joining" THEN @ ELSE "Joining"]

EnterReady(h) ==
    [TalkerEvent(MvrpAcquire(h), "StartAdvertise") EXCEPT !.send = TRUE]

StopAll_mutKeepsTalker(h) ==
    [EngineEvent(h, "Fatal") EXCEPT !.adp = FALSE, !.gptp = "Start",
                                    !.mvrp = "Start", !.send = FALSE]

\* The Down entry hook.  The machines are reset; what MSRP declares stays.
StopAll(h) ==
    [EngineEvent(h, "Fatal") EXCEPT !.adp = FALSE, !.gptp = "Start",
                                    !.mvrp = "Start", !.tkr = "Start", !.send = FALSE]

\* init_iface, then the entry hook of Down.
SupervisorBegin(h) ==
    IF h.sup # "Start" THEN h
    ELSE StopAll([h EXCEPT !.gptp = "Start", !.mvrp = "Start", !.sup = "Down"])

\* AsCapableUp takes the machine to Acquiring, whose entry restarts the servo.
GptpAsCapableUp(h) ==
    IF h.gptp \in {"Start", "Unlocked"}
    THEN [h EXCEPT !.gptp = "Acquiring", !.locked = FALSE] ELSE h

StartProtocols(h) == [GptpAsCapableUp(h) EXCEPT !.adp = TRUE]

SupervisorEvent(h, e) ==
    LET b == SupervisorBegin(h) IN
    CASE b.sup = "Down" /\ e = "LinkUp" -> [StartProtocols(b) EXCEPT !.sup = "Init"]
      [] b.sup = "Init" /\ e = "GptpLocked" -> EnterReady([b EXCEPT !.sup = "Ready"])
      [] b.sup \in {"Init", "Ready"} /\ e = "LinkDown" -> StopAll([b EXCEPT !.sup = "Down"])
      [] b.sup = "Init" /\ e = "Timeout" -> StopAll([b EXCEPT !.sup = "Down"])
      [] OTHER -> b

\* report_locked tells the supervisor.
GptpLockedStable(h) ==
    CASE h.gptp = "Acquiring" ->
             SupervisorEvent([h EXCEPT !.gptp = "Locked", !.locked = TRUE], "GptpLocked")
      [] h.gptp = "Start" -> [h EXCEPT !.gptp = "Unlocked"]
      [] OTHER -> h

OnGptpAnnounce(h) == IF h.locked THEN h ELSE GptpLockedStable(h)

OnTimeout(h) == IF h.sup = "Init" THEN SupervisorEvent(h, "Timeout") ELSE h

WithdrawFromTheNetwork(h) ==
    [h EXCEPT !.adv = [s \in TalkerStreams |-> Unset], !.dom = FALSE, !.adp = FALSE]

-----------------------------------------------------------------------------
(***************************************************************************)
(* The reactor's callbacks.                                                *)
(***************************************************************************)
\* The kit's start(), in static or in MAAP address mode, then the head of the
\* main loop: the first link-up is driven whatever the link is, and the
\* monitor reports changes from there on.
Start(maapMode) ==
    /\ ~runner.on /\ runner.last = "Start"
    /\ LET h == SupervisorEvent([host EXCEPT !.maap = ~maapMode], "LinkUp")
       IN  /\ host' = h
           /\ runner' = [runner EXCEPT !.on = TRUE, !.last = h.sup]
    /\ lan' = [lan EXCEPT !.seen = lan.link]

\* Shutdown was requested: the loop ends and the tool calls stop().
Stop ==
    /\ runner.on
    /\ host' = WithdrawFromTheNetwork(host)
    /\ runner' = [runner EXCEPT !.on = FALSE]
    /\ UNCHANGED lan

LinkReport ==
    /\ runner.on /\ lan.seen # lan.link
    /\ host' = SupervisorEvent(host, IF lan.link = "up" THEN "LinkUp" ELSE "LinkDown")
    /\ lan' = [lan EXCEPT !.seen = lan.link]
    /\ UNCHANGED runner

RxAnnounce_mutFirstOnly ==
    /\ runner.on /\ lan.link = "up" /\ lan.gm # NoMaster
    /\ host' = IF runner.gm = NoMaster THEN OnGptpAnnounce(host) ELSE host
    /\ runner' = [runner EXCEPT !.gm = lan.gm]
    /\ lan' = [lan EXCEPT !.heard = TRUE]

\* The callback fires when the identity changes; it is never forgotten.
RxAnnounce ==
    /\ runner.on /\ lan.link = "up" /\ lan.gm # NoMaster
    /\ host' = IF lan.gm # runner.gm THEN OnGptpAnnounce(host) ELSE host
    /\ runner' = [runner EXCEPT !.gm = lan.gm]
    /\ lan' = [lan EXCEPT !.heard = TRUE]

\* on_talker_listener: MSRP reports a Listener of one of our talkers.
NoteListener(ready) ==
    /\ runner.on /\ \E s \in TalkerStreams : host.adv[s] # Unset
    /\ lan.left > 0
    /\ host' = TalkerEvent(host, IF ready THEN "Ready" ELSE "Lost")
    /\ lan' = [lan EXCEPT !.left = @ - 1]
    /\ UNCHANGED runner

\* on_acquired and on_lost of the MAAP block.
MaapAcquired ==
    /\ runner.on /\ ~host.maap
    /\ host.dest < MaxAcquired
    /\ LET h == [host EXCEPT !.dest = @ + 1, !.maap = TRUE]
       IN  host' = IF h.sup = "Ready" THEN AdvertiseTalkerStreams(h) ELSE h
    /\ UNCHANGED <<runner, lan>>

MaapLost ==
    /\ runner.on /\ host.maap /\ host.dest > 0
    /\ host' = [host EXCEPT !.maap = FALSE]
    /\ UNCHANGED <<runner, lan>>

-----------------------------------------------------------------------------

\* One pass of the loop after poll_once: restart the watchdog when the state
\* changed since the last pass, detect the first grandmaster, then the
\* watchdog itself, on the state read before.
LoopCheck ==
    LET cur == host.sup
        changed == cur # runner.last
        edge == runner.gm # NoMaster /\ ~runner.had
        h == IF edge THEN OnGptpAnnounce(host) ELSE host
        fired == cur = "Init" /\ ~changed /\ runner.aged
    IN  /\ runner.on
        /\ host' = IF fired THEN OnTimeout(h) ELSE h
        /\ runner' = [runner EXCEPT !.last = cur,
                                    !.aged = @ /\ ~changed /\ ~fired,
                                    !.had = runner.gm # NoMaster]
        /\ lan' = IF changed \/ fired THEN [lan EXCEPT !.heard = FALSE] ELSE lan

\* GPTP_LOCK_TIMEOUT passes.  Announces come every second, so a grandmaster
\* that announces on a link that is up has been heard in that time.
Elapse ==
    /\ runner.on /\ ~runner.aged
    /\ lan.link = "up" /\ lan.gm # NoMaster => lan.heard
    /\ runner' = [runner EXCEPT !.aged = TRUE]
    /\ UNCHANGED <<host, lan>>

LinkChanges ==
    /\ lan.left > 0
    /\ lan' = [lan EXCEPT !.link = IF @ = "up" THEN "down" ELSE "up",
                          !.heard = FALSE, !.left = @ - 1]
    /\ UNCHANGED <<host, runner>>

MasterChanges(m) ==
    /\ lan.left > 0 /\ m # lan.gm
    /\ lan' = [lan EXCEPT !.gm = m, !.heard = FALSE, !.left = @ - 1]
    /\ UNCHANGED <<host, runner>>

HostNext ==
    \/ \E maapMode \in BOOLEAN : Start(maapMode)
    \/ Stop
    \/ LinkReport
    \/ RxAnnounce
    \/ \E ready \in BOOLEAN : NoteListener(ready)
    \/ MaapAcquired
    \/ MaapLost
    \/ LoopCheck
    \/ Elapse
    \/ LinkChanges
    \/ \E m \in Masters \cup {NoMaster} : MasterChanges(m)

HostSpec == HostInit /\ [][HostNext]_hostVars

\* The loop polls at least every 100 ms and then makes its checks; the monitor
\* reports; announces that are sent arrive; time passes.
HostFairness ==
    /\ WF_hostVars(LoopCheck) /\ WF_hostVars(LinkReport) /\ WF_hostVars(RxAnnounce)
    /\ WF_hostVars(Elapse)

-----------------------------------------------------------------------------
(***************************************************************************)
(* Properties.                                                             *)
(***************************************************************************)
\* Every field has its type; Degraded is never reached, since nothing in the
\* host dispatches LockLost or AsCapableDown.
HostTypeOK ==
    /\ host \in Host
    /\ runner \in [on : BOOLEAN, last : {"Start", "Down", "Init", "Ready"},
                   aged : BOOLEAN, gm : Masters \cup {NoMaster}, had : BOOLEAN]
    /\ lan \in [link : {"up", "down"}, seen : {"up", "down"},
                gm : Masters \cup {NoMaster}, heard : BOOLEAN, left : 0..MaxChanges]

\* The supervisor is Ready exactly while the gPTP machine is Locked: neither a
\* reset of the one nor a link change or timeout of the other leaves them
\* apart, although locked itself survives a reset.
ReadyIffLocked == host.sup = "Ready" <=> host.gptp = "Locked"

\* A Ready entity whose addresses are settled declares its domain and every
\* talker stream, with the address that ACMP hands to listeners, after
\* whatever link flaps and MAAP conflicts brought it there.
AdvertisesAcmpAddress ==
    runner.on /\ host.sup = "Ready" /\ host.maap
        => host.dom /\ \A s \in TalkerStreams : host.adv[s] = host.dest

\* Down, and after stop(), the entity is silent: nothing is advertised by ADP
\* and no stream may be sent; after stop() MSRP declares nothing either.
DownIsSilent ==
    /\ host.sup = "Down" => ~host.adp /\ ~host.send /\ host.eng = "Off"
    /\ ~runner.on => ~host.adp /\ ~host.dom /\ \A s \in TalkerStreams : host.adv[s] = Unset

\* The supervisor, the gPTP machine, ADP, MSRP and ACMP agree about whether the
\* entity is up and at which address its streams are.
HostAgrees == HostTypeOK /\ ReadyIffLocked /\ AdvertisesAcmpAddress /\ DownIsSilent

\* The watchdog ends every Init: an entity that keeps running does not wait
\* for a grandmaster for ever.
InitEnds == (host.sup = "Init" /\ runner.on) ~> (host.sup # "Init" \/ ~runner.on)

\* A grandmaster the entity has not heard of yet takes it from Init to Ready
\* before the watchdog ends Init, unless the link or the grandmaster changes.
NewMasterLocks ==
    \A m \in Masters :
        (/\ runner.on /\ host.sup = "Init" /\ ~runner.aged
         /\ lan.link = "up" /\ lan.gm = m /\ runner.gm # m)
            ~> (host.sup = "Ready" \/ lan.gm # m \/ lan.link = "down" \/ ~runner.on)

\* No Init lasts: it ends in Ready at a new grandmaster, or by the watchdog.
InitResolves == InitEnds /\ NewMasterLocks
=============================================================================
