---------------------------- MODULE GptpSlavePort ---------------------------
(***************************************************************************)
(* GptpSlavePort of src/statusbar/gptp/gptp_slave_port.cpp: one action per *)
(* entry point its owner calls (start, stop, link changes, receive_frame   *)
(* per message type, report_tx_timestamp, tick).  Frames may be lost,      *)
(* duplicated, reordered or come from any master, so a received frame is   *)
(* any message over the small sets.                                        *)
(***************************************************************************)
EXTENDS GptpPort

VARIABLES p,          \* the port
          running,    \* between start() and stop()
          link,       \* "none" until the first link up since start, "up", "down"
          sample,     \* the last Sync/FollowUp pair given to the servo
          last        \* the input handled last

vars == <<p, running, link, sample, last>>

NoSample == [fu |-> NoMaster, sync |-> NoMaster, app |-> NoMaster, gm |-> NoMaster]

Init ==
    /\ p = InitPort
    /\ running = FALSE
    /\ link = "none"
    /\ sample = NoSample
    /\ last = "none"

-----------------------------------------------------------------------------
LinkUpOf(q) ==
    LET a == Fire(q, "LinkUp")
        b == IF CapInitial THEN AcquireAsCapable(a) ELSE a
    IN  Publish([b EXCEPT !.timer = [t \in Timer |-> CASE t = "receipt" -> @[t]
                                                       [] t = "interval" -> PdelayActive \/ @[t]
                                                       [] OTHER -> TRUE]])

Unarmed == [t \in Timer |-> FALSE]

Started(q) ==
    [Fire(q, "UCT") EXCEPT !.sync = IdleSync(@),
                           !.ann.on = TRUE,
                           !.pd = IF PdelayActive THEN EnablePd(@) ELSE @]

Start(up) ==
    /\ ~running
    /\ running' = TRUE
    /\ link' = IF up THEN "up" ELSE "none"
    /\ p' = IF up THEN LinkUpOf(Started(p)) ELSE Started(p)
    /\ last' = "start"
    /\ UNCHANGED sample

Stop ==
    /\ running
    /\ running' = FALSE
    /\ link' = "none"
    /\ p' = [Fire(p, "AdministrativeDisable") EXCEPT
                !.sync = DiscardSync(@), !.pd = DisablePd(@),
                !.ann = [on |-> FALSE, gm |-> NoMaster, src |-> NoMaster],
                !.timer = Unarmed]
    /\ last' = "stop"
    /\ UNCHANGED sample

LinkUp ==
    /\ running /\ link # "up"
    /\ link' = "up"
    /\ p' = LinkUpOf(p)
    /\ last' = "linkup"
    /\ UNCHANGED <<running, sample>>

LinkDown ==
    /\ running /\ link = "up"
    /\ link' = "down"
    /\ p' = Publish([Fire(p, "LinkDown") EXCEPT
                        !.sync = DiscardSync(@), !.pd = DisablePd(@),
                        !.servo = FreshServo, !.timer = Unarmed])
    /\ last' = "linkdown"
    /\ UNCHANGED <<running, sample>>

-----------------------------------------------------------------------------
\* A frame reaches the port once its link has been up; one read from the
\* socket just after the link went down is still handed over.
Receiving == running /\ link # "none"

RxSync(seq, src) ==
    /\ Receiving
    /\ SourceIsGrandmaster(p, src)
    /\ last' = "sync"
    /\ p' = Arm([p EXCEPT !.sync = OnSync(@, seq, src), !.app = src], "sync")
    /\ UNCHANGED <<running, link, sample>>

RxFollowUp(seq, src, e) ==
    /\ Receiving
    /\ SourceIsGrandmaster(p, src)
    /\ Pairs(p.sync, seq, src)
    /\ last' = "followup"
    /\ LET q == [p EXCEPT !.sync = IdleSync(@), !.servo = Process(@, e)]
       IN  p' = Publish(IF ~q.synced /\ q.st = "Uncalibrated"
                        THEN Fire(q, "FirstSyncLocked") ELSE q)
    /\ sample' = [fu |-> src, sync |-> p.sync.src, app |-> p.app, gm |-> p.ann.src]
    /\ UNCHANGED <<running, link>>

RxPdelayResp(seq) ==
    /\ Receiving /\ PdelayActive
    /\ last' = "resp"
    /\ p' = Arm([p EXCEPT !.pd = PdResp(@, seq)], "receipt")
    /\ UNCHANGED <<running, link, sample>>

\* The measurement is stored, and told if the delay changed; then the port
\* state follows asCapable and the next interval is armed.
RxPdelayRespFollowUp(seq, delay, ratio) ==
    /\ Receiving /\ PdelayActive
    /\ last' = "respfup"
    /\ LET d == PdRespFollowUp(p.pd, seq, delay, ratio)
           now == IF Measures(p.pd, seq) THEN [delay |-> delay, ratio |-> d.ratio]
                  ELSE p.link
           told == IF now.delay # p.link.delay THEN now ELSE p.told.link
           q == [p EXCEPT !.pd = d, !.link = now, !.told.link = told,
                          !.timer["receipt"] = FALSE, !.timer["interval"] = TRUE]
       IN  p' = Publish(SyncAsCapable(q, p.pd.cap))
    /\ UNCHANGED <<running, link, sample>>

RxAnnounce(gm, src) ==
    /\ Receiving
    /\ last' = "announce"
    /\ p' = Arm(IF p.ann.on
                THEN [p EXCEPT !.ann = [on |-> TRUE, gm |-> gm, src |-> src],
                               !.told.gm = IF p.ann.gm # gm THEN gm ELSE @]
                ELSE p, "announce")
    /\ UNCHANGED <<running, link, sample>>

\* report_tx_timestamp: the transmit timestamp arrives after send_frame.
ReportTx(seq) ==
    /\ running /\ p.pd.st # "NotEnabled" /\ seq = p.pd.seq
    /\ last' = "txstamp"
    /\ p' = [p EXCEPT !.pd.t1 = TRUE]
    /\ UNCHANGED <<running, link, sample>>
-----------------------------------------------------------------------------
(***************************************************************************)
(* tick(): the due timers in the order the code tests them.  A request     *)
(* sent by the first stage moves the receipt timeout into the future, so   *)
(* the second stage does not see it.                                       *)
(***************************************************************************)
IntervalStage(q, stamped) ==
    LET r == [q EXCEPT !.timer["interval"] = FALSE]
    IN  IF q.pd.st = "NotEnabled" THEN r
        ELSE Arm(SyncAsCapable([r EXCEPT !.pd = Request(@, stamped)], q.pd.cap),
                 "receipt")

ReceiptStage_mutNoRetry(q) ==
    LET r == [q EXCEPT !.pd = IF Waiting(@) THEN ExchangeFailed(@) ELSE @,
                       !.timer["receipt"] = FALSE]
    IN  SyncAsCapable(r, q.pd.cap)

ReceiptStage_mutNoReconcile(q) ==
    [q EXCEPT !.pd = IF Waiting(@) THEN ExchangeFailed(@) ELSE @,
              !.timer["receipt"] = FALSE,
              !.timer["interval"] = @ \/ PdelayActive]

ReceiptStage(q) ==
    LET r == [q EXCEPT !.pd = IF Waiting(@) THEN ExchangeFailed(@) ELSE @,
                       !.timer["receipt"] = FALSE,
                       !.timer["interval"] = @ \/ PdelayActive]
    IN  SyncAsCapable(r, q.pd.cap)

SyncStage_mutSilent(q) ==
    Arm([q EXCEPT !.sync = IF @.st = "Discard" THEN @ ELSE IdleSync(@)], "sync")

SyncStage(q) ==
    LET r == [q EXCEPT !.sync = IF @.st = "Discard" THEN @ ELSE IdleSync(@)]
    IN  Arm(IF r.synced THEN [Fire(r, "SyncLost") EXCEPT !.servo = FreshServo]
            ELSE r, "sync")

AnnounceStage(q) ==
    [q EXCEPT !.ann.gm = NoMaster, !.ann.src = NoMaster,
              !.told.gm = IF q.ann.gm # NoMaster THEN NoMaster ELSE @,
              !.timer["announce"] = TRUE]

Ticked(due, stamped) ==
    LET a == IF "interval" \in due THEN IntervalStage(p, stamped) ELSE p
        sent == "interval" \in due /\ p.pd.st # "NotEnabled"
        b == IF "receipt" \in due /\ ~sent THEN ReceiptStage(a) ELSE a
        c == IF "sync" \in due THEN SyncStage(b) ELSE b
        d == IF "announce" \in due THEN AnnounceStage(c) ELSE c
    IN  Publish(d)

Tick(due, stamped) ==
    /\ running
    /\ \A t \in due : p.timer[t]
    /\ last' = "tick"
    /\ p' = Ticked(due, stamped)
    /\ UNCHANGED <<running, link, sample>>

Expiry(t) ==
    \E due \in SUBSET Timer, stamped \in BOOLEAN : t \in due /\ Tick(due, stamped)

Next ==
    \/ \E up \in BOOLEAN : Start(up)
    \/ Stop
    \/ LinkUp
    \/ LinkDown
    \/ \E seq \in SeqId, src \in Masters : RxSync(seq, src)
    \/ \E seq \in SeqId, src \in Masters, e \in Errors : RxFollowUp(seq, src, e)
    \/ \E seq \in SeqId : RxPdelayResp(seq)
    \/ \E seq \in SeqId, delay \in Delays, ratio \in Ratios :
            RxPdelayRespFollowUp(seq, delay, ratio)
    \/ \E gm, src \in Masters : RxAnnounce(gm, src)
    \/ \E seq \in SeqId : ReportTx(seq)
    \/ \E due \in SUBSET Timer, stamped \in BOOLEAN : Tick(due, stamped)

Spec == Init /\ [][Next]_vars

\* The frames that move a timer's deadline into the future.
Rearmed(t) ==
    \/ t = "sync" /\ \E seq \in SeqId, src \in Masters : RxSync(seq, src)
    \/ t = "receipt" /\ \E seq \in SeqId : RxPdelayResp(seq)
    \/ t = "interval" /\ \E seq \in SeqId, delay \in Delays, ratio \in Ratios :
                              RxPdelayRespFollowUp(seq, delay, ratio)

\* The owner calls tick() once next_deadline() has passed, so an armed timer
\* is eventually processed unless frames keep moving its deadline.  Frames,
\* links and the operator owe nothing.
FairSpec ==
    /\ Spec
    /\ \A t \in Timer \ {"announce"} :
           WF_vars(p.timer[t] /\ (Expiry(t) \/ Rearmed(t)))

-----------------------------------------------------------------------------
(***************************************************************************)
(* Properties.                                                             *)
(***************************************************************************)
\* Every field of the port has its type.
TypeOK ==
    /\ p \in Port
    /\ running \in BOOLEAN
    /\ link \in {"none", "up", "down"}
    /\ sample \in [fu : Masters \cup {NoMaster}, sync : Masters \cup {NoMaster},
                    app : Masters \cup {NoMaster}, gm : Masters \cup {NoMaster}]

\* The flags the port publishes are those of its lifecycle state: asCapable in
\* Uncalibrated and Slave, synchronized in Slave only.
FlagsFollowState ==
    /\ p.cap <=> p.st \in {"Uncalibrated", "Slave"}
    /\ p.synced <=> p.st = "Slave"

\* While the port runs with its link up, the observers of asCapable, of
\* synchronization and of the grandmaster have been told its current value.
ObserversTold ==
    /\ running /\ link = "up" => p.told.synced = p.synced /\ p.told.cap = p.cap
    /\ p.ann.gm # NoMaster => p.told.gm = p.ann.gm

\* The port is asCapable exactly when its Pdelay exchanges say so; with
\* as_capable_initial it may be before the first exchange.
CapableAgrees ==
    /\ p.pd.cap => p.cap
    /\ ~CapInitial => (p.cap => p.pd.cap)

\* A servo sample never mixes two masters: the FollowUp, the Sync it is paired
\* with and the application time of its anchor have one source, which is the
\* announced one when the source is verified.
OneMasterPerSample ==
    /\ sample.fu = sample.sync /\ sample.app = sample.sync
    /\ Verify /\ sample.gm # NoMaster => sample.sync = sample.gm

\* The Pdelay engine never stalls: while it is enabled on a link that is up,
\* its interval or its receipt timeout is armed.
PdelayNeverStalls ==
    running /\ link = "up" /\ p.pd.st # "NotEnabled"
        => p.timer["interval"] \/ p.timer["receipt"]

\* A synchronized port always has the timeout armed that detects sync loss,
\* and a port with a latched grandmaster the one that detects its loss.
LossIsWatched ==
    /\ p.synced => p.timer["sync"]
    /\ link = "up" /\ p.ann.gm # NoMaster => p.timer["announce"]

\* The lifecycle state, the flags, the Pdelay engine, the timers and what the
\* observers were told agree after every frame, timeout, link and operator call.
PortAgrees ==
    /\ TypeOK /\ FlagsFollowState /\ ObserversTold
    /\ CapableAgrees /\ LossIsWatched

\* The port gives up asCapable (by lost responses) when its peer falls silent.
PeerLossDetected ==
    <>[](last \notin {"resp", "respfup"}) => <>[](~p.cap)

\* The port gives up synchronization when the Syncs stop.
SyncLossDetected ==
    <>[](last # "sync") => <>[](~p.synced)

\* Both losses are detected, whatever else happens to the port meanwhile (the
\* receipt timeouts of MDSyncReceive and the lost responses of MDPdelayReq).
LossDetected == PeerLossDetected /\ SyncLossDetected

-----------------------------------------------------------------------------
(***************************************************************************)
(* What the code's comments say and the port does not do.                  *)
(***************************************************************************)
\* MDSyncReceive::enable is "called when the port becomes usable again": a
\* running port with its link up accepts Syncs.
UsablePortReceives == running /\ link = "up" => p.sync.st # "Discard"
=============================================================================
