---------------------------- MODULE MsrpHandler -----------------------------
(***************************************************************************)
(* The MSRP client of an entity, on top of the participant of MsrpPort:    *)
(* nanoavb::MsrpHandler (src/statusbar/nanoavb/nanoavb_srp.hpp) with the   *)
(* streams its talker advertises and its listener is attached to, and the  *)
(* transmit gate (avb_entity/avb_entity_talker_gate.cpp), whose flags the  *)
(* reactor writes and the media thread reads.                              *)
(*                                                                         *)
(* The observers of the participant run in the middle of receive_pdu and   *)
(* tick: a talker registration changes the Listener declaration before the *)
(* rest of the same PDU is read.  A handler therefore visits the attribute *)
(* types one by one.                                                       *)
(*   tk[s], ls[s]   state of the entry in talker_streams_, listener_streams_ *)
(*   gate[s]        listener_ready_, acmp_conn_ and, for last_seen_ready_, *)
(*                  the wakes since the media thread saw Ready             *)
(*   media[s]       the media thread at the stream: its pc, and whether    *)
(*                  the last wake transmitted                              *)
(*   stale[s]       wakes since a Listener was last held (history)         *)
(***************************************************************************)
EXTENDS MsrpPort

CONSTANTS Roles,     \* what the entity does in a behaviour: "talker", "listener"
          PeerDecl,  \* Listener declarations the peer makes
          PeerEvent, \* events of the peer's values
          Grace      \* GRACE in wakes

ASSUME HandlerAssumption ==
    /\ Roles \subseteq {"talker", "listener"}
    /\ PeerDecl \subseteq ListenerDeclaration /\ PeerEvent \subseteq AttributeEvent
    /\ Grace \in Nat \ {0}

VARIABLES role, port, tk, ls, gate, media, stale, on

handlerVars == <<role, port, tk, ls, gate, media, stale, on>>

Never == Grace + 1

HandlerInit ==
    /\ role \in Roles
    /\ port = InitPort
    /\ tk = [s \in Streams |-> "None"]
    /\ ls = [s \in Streams |-> "None"]
    /\ gate = [s \in Streams |-> [ready |-> FALSE, conn |-> FALSE, seen |-> Never]]
    /\ media = [s \in Streams |-> [pc |-> "idle", tx |-> FALSE]]
    /\ stale = [s \in Streams |-> Never]
    /\ on = TRUE

TalkerAttr(s)   == <<"TalkerAdvertise", s>>
FailedAttr(s)   == <<"TalkerFailed", s>>
ListenerAttr(s) == <<"Listener", s>>

-----------------------------------------------------------------------------
(***************************************************************************)
(* What the handler does from the participant's observers.  A client is    *)
(* [port, ls, gate].                                                       *)
(***************************************************************************)
TalkerAdvertiseRegistered_mutIgnoresFailed(p, s) == Present(p.slot[TalkerAttr(s)])

\* A record in the table is enough, whatever its Registrar says.
TalkerAdvertiseRegistered(p, s) ==
    Present(p.slot[TalkerAttr(s)]) /\ ~Present(p.slot[FailedAttr(s)])

Want(p, s) == IF TalkerAdvertiseRegistered(p, s) THEN "Ready" ELSE "AskingFailed"

OnRemoteTalkerChanged_mutStateOnly(c, s) ==
    IF c.ls[s] \notin {"Ready", "AskingFailed"} THEN c
    ELSE [c EXCEPT !.ls[s] = Want(c.port, s)]

\* An attached stream whose declaration no longer fits is declared anew.
OnRemoteTalkerChanged(c, s) ==
    IF c.ls[s] \notin {"Ready", "AskingFailed"} \/ c.ls[s] = Want(c.port, s) THEN c
    ELSE [c EXCEPT !.ls[s] = Want(c.port, s),
                   !.port = Declare(@, ListenerAttr(s), Want(@, s))]

\* Only for a stream the talker has advertised; the gate keeps what it is told.
NotifyTalkerListener(c, s) ==
    IF tk[s] = "None" THEN c
    ELSE [c EXCEPT !.gate[s].ready = ListenerPermitsTransmit(c.port, s)]

\* The callbacks for the attributes A of one type about which there was news.
Notify(c, A) ==
    LET talkers   == {s \in Streams : A \cap {TalkerAttr(s), FailedAttr(s)} # {}}
        listeners == {s \in Streams : ListenerAttr(s) \in A}
        changed(s) == IF s \in talkers THEN OnRemoteTalkerChanged(c, s) ELSE c
        moved     == [c.port EXCEPT
                        !.slot = [a \in Attr |-> IF a[1] = "Listener"
                                                 THEN changed(a[2]).port.slot[a] ELSE @[a]],
                        !.timer["join"] = @ \/ \E s \in Streams : changed(s).port.timer["join"]]
        declared  == [port |-> moved, ls |-> [s \in Streams |-> changed(s).ls[s]],
                      gate |-> c.gate]
    IN  [declared EXCEPT !.gate = [s \in Streams |->
             IF s \in listeners THEN NotifyTalkerListener(declared, s).gate[s] ELSE @[s]]]

Client == [port |-> port, ls |-> ls, gate |-> gate]

-----------------------------------------------------------------------------
(***************************************************************************)
(* Reception and timers, one attribute type after the other.               *)
(***************************************************************************)
News(p, d, admitted, t) ==
    {a \in DOMAIN d.msg :
        /\ a[1] = t
        /\ Present(p.slot[a]) \/ a \in admitted
        /\ LET r == IF t \in d.la THEN RxLeaveAllRecord(p.slot[a]) ELSE p.slot[a]
               f == FindOrCreate(r, d.msg[a].val)
           IN  RxNotice(a, f, d.msg[a].ev, d.msg[a].val) # "None"}

RxType(c, d, admitted, t) ==
    Notify([c EXCEPT !.port = RxTypes(@, d, admitted, {t})], News(c.port, d, admitted, t))

RxPdu(c, d, admitted) ==
    LET rx == RxType(RxType(RxType(RxType(c, d, admitted, "TalkerAdvertise"),
                                   d, admitted, "TalkerFailed"),
                            d, admitted, "Listener"),
                     d, admitted, "Domain")
    IN  [rx EXCEPT !.port = AfterRx(@, d)]

LeaveType(c, t) ==
    Notify([c EXCEPT !.port = OnLeaveTimer(@, {t})],
           {a \in Attr : a[1] = t /\ c.port.slot[a].reg = "Lv"})

LeaveStage(c) ==
    LeaveType(LeaveType(LeaveType(LeaveType(c, "TalkerAdvertise"), "TalkerFailed"),
                        "Listener"), "Domain")

TickStages(c, E) ==
    LET c0 == [c EXCEPT !.port = Clear(@, E)]
        c1 == IF "leaveall" \in E THEN [c0 EXCEPT !.port = OnLeaveAllTimer(@)] ELSE c0
        c2 == IF "leave" \in E THEN LeaveStage(c1) ELSE c1
        c3 == IF "periodic" \in E THEN [c2 EXCEPT !.port = OnPeriodicTimer(@)] ELSE c2
        c4 == IF "join" \in E THEN [c3 EXCEPT !.port = AfterTx(@)] ELSE c3
    IN  [c4 EXCEPT !.port = Reclaim(@)]

Becomes(c) == port' = c.port /\ ls' = c.ls /\ gate' = c.gate

Receive(d, admitted) ==
    /\ on
    /\ Becomes(RxPdu(Client, d, admitted))
    /\ UNCHANGED <<role, tk, media, stale, on>>

Tick(E) ==
    /\ on
    /\ E # {} /\ \A t \in E : port.timer[t]
    /\ Becomes(TickStages(Client, E))
    /\ UNCHANGED <<role, tk, media, stale, on>>

-----------------------------------------------------------------------------
(***************************************************************************)
(* The calls of the entity.                                                *)
(***************************************************************************)
TalkerAdvertise(s, v) ==
    /\ on /\ role = "talker"
    /\ HasRoom(port, TalkerAttr(s))
    /\ tk' = [tk EXCEPT ![s] = "Advertising"]
    /\ port' = Declare(port, TalkerAttr(s), v)
    /\ UNCHANGED <<role, ls, gate, media, stale, on>>

TalkerWithdraw(s) ==
    /\ on /\ tk[s] = "Advertising"
    /\ tk' = [tk EXCEPT ![s] = "Idle"]
    /\ port' = Withdraw(port, {TalkerAttr(s), FailedAttr(s)})
    /\ UNCHANGED <<role, ls, gate, media, stale, on>>

\* listener_attach: Ready or AskingFailed, after the talker's registration.
ListenerAttach(s) ==
    /\ on /\ role = "listener"
    /\ HasRoom(port, ListenerAttr(s))
    /\ ls' = [ls EXCEPT ![s] = Want(port, s)]
    /\ port' = Declare(port, ListenerAttr(s), Want(port, s))
    /\ UNCHANGED <<role, tk, gate, media, stale, on>>

ListenerWithdraw(s) ==
    /\ on /\ ls[s] \in {"Ready", "AskingFailed"}
    /\ ls' = [ls EXCEPT ![s] = "Idle"]
    /\ port' = Withdraw(port, {ListenerAttr(s)})
    /\ UNCHANGED <<role, tk, gate, media, stale, on>>

DeclareDomain(v) ==
    /\ on /\ Classes # {}
    /\ port' = StartTimer([port EXCEPT !.slot = [a \in Attr |->
                    IF a[1] = "Domain" THEN DeclareRecord(@[a], v) ELSE @[a]]], "join")
    /\ UNCHANGED <<role, tk, ls, gate, media, stale, on>>

Withdrawn ==
    {TalkerAttr(s) : s \in {x \in Streams : tk[x] = "Advertising"}}
        \cup {FailedAttr(s) : s \in {x \in Streams : tk[x] = "Advertising"}}
        \cup {ListenerAttr(s) : s \in {x \in Streams : ls[x] \in {"Ready", "AskingFailed"}}}
        \cup {a \in Attr : a[1] = "Domain"}

\* withdraw_all, and the Leaves sent at once: the handlers are released next.
WithdrawAll ==
    /\ on
    /\ on' = FALSE
    /\ port' = AfterTx(Withdraw(port, Withdrawn))
    /\ tk' = [s \in Streams |-> IF tk[s] = "None" THEN "None" ELSE "Idle"]
    /\ ls' = [s \in Streams |-> IF ls[s] = "None" THEN "None" ELSE "Idle"]
    /\ UNCHANGED <<role, gate, media, stale>>

-----------------------------------------------------------------------------
(***************************************************************************)
(* The gate: ACMP and the controller write, the media thread reads.  The   *)
(* two halves of should_transmit are separate loads.                       *)
(***************************************************************************)
NoteAcmpConnections(s, connected) ==
    /\ on /\ role = "talker" /\ gate[s].conn # connected
    /\ gate' = [gate EXCEPT ![s].conn = connected]
    /\ UNCHANGED <<role, port, tk, ls, media, stale, on>>

\* A listener the registrar still holds; a Leave is in force after LeaveTimer.
Held(p, s) == ListenerPermitsTransmit(p, s) \/ p.slot[ListenerAttr(s)].reg = "Lv"

Older(n) == IF n < Never THEN n + 1 ELSE n

ConnectedAndStarted(s) ==
    /\ role = "talker" /\ media[s].pc = "idle"
    /\ media' = [media EXCEPT ![s] = [pc |-> IF gate[s].conn THEN "ready" ELSE "idle",
                                     tx |-> FALSE]]
    /\ gate' = [gate EXCEPT ![s].seen = Older(@)]
    /\ stale' = [stale EXCEPT ![s] = IF Held(port, s) THEN 0 ELSE Older(@)]
    /\ UNCHANGED <<role, port, tk, ls, on>>

\* The wake's own time measures the grace window.
ListenerReadyWithinGrace(s) ==
    LET seen == IF gate[s].ready THEN 0 ELSE gate[s].seen IN
    /\ role = "talker" /\ media[s].pc = "ready"
    /\ media' = [media EXCEPT ![s] = [pc |-> "idle", tx |-> seen < Grace]]
    /\ gate' = [gate EXCEPT ![s].seen = seen]
    /\ stale' = [stale EXCEPT ![s] = IF Held(port, s) THEN 0 ELSE @]
    /\ UNCHANGED <<role, port, tk, ls, on>>

-----------------------------------------------------------------------------
PeerAttr == UNION {IF role = "talker" THEN {ListenerAttr(s)}
                   ELSE {TalkerAttr(s), FailedAttr(s)} : s \in Streams}

\* The peer's PDUs: any value of each attribute, any LeaveAll.  A peer that
\* changes its declaration says so with a New or a Join: In and Mt repeat what
\* is registered.
PeerPdu ==
    UNION {[la  : SUBSET {a[1] : a \in PeerAttr},
            msg : {m \in [A -> [ev : PeerEvent, val : Payload \cup PeerDecl]] :
                       \A a \in A : /\ m[a].val \in Value(a)
                                    /\ \/ m[a].ev \notin {"In", "Mt"}
                                       \/ ~Present(port.slot[a])
                                       \/ port.slot[a].val = m[a].val}] :
           A \in SUBSET PeerAttr}

HandlerNext ==
    \/ \E s \in Streams, v \in Payload : TalkerAdvertise(s, v)
    \/ \E s \in Streams : TalkerWithdraw(s)
    \/ \E s \in Streams : ListenerAttach(s)
    \/ \E s \in Streams : ListenerWithdraw(s)
    \/ \E v \in Payload : DeclareDomain(v)
    \/ WithdrawAll
    \/ \E s \in Streams, connected \in BOOLEAN : NoteAcmpConnections(s, connected)
    \/ \E s \in Streams : ConnectedAndStarted(s)
    \/ \E s \in Streams : ListenerReadyWithinGrace(s)
    \/ \E E \in SUBSET Timer : Tick(E)
    \/ \E d \in PeerPdu : \E admitted \in Admissions(port, d) : Receive(d, admitted)

HandlerSpec == HandlerInit /\ [][HandlerNext]_handlerVars

-----------------------------------------------------------------------------
\* What the variables may hold.
HandlerTypeOK ==
    /\ role \in Roles /\ on \in BOOLEAN
    /\ \A a \in Attr : Present(port.slot[a]) => port.slot[a].val \in Value(a)
    /\ tk \in [Streams -> {"None", "Idle", "Advertising"}]
    /\ ls \in [Streams -> {"None", "Idle", "Ready", "AskingFailed"}]
    /\ gate \in [Streams -> [ready : BOOLEAN, conn : BOOLEAN, seen : 0..Never]]
    /\ media \in [Streams -> [pc : {"idle", "ready"}, tx : BOOLEAN]]
    /\ stale \in [Streams -> 0..Never]

\* The declaration in the participant is the one the handler believes in,
\* though observers change it in the middle of a PDU: listener_streams_ and
\* the participant's records are written apart.
DeclaresWhatItSays ==
    \A s \in Streams :
        LET r == port.slot[ListenerAttr(s)] IN
        /\ ls[s] \in {"Ready", "AskingFailed"}
              => r.op = "Declare" /\ r.val = ls[s] /\ r.app \in Declaring
        /\ role = "listener" /\ ls[s] \in {"None", "Idle"} => r.app \notin Declaring

\* on_remote_talker_changed: an attached listener is Ready after the step that
\* registers an Advertise alone, and not after one that registers a Failed.
FollowsStep ==
    \A s \in Streams :
        LET registers(a) == /\ ~RegistrarIsRegistered(port.slot[a])
                            /\ RegistrarIsIn(port'.slot[a])
            attached     == ls[s] \in {"Ready", "AskingFailed"}
                              /\ ls'[s] \in {"Ready", "AskingFailed"}
        IN  /\ attached /\ registers(TalkerAttr(s)) /\ ~Present(port'.slot[FailedAttr(s)])
                  => ls'[s] = "Ready"
            /\ attached /\ registers(FailedAttr(s)) => ls'[s] = "AskingFailed"

\* Each step of the handler keeps to that, also one that reads several types.
FollowsRegistrations == [][FollowsStep]_handlerVars

\* withdraw_all leaves no declaration behind, whatever was advertised, attached
\* or half withdrawn: the handlers are released after it.
StopWithdrawsAll == ~on => \A a \in Attr : port.slot[a].app \notin Declaring

\* The flag of the gate is up only for a Listener the participant holds.
GateToldTruth == \A s \in Streams : on /\ gate[s].ready => Held(port, s)

\* should_transmit: a frame leaves fewer than Grace wakes after the last one
\* that found a listener held, however the flag and the connection count change
\* between the loads of the media thread.
GraceBoundsTransmission == \A s \in Streams : on /\ media[s].tx => stale[s] < Grace

\* The handler's view of its streams is the participant's, also after stop(),
\* and a frame leaves only for a listener that is held or was, Grace wakes ago.
HandlerAgrees == /\ HandlerTypeOK /\ DeclaresWhatItSays /\ StopWithdrawsAll
                 /\ GateToldTruth /\ GraceBoundsTransmission
=============================================================================
