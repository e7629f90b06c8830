-------------------------------- MODULE Mvrp --------------------------------
(***************************************************************************)
(* VLAN registration: MvrpHandler (src/statusbar/nanoavb/nanoavb_srp.cpp), *)
(* which keeps the VLANs this endpoint asked for, over one                 *)
(* MvrpParticipantT (src/statusbar/srp/srp_mvrp_participant.hpp), which    *)
(* keeps a record for every VLAN that this endpoint or a peer declares.    *)
(*                                                                         *)
(* Unlike MSRP, one table serves both sides, every record goes into every  *)
(* PDU (tx! leaves tx_pending set in every state), a LeaveAll of our own   *)
(* ages our own Registrars, and the LeaveAll bit is never put on the wire. *)
(*                                                                         *)
(* A record is [op, app, reg, told]; told is history: whether the last     *)
(* observer notice about the VLAN said that a peer registers it.           *)
(* Deadlines are abstracted: a tick finds any set of running timers        *)
(* expired.  Consecutive VIDs share a vector, so a PDU is a LeaveAll bit,  *)
(* the first VID and the events of the VIDs from there on.                 *)
(***************************************************************************)
EXTENDS MrpFsm, Naturals, FiniteSets, Sequences

CONSTANTS LastVid,      \* VIDs are 1 .. LastVid
          MaxVlans,     \* MvrpConfig::max_vlans, the records of the participant
          MaxSlots,     \* the fixed capacity of the handler's vlans_
          MaxVector     \* bound: values in a received vector

ASSUME MvrpAssumption ==
    /\ {LastVid, MaxVlans, MaxVector} \subseteq Nat
    /\ MaxSlots \in Nat \ {0} /\ MaxVlans <= MaxSlots

VARIABLES mvRec,        \* vlans_ of the participant, by VID
          mvTimer,      \* which of the port's timers run
          mvLva, mvPer, \* the LeaveAll and the Periodic machine
          mvSlot,       \* vlans_ of the handler
          mvStarted,    \* started_
          mvSent        \* history: the PDU of this step, a sequence of at most one

mvPort == <<mvRec, mvTimer, mvLva, mvPer>>
mvVars == <<mvRec, mvTimer, mvLva, mvPer, mvSlot, mvStarted, mvSent>>

VIDs == 1 .. LastVid

NoVlan == [op |-> "Absent", app |-> "Start", reg |-> "Start", told |-> FALSE]

VlanPresent(r) == r.op # "Absent"

VlanState == {"Unregistered", "Pending"}

VlanTimers == {"join", "leave", "leaveall", "periodic"}

MvInit ==
    /\ mvRec = [v \in VIDs |-> NoVlan]
    /\ mvTimer = {}
    /\ mvLva = "Start" /\ mvPer = "Start"
    /\ mvSlot = <<>> /\ mvStarted = FALSE /\ mvSent = <<>>

-----------------------------------------------------------------------------
(***************************************************************************)
(* The participant.  A port value p is the record of the first four        *)
(* variables.                                                              *)
(***************************************************************************)
ThePort == [rec |-> mvRec, timer |-> mvTimer, lva |-> mvLva, per |-> mvPer]

Becomes(p) ==
    /\ mvRec' = p.rec /\ mvTimer' = p.timer
    /\ mvLva' = p.lva /\ mvPer' = p.per

MvStart(p) ==
    [p EXCEPT !.timer = @ \cup {"leaveall", "periodic"},
              !.lva = LeaveAllNext(@, "UCT"), !.per = PeriodicNext(@, "UCT")]

\* The handler starts its participant lazily, on first use.
EnsureStarted(p) == IF mvStarted THEN p ELSE MvStart(p)

ToApplicant(p, v, ev) ==
    [p EXCEPT !.rec[v].app = ApplicantNext(@, ev)]

\* dispatch_registrar: a Registrar that starts leaving asks for the timer.
ToRegistrar(p, v, ev) ==
    [p EXCEPT !.rec[v].reg = RegistrarNext(@, ev),
              !.timer = IF LvTimerRequest(p.rec[v].reg, ev)
                        THEN @ \cup {"leave"} ELSE @]

VlanTable(p) == {v \in VIDs : VlanPresent(p.rec[v])}

VlanRoom_mutOffByOne(p, v) ==
    v \in VlanTable(p) \/ Cardinality(VlanTable(p)) <= MaxVlans

VlanRoom(p, v) == v \in VlanTable(p) \/ Cardinality(VlanTable(p)) < MaxVlans

find_or_create_vlan(p, v) ==
    IF v \in VlanTable(p) THEN p
    ELSE [p EXCEPT !.rec[v] = [NoVlan EXCEPT !.op = "Register"]]

\* A full table fails the declaration without effect.
declare_vlan(p, v) ==
    IF ~VlanRoom(p, v) THEN p
    ELSE LET q == find_or_create_vlan(p, v)
             isNew == /\ q.rec[v].op = "Register"
                      /\ q.rec[v].app \in {"Start", "Vo"}
             d == [q EXCEPT !.rec[v].op = "Declare",
                            !.timer = @ \cup {"join"}]
         IN  ToApplicant(d, v, IF isNew THEN "New" ELSE "Join")

\* The client's withdrawal of one VLAN at the participant.
withdraw_vlan(p, v) ==
    IF v \notin VlanTable(p) THEN p
    ELSE ToApplicant([p EXCEPT !.timer = @ \cup {"join"}], v, "Leave")

-----------------------------------------------------------------------------
\* Transmission: tx! to every record, and a PDU of the wire event of each.
WireEventOf(r) ==
    LET msg == SendMessage(r.app)
        in  == r.reg = "In"
    IN  CASE msg = "New"   -> "New"
          [] msg = "Join"  -> IF in THEN "JoinIn" ELSE "JoinMt"
          [] msg = "In"    -> IF in THEN "In" ELSE "Mt"
          [] msg = "Leave" -> "Lv"

OnEach(p, F(_, _)) == [p EXCEPT !.rec = [v \in VIDs |->
                          IF VlanPresent(@[v]) THEN F(v, @[v]) ELSE @[v]]]

TxVlan(v, r) ==
    [r EXCEPT !.app = ApplicantNext(r.app, IF r.reg = "In" THEN "TxRegistrarIn"
                                                            ELSE "TxRegistrarMt")]

PduOf(p) ==
    IF VlanTable(p) = {} THEN <<>>
    ELSE << [v \in VlanTable(p) |-> WireEventOf(p.rec[v])] >>

AfterSend(p) == OnEach(p, TxVlan)

-----------------------------------------------------------------------------
(***************************************************************************)
(* Reception of a vector.                                                  *)
(***************************************************************************)
\* rx_events_for; rIn! and rMt! have no Registrar event.
RxEventOf(ev) ==
    CASE ev = "New"    -> "RNew"
      [] ev = "JoinIn" -> "RJoinIn"
      [] ev = "In"     -> "RIn"
      [] ev = "JoinMt" -> "RJoinMt"
      [] ev = "Mt"     -> "RMt"
      [] ev = "Lv"     -> "RLeave"

NoticeOf(told, notify, wasRegistered) ==
    CASE notify \in {"New", "Join"}             -> TRUE
      [] notify = "Leave" /\ wasRegistered      -> FALSE
      [] OTHER                                  -> told

handle_rx_event(p, v, ev) ==
    IF ~VlanRoom(p, v) THEN p
    ELSE LET q  == find_or_create_vlan(p, v)
             rx == RxEventOf(ev)
             reg == q.rec[v].reg
             a  == ToApplicant(q, v, rx)
         IN  IF ev \in {"In", "Mt"} THEN a
             ELSE [ToRegistrar(a, v, rx) EXCEPT !.rec[v].told =
                       NoticeOf(@, RegistrarNotify(reg, rx), reg = "In")]

RxLeaveAll(p) ==
    [OnEach(p, LAMBDA v, r :
                [r EXCEPT !.app = ApplicantNext(@, "RLeaveAll"),
                          !.reg = RegistrarNext(@, "RLeaveAll")])
     EXCEPT !.lva = LeaveAllNext(@, "RLeaveAll"),
            !.timer = @ \cup {"leaveall"} \cup
                (IF \E v \in VlanTable(p) : LvTimerRequest(p.rec[v].reg, "RLeaveAll")
                 THEN {"leave"} ELSE {})]

\* The LeaveAll bit first, then the values in the order of their VIDs.
decode_vector_attribute(p, la, first, events) ==
    LET after[i \in 0 .. Len(events)] ==
            IF i = 0 THEN IF la THEN RxLeaveAll(p) ELSE p
            ELSE handle_rx_event(after[i - 1], first + i - 1, events[i])
    IN  after[Len(events)]

receive_pdu(p, la, first, events) ==
    [decode_vector_attribute(p, la, first, events) EXCEPT !.timer = @ \cup {"join"}]

-----------------------------------------------------------------------------
(***************************************************************************)
(* Timers, in the order in which a tick serves them.                       *)
(***************************************************************************)
\* Every Applicant and every Registrar of ours is aged, and the LeaveAll
\* machine returns to Passive having restarted its timer.
LeaveAllAged(p) ==
    [OnEach(p, LAMBDA v, r :
                [r EXCEPT !.app = ApplicantNext(@, "TxLeaveAll"),
                          !.reg = RegistrarNext(@, "TxLeaveAll")])
     EXCEPT !.lva = LeaveAllNext(LeaveAllNext(@, "LvaTimer"), "Tx"),
            !.timer = @ \cup {"leaveall"} \cup
                (IF \E v \in VlanTable(p) : LvTimerRequest(p.rec[v].reg, "TxLeaveAll")
                 THEN {"leave"} ELSE {})]

on_leave_timer(p) ==
    OnEach(p, LAMBDA v, r :
        IF r.reg # "Lv" THEN r ELSE [r EXCEPT !.reg = RegistrarNext(@, "LvTimer"),
                                              !.told = FALSE])

on_periodic_timer(p) ==
    [OnEach(p, LAMBDA v, r : [r EXCEPT !.app = ApplicantNext(@, "Periodic")])
     EXCEPT !.per = PeriodicNext(@, "Periodic"),
            !.timer = @ \cup {"join"} \cup
                (IF PeriodicRestartsTimer(p.per, "Periodic")
                 THEN {"periodic"} ELSE {})]

\* reclaim: a record that neither declares nor registers is removed.
VlanReclaim(p) ==
    OnEach(p, LAMBDA v, r :
        IF r.app = "Vo" /\ r.reg = "Mt" THEN [NoVlan EXCEPT !.told = r.told] ELSE r)

Stage(on, p, q) == IF on THEN q ELSE p

TickStages(p, expired) ==
    LET cleared == [p EXCEPT !.timer = @ \ expired]
        aged == LeaveAllAged(cleared)
        told == Stage("leaveall" \in expired, cleared, AfterSend(aged))
        left == Stage("leave" \in expired, told, on_leave_timer(told))
        ready == Stage("periodic" \in expired, left, on_periodic_timer(left))
        done == Stage("join" \in expired, ready, AfterSend(ready))
    IN  [port |-> VlanReclaim(done),
         sent |-> (IF "leaveall" \in expired THEN PduOf(aged) ELSE <<>>)
                    \o (IF "join" \in expired THEN PduOf(ready) ELSE <<>>)]

-----------------------------------------------------------------------------
(***************************************************************************)
(* The handler.                                                            *)
(***************************************************************************)
SlotsOf(v) == {i \in DOMAIN mvSlot : mvSlot[i].vlan = v}

Pending(v) == [vlan |-> v, state |-> "Pending"]

FreeSlots == {i \in DOMAIN mvSlot : mvSlot[i].state = "Unregistered"}

\* An existing slot, else a free one, else the first one withdrawn; a table of
\* live VLANs refuses the newcomer.  A refusal by the participant is ignored.
RegisterVlan(v) ==
    /\ \/ /\ SlotsOf(v) # {}
          /\ \E i \in SlotsOf(v) : mvSlot' = [mvSlot EXCEPT ![i] = Pending(v)]
       \/ /\ SlotsOf(v) = {} /\ Len(mvSlot) < MaxSlots
          /\ mvSlot' = Append(mvSlot, Pending(v))
       \/ /\ SlotsOf(v) = {} /\ Len(mvSlot) = MaxSlots /\ FreeSlots # {}
          /\ \E i \in FreeSlots :
                /\ \A j \in FreeSlots : i <= j
                /\ mvSlot' = [mvSlot EXCEPT ![i] = Pending(v)]
    /\ Becomes(declare_vlan(EnsureStarted(ThePort), v))
    /\ mvStarted' = TRUE /\ mvSent' = <<>>

WithdrawVlan(v) ==
    /\ \E i \in SlotsOf(v) :
          mvSlot' = [mvSlot EXCEPT ![i].state = "Unregistered"]
    /\ Becomes(withdraw_vlan(ThePort, v))
    /\ mvSent' = <<>> /\ UNCHANGED mvStarted

\* The end of a run: every live VLAN is withdrawn and the Leaves go out now.
WithdrawAll ==
    LET live == {v \in VIDs : \E i \in DOMAIN mvSlot : mvSlot[i] = Pending(v)}
        p == [OnEach(ThePort, LAMBDA v, r :
                  IF v \in live THEN [r EXCEPT !.app = ApplicantNext(@, "Leave")]
                  ELSE r)
              EXCEPT !.timer = IF live \cap VlanTable(ThePort) = {} THEN @
                               ELSE @ \cup {"join"}]
    IN  /\ mvStarted
        /\ mvSlot' = [i \in DOMAIN mvSlot |->
                          [mvSlot[i] EXCEPT !.state = "Unregistered"]]
        /\ Becomes(AfterSend(p)) /\ mvSent' = PduOf(p) /\ UNCHANGED mvStarted

ReceivePacket(la, first, events) ==
    /\ Becomes(receive_pdu(EnsureStarted(ThePort), la, first, events))
    /\ mvStarted' = TRUE /\ mvSent' = <<>> /\ UNCHANGED mvSlot

\* A tick that finds no timer expired returns early; the first only starts
\* the participant.
MvTick(expired) ==
    LET p == EnsureStarted(ThePort)
        t == TickStages(p, expired)
    IN  /\ expired \subseteq mvTimer
        /\ expired = {} => ~mvStarted
        /\ Becomes(IF expired = {} THEN p ELSE t.port)
        /\ mvSent' = IF expired = {} THEN <<>> ELSE t.sent
        /\ mvStarted' = TRUE /\ UNCHANGED mvSlot

Vectors == {<<f, ev>> \in VIDs \X UNION {[1 .. n -> AttributeEvent] : n \in 0 .. MaxVector} :
                f + Len(ev) <= LastVid + 1}

MvNext ==
    \/ \E v \in VIDs : RegisterVlan(v) \/ WithdrawVlan(v)
    \/ WithdrawAll
    \/ \E la \in BOOLEAN, x \in Vectors : ReceivePacket(la, x[1], x[2])
    \/ \E expired \in SUBSET VlanTimers : MvTick(expired)

-----------------------------------------------------------------------------
(***************************************************************************)
(* Properties.                                                             *)
(***************************************************************************)
\* What observers were last told of a VLAN is its registration, and a leaving
\* registration always has the timer that ends it.
VlanObserved ==
    \A v \in VIDs :
        LET r == mvRec[v] IN
        /\ r.reg = "In" => r.told
        /\ r.told => r.reg \in {"In", "Lv"}
        /\ r.reg = "Lv" => "leave" \in mvTimer

\* A VLAN the participant declares is one the client asked for and has not
\* withdrawn, whichever slots were reused since; a withdrawal that still owes
\* its Leave has the join timer that sends it.
VlanDeclaredForClient ==
    \A v \in VIDs :
        LET r == mvRec[v] IN
        /\ r.op = "Declare" /\ r.app \in Declaring
               => \E i \in DOMAIN mvSlot : mvSlot[i] = Pending(v)
        /\ r.app = "La" => "join" \in mvTimer

\* The shared table keeps within max_vlans, and the client's slots name a VLAN
\* once.
VlanTablesBounded ==
    /\ Cardinality({v \in VIDs : mvRec[v].op # "Absent"}) <= MaxVlans
    /\ Cardinality({mvSlot[i].vlan : i \in DOMAIN mvSlot}) = Len(mvSlot)

\* The three together: whatever order of registrations, withdrawals, PDUs and
\* timers, handler, table, observers and timers tell one story.
VlansAgree == VlanObserved /\ VlanDeclaredForClient /\ VlanTablesBounded
=============================================================================
