-------------------------- MODULE MsrpParticipant ---------------------------
(***************************************************************************)
(* One MSRP participant facing an arbitrary peer: any local client call,   *)
(* any set of expired timers and any well-formed PDU may come next.  Each  *)
(* action is one entry point of MsrpParticipantT, run to completion on the *)
(* reactor thread.                                                         *)
(***************************************************************************)
EXTENDS MsrpPort

CONSTANTS OwnAttr,    \* attributes local clients declare
          PeerAttr,   \* attributes the peer's PDUs mention
          Decl,       \* the Listener declarations in use
          Batch       \* attributes one PDU of the peer mentions, at most

ASSUME ParticipantAssumption ==
    /\ OwnAttr \subseteq Attr
    /\ PeerAttr \subseteq Attr
    /\ Decl \subseteq ListenerDeclaration
    /\ Batch \in Nat

VARIABLES port,    \* the participant
          sent,    \* the PDUs transmitted by the last step
          cause,   \* who took it: a local client, a timer or the peer
          heard    \* the types whose LeaveAll it received

vars == <<port, sent, cause, heard>>

Init ==
    /\ port = InitPort
    /\ sent = <<>>
    /\ cause = "client"
    /\ heard = {}

Talker(s) == {<<"TalkerAdvertise", s>>, <<"TalkerFailed", s>>}

-----------------------------------------------------------------------------
DeclareAttr(a, v) ==
    /\ a \in OwnAttr
    /\ HasRoom(port, a)
    /\ port' = Declare(port, a, v)
    /\ sent' = <<>>
    /\ cause' = "client"
    /\ heard' = {}

DeclareTalkerAdvertise(s, v) == DeclareAttr(<<"TalkerAdvertise", s>>, v)

DeclareTalkerFailed(s, v) == DeclareAttr(<<"TalkerFailed", s>>, v)

DeclareListener(s, decl) == DeclareAttr(<<"Listener", s>>, decl)

DeclareDomain(c, v) == DeclareAttr(<<"Domain", c>>, v)

WithdrawAttrs(A) ==
    /\ A \cap OwnAttr # {}
    /\ port' = Withdraw(port, A)
    /\ sent' = <<>>
    /\ cause' = "client"
    /\ heard' = {}

WithdrawTalker(s) == WithdrawAttrs(Talker(s))

WithdrawListener(s) == WithdrawAttrs({<<"Listener", s>>})

WithdrawDomain(c) == WithdrawAttrs({<<"Domain", c>>})

\* transmit_pending: tx! now instead of at the join timer.
TransmitPending ==
    /\ port' = AfterTx(port)
    /\ sent' = Sent(port, FALSE)
    /\ cause' = "client"
    /\ heard' = {}

-----------------------------------------------------------------------------
\* The stages of tick(); each starts from what the previous one left.
Tick(E) ==
    LET p0 == Clear(port, E)
        p1 == IF "leaveall" \in E THEN OnLeaveAllTimer(p0) ELSE p0
        p2 == IF "leave" \in E THEN OnLeaveTimer(p1, Types) ELSE p1
        p3 == IF "periodic" \in E THEN OnPeriodicTimer(p2) ELSE p2
        p4 == IF "join" \in E THEN AfterTx(p3) ELSE p3
    IN  /\ E # {}
        /\ \A t \in E : port.timer[t]
        /\ port' = Reclaim(p4)
        /\ sent' = (IF "leaveall" \in E
                    THEN Sent(AfterLeaveAllTimer(p0), LeaveAllFlag(p0)) ELSE <<>>)
                   \o (IF "join" \in E THEN Sent(p3, FALSE) ELSE <<>>)
        /\ cause' = "timer"
        /\ heard' = {}

Receive(d, admitted) ==
    LET p1 == RxTypes(port, d, admitted, Types)
    IN  /\ port' = AfterRx(p1, d)
        /\ sent' = RxAnswer(p1, d)
        /\ cause' = "peer"
        /\ heard' = d.la

-----------------------------------------------------------------------------
\* What the peer may send: one value for each of at most Batch attributes,
\* and the LeaveAll flag on any of the types it may mention.
PeerPdu ==
    UNION {[la  : SUBSET {a[1] : a \in PeerAttr},
            msg : {m \in [A -> [ev : AttributeEvent, val : Payload \cup Decl]] :
                       \A a \in A : m[a].val \in Value(a)}] :
           A \in {B \in SUBSET PeerAttr : Cardinality(B) <= Batch}}

Next ==
    \/ \E s \in Streams, v \in Payload :
          \/ DeclareTalkerAdvertise(s, v)
          \/ DeclareTalkerFailed(s, v)
    \/ \E s \in Streams, decl \in Decl : DeclareListener(s, decl)
    \/ \E c \in Classes, v \in Payload : DeclareDomain(c, v)
    \/ \E s \in Streams : WithdrawTalker(s) \/ WithdrawListener(s)
    \/ \E c \in Classes : WithdrawDomain(c)
    \/ TransmitPending
    \/ \E E \in SUBSET Timer : Tick(E)
    \/ \E d \in PeerPdu : \E admitted \in Admissions(port, d) :
          Receive(d, admitted)

Spec == Init /\ [][Next]_vars

-----------------------------------------------------------------------------
(***************************************************************************)
(* Properties.                                                             *)
(***************************************************************************)
\* Every field of the port keeps its type, and an erased record leaves
\* neither machine state nor value behind for its successor.
TypeOK == port \in Port /\ \A a \in Attr : WellFormed(a, port.slot[a])

\* What the observers were last told agrees with the Registrar: a current
\* registration has been announced, and neither the LeaveTimer nor the
\* reclaim sweep ends one without on_*_leave.  Only while the peer is
\* leaving (Lv) may the two differ, because a Leave is announced when it
\* arrives and a LeaveAll is not.
ObserversAgree ==
    \A a \in Attr :
        LET r == port.slot[a] IN
        /\ r.reg = "In" => r.told
        /\ r.told => Present(r) /\ RegistrarIsRegistered(r)

\* A Registrar in Lv has the LeaveTimer to take it out again: the timer is
\* shared by all records of the port and started only when idle, so the one
\* expiry must serve every leaving record.
LeavingHasTimer ==
    (\E a \in Attr : port.slot[a].reg = "Lv") => port.timer["leave"]

\* A withdrawn declaration has the join timer to carry its Leave.
LeaveIsScheduled ==
    (\E a \in Attr : port.slot[a].app = "La") => port.timer["join"]

\* No table outgrows its configured capacity, whoever fills it.
TablesBounded ==
    \A t \in Types : Cardinality(TableOf(port, t)) <= MaxRecords[t]

Joining(d, a) == a \in DOMAIN d.msg /\ d.msg[a].ev \in {"New", "JoinIn", "JoinMt"}

Declared(a) == port.slot[a].op = "Declare" /\ port.slot[a].app \in Declaring

\* A PDU with the LeaveAll flag re-declares every attribute this station
\* still declares, of whatever type (build_and_send_pdu's comment on IEEE
\* 802.1Q 10.7.6.2): the peer that ages everything on it hears the refresh
\* in the same packet.
LeaveAllRedeclares ==
    \A i \in DOMAIN sent : sent[i].la # {} =>
        \A a \in Attr : Declared(a) => Joining(sent[i], a)

\* The peer's LeaveAll is answered in the step that receives it: every
\* declaration of that type is on the wire again before the next event.
LeaveAllAnswered ==
    \A a \in Attr : Declared(a) /\ a[1] \in heard =>
        sent # <<>> /\ Joining(sent[1], a)

\* An end station never re-declares what its peer registered: a PDU mentions
\* an attribute only if a local client declared it, the sticky-Listener
\* setting aside.
OnlyOwnSent ==
    \A i \in DOMAIN sent : \A a \in DOMAIN sent[i].msg :
        a \in OwnAttr \/ (a[1] = "Listener" /\ RedeclareRegisteredListeners)

\* The records, the observers and the timers of a port agree after every PDU,
\* timer and client call: registrations are announced, whatever is leaving has
\* the timer that ends it, and nothing of the peer's is declared.
PortAgrees ==
    TypeOK /\ ObserversAgree /\ LeavingHasTimer /\ LeaveIsScheduled /\ OnlyOwnSent

\* A record a local client declared keeps the client's value: no PDU, timer
\* or reclaim changes it while the record exists.
OwnValueKept ==
    [][\A a \in Attr :
          LET r == port.slot[a]  q == port'.slot[a] IN
          r.op = "Declare" /\ q.op = "Declare" /\ q.val # r.val
             => cause' = "client"]_vars

\* This station's own timers never retire the peer's registration: only a
\* PDU takes a Registrar out of In.
OnlyPeerRetires ==
    [][\A a \in Attr : port.slot[a].reg = "In" /\ port'.slot[a].reg # "In"
          => cause' = "peer"]_vars

=============================================================================
