----------------------------- MODULE MsrpProofs -----------------------------
(***************************************************************************)
(* Proofs about MsrpParticipant for every set of streams, classes, values, *)
(* own and peer attributes, every table capacity and PDU size, and both    *)
(* workaround settings.                                                    *)
(***************************************************************************)
EXTENDS MsrpParticipant, PortProofs

\* A leaf goes to the SMT solver, again if its translation ran out of time.
USE SMTT(60), SMTT(50), SMTT(40)

-----------------------------------------------------------------------------
\* The recordings of two runs of the port, one after the other.
LEMMA Concatenated ==
    ASSUME NEW S, NEW s \in Seq(S), NEW u \in Seq(S)
    PROVE  /\ s \o u \in Seq(S)
           /\ Len(s \o u) = Len(s) + Len(u)
           /\ \A i \in 1 .. Len(s) + Len(u) :
                (s \o u)[i] = IF i <= Len(s) THEN s[i] ELSE u[i - Len(s)]
OBVIOUS

LEMMA PeerPduValues ==
    ASSUME NEW d \in PeerPdu
    PROVE  PduValues(d)
<1>1. PICK A : d \in [la : SUBSET {a[1] : a \in PeerAttr},
                      msg : {m \in [A -> [ev : AttributeEvent,
                                          val : Payload \cup Decl]] :
                                \A a \in A : m[a].val \in Value(a)}]
  BY DEF PeerPdu
<1> QED BY <1>1 DEF PduValues

LEMMA RxTypesOK ==
    ASSUME NEW p, PortOK(p), NEW d \in PeerPdu, NEW admitted,
           (\E a \in Attr : p.slot[a].reg = "Lv") => p.timer["leave"]
    PROVE  LET q == RxTypes(p, d, admitted, Types) IN
           /\ PortOK(q)
           /\ \A a \in Attr :
                /\ q.slot[a].op = "Declare" =>
                      p.slot[a].op = "Declare" /\ q.slot[a].val = p.slot[a].val
                /\ Present(q.slot[a]) => Present(p.slot[a]) \/ a \in admitted
                /\ q.slot[a].reg = "Lv" => q.timer["leave"]
<1> DEFINE visited == {a \in Attr : a[1] \in Types}
           r == IF d.la \cap Types = {} THEN p ELSE DispatchLeaveAll(p, "RLeaveAll")
           f == [a \in Attr |-> IF a \in visited
                                THEN RxSlot(a, p.slot[a], d, admitted)
                                ELSE p.slot[a]]
           l == r.timer["leave"] \/ \E a \in visited :
                                        SlotRequestsLvTimer(a, p.slot[a], d)
           u == [r.timer EXCEPT !["leave"] = l]
           q == RxTypes(p, d, admitted, Types)
<1>1. PortOK(r) /\ Calm(p, r)
  BY DispatchOK DEF Calm
<1>2. visited = Attr
  BY DEF Attr, Types, AttributeType
<1>3. r \in Port /\ r.timer \in [Timer -> BOOLEAN]
  BY <1>1, ZenonT(30) DEF PortOK, Port
<1>4. q = [r EXCEPT !.slot = f, !.timer["leave"] = l]
  BY <1>3 DEF RxTypes, Port
<1>5. q = [[r EXCEPT !.timer = u] EXCEPT !.slot = f]
  BY <1>3, <1>4, ZenonT(30) DEF Port
<1>6. l \in BOOLEAN
  OBVIOUS
<1>7. \A a \in Attr : f[a] = RxSlot(a, p.slot[a], d, admitted)
  BY <1>2
<1>8. f = [a \in Attr |-> f[a]]
  OBVIOUS
<1>9. l <=> r.timer["leave"] \/ \E a \in Attr :
                                     SlotRequestsLvTimer(a, p.slot[a], d)
  BY <1>2
<1> HIDE DEF r, f, l, q, visited
<1>10. u \in [Timer -> BOOLEAN] /\ u["leave"] = l
  BY <1>3, <1>6 DEF Timer
<1> HIDE DEF u
<1>11. [r EXCEPT !.timer = u] \in Port /\ [r EXCEPT !.timer = u].timer = u
  BY <1>3, <1>10 DEF Port
<1>12. \A a \in Attr :
        /\ Good(a, f[a])
        /\ f[a].op = "Declare" =>
              p.slot[a].op = "Declare" /\ f[a].val = p.slot[a].val
        /\ Present(f[a]) => Present(p.slot[a]) \/ a \in admitted
        /\ f[a].reg = "Lv" => p.slot[a].reg = "Lv"
                              \/ SlotRequestsLvTimer(a, p.slot[a], d)
  BY <1>7, PeerPduValues, RxSlotGood DEF PortOK
<1>13. PortOK(q) /\ q.slot = f /\ q.timer = u
  BY <1>5, <1>8, <1>11, <1>12, NewSlots, ZenonT(30)
<1>14. \A a \in Attr : f[a].reg = "Lv" => l
  BY <1>1, <1>9, <1>12 DEF Calm
<1> QED BY <1>10, <1>12, <1>13, <1>14 DEF q

-----------------------------------------------------------------------------
(***************************************************************************)
(* The inductive invariant.                                                *)
(***************************************************************************)
\* Only local clients make declarations.
OwnDeclared ==
    \A a \in Attr : port.slot[a].op = "Declare" => a \in OwnAttr

IInv == PortOK(port) /\ LeavingHasTimer /\ LeaveIsScheduled /\ OwnDeclared

LEMMA InitIInv == Init => IInv
<1> SUFFICES ASSUME Init PROVE IInv
  OBVIOUS
<1>1. port = InitPort
  BY DEF Init
<1>2. LeavingHasTimer /\ LeaveIsScheduled /\ OwnDeclared
  BY <1>1, InitPortOK DEF LeavingHasTimer, LeaveIsScheduled, OwnDeclared
<1> QED BY <1>1, <1>2, InitPortOK DEF IInv

\* A step a local client takes by declaring an attribute.
LEMMA DeclareStep ==
    ASSUME IInv, NEW a \in Attr, NEW v \in Value(a), DeclareAttr(a, v)
    PROVE  IInv' /\ cause' = "client"
           /\ \A b \in Attr : port'.slot[b].reg = port.slot[b].reg
<1>1. PortOK(port) /\ a \in OwnAttr /\ port' = Declare(port, a, v)
  BY DEF IInv, DeclareAttr
<1>2. /\ PortOK(port') /\ port'.timer["join"]
      /\ port.timer["leave"] => port'.timer["leave"]
      /\ \A b \in Attr : /\ port'.slot[b].reg = port.slot[b].reg
                         /\ b # a => port'.slot[b] = port.slot[b]
  BY <1>1, DeclareOK
<1>3. LeavingHasTimer' /\ LeaveIsScheduled'
  BY <1>2 DEF IInv, LeavingHasTimer, LeaveIsScheduled
<1>4. OwnDeclared'
  BY <1>1, <1>2 DEF IInv, OwnDeclared
<1> QED BY <1>2, <1>3, <1>4 DEF IInv, PortOK, DeclareAttr

LEMMA WithdrawStep ==
    ASSUME IInv, NEW A, WithdrawAttrs(A)
    PROVE  IInv' /\ cause' = "client"
           /\ \A b \in Attr : port'.slot[b].reg = port.slot[b].reg
<1>1. PortOK(port) /\ port' = Withdraw(port, A)
  BY DEF IInv, WithdrawAttrs
<1>2. /\ PortOK(port')
      /\ port.timer["join"] => port'.timer["join"]
      /\ port.timer["leave"] => port'.timer["leave"]
      /\ \A b \in Attr : /\ port'.slot[b].reg = port.slot[b].reg
                         /\ port'.slot[b].op = port.slot[b].op
                         /\ port'.slot[b].app = "La" =>
                               port.slot[b].app = "La" \/ port'.timer["join"]
  BY <1>1, WithdrawOK
<1>3. LeavingHasTimer' /\ LeaveIsScheduled'
  BY <1>2 DEF IInv, LeavingHasTimer, LeaveIsScheduled
<1>4. OwnDeclared'
  BY <1>2 DEF IInv, OwnDeclared
<1> QED BY <1>2, <1>3, <1>4 DEF IInv, PortOK, WithdrawAttrs

\* A calm step preserves the invariant.
LEMMA CalmStep ==
    ASSUME IInv, PortOK(port'), Calm(port, port')
    PROVE  IInv'
<1>1. LeavingHasTimer' /\ LeaveIsScheduled'
  BY DEF IInv, LeavingHasTimer, LeaveIsScheduled, Calm
<1>2. OwnDeclared'
  BY DEF IInv, OwnDeclared, Calm
<1> QED BY <1>1, <1>2 DEF IInv, PortOK

LEMMA TransmitStep ==
    ASSUME IInv, TransmitPending
    PROVE  IInv' /\ cause' = "client" /\ Calm(port, port')
<1>1. PortOK(port) /\ port' = AfterTx(port)
  BY DEF IInv, TransmitPending
<1>2. PortOK(port') /\ Calm(port, port')
  BY <1>1, AfterTxOK
<1> QED BY <1>2, CalmStep DEF TransmitPending

\* The expiry of any set of timers.  A timer that expires is not running
\* afterwards, and its stage leaves nothing behind that would need it.
LEMMA TickStep ==
    ASSUME IInv, NEW E \in SUBSET Timer, Tick(E)
    PROVE  /\ IInv'
           /\ cause' = "timer"
           /\ \A a \in Attr :
                /\ port'.slot[a].op = "Declare" =>
                      /\ port.slot[a].op = "Declare"
                      /\ port'.slot[a].val = port.slot[a].val
                /\ Present(port'.slot[a]) => Present(port.slot[a])
                /\ port.slot[a].reg = "In" => port'.slot[a].reg = "In"
<1> DEFINE p0 == Clear(port, E)
           p1 == IF "leaveall" \in E THEN OnLeaveAllTimer(p0) ELSE p0
           p2 == IF "leave" \in E THEN OnLeaveTimer(p1, Types) ELSE p1
           p3 == IF "periodic" \in E THEN OnPeriodicTimer(p2) ELSE p2
           p4 == IF "join" \in E THEN AfterTx(p3) ELSE p3
<1>1. PortOK(port)
  BY DEF IInv
<1>2. /\ PortOK(p0) /\ p0.slot = port.slot
      /\ \A t \in Timer : port.timer[t] /\ t \notin E => p0.timer[t]
  BY <1>1, ClearOK
<1>3. port' = Reclaim(p4) /\ cause' = "timer"
  BY ZenonT(30) DEF Tick
<1> HIDE DEF p0
<1>4. PortOK(p1) /\ Calm(p0, p1)
  BY <1>2, OnLeaveAllTimerOK DEF Calm
<1> HIDE DEF p1
<1>5. /\ PortOK(p2) /\ Calm(p1, p2)
      /\ "leave" \in E => \A a \in Attr : p2.slot[a].reg # "Lv"
  BY <1>4, OnLeaveTimerOK DEF Calm
<1> HIDE DEF p2
<1>6. PortOK(p3) /\ Calm(p2, p3)
  BY <1>5, OnPeriodicTimerOK DEF Calm
<1> HIDE DEF p3
<1>7. /\ PortOK(p4) /\ Calm(p3, p4)
      /\ "join" \in E => \A a \in Attr : p4.slot[a].app # "La"
  BY <1>6, AfterTxOK DEF Calm
<1> HIDE DEF p4
<1>8. PortOK(port') /\ Calm(p4, port')
  BY <1>3, <1>7, ReclaimOK
<1>9. Calm(p0, port') /\ Calm(p2, port')
  BY <1>4, <1>5, <1>6, <1>7, <1>8, CalmTrans
<1>10. LeavingHasTimer'
  <2>1. CASE "leave" \in E
    BY <1>5, <1>9, <2>1 DEF Calm, LeavingHasTimer
  <2>2. CASE "leave" \notin E
    BY <1>2, <1>9, <2>2 DEF IInv, Calm, LeavingHasTimer, Timer
  <2> QED BY <2>1, <2>2
<1>11. LeaveIsScheduled'
  <2>1. CASE "join" \in E
    BY <1>7, <1>8, <2>1 DEF Calm, LeaveIsScheduled
  <2>2. CASE "join" \notin E
    BY <1>2, <1>9, <2>2 DEF IInv, Calm, LeaveIsScheduled, Timer
  <2> QED BY <2>1, <2>2
<1>12. OwnDeclared'
  BY <1>2, <1>9 DEF IInv, Calm, OwnDeclared
<1> QED
  BY <1>2, <1>3, <1>8, <1>9, <1>10, <1>11, <1>12 DEF IInv, PortOK, Calm

LEMMA ReceiveStep ==
    ASSUME IInv, NEW d \in PeerPdu, NEW admitted, Receive(d, admitted)
    PROVE  /\ IInv'
           /\ cause' = "peer"
           /\ \A a \in Attr :
                /\ port'.slot[a].op = "Declare" =>
                      /\ port.slot[a].op = "Declare"
                      /\ port'.slot[a].val = port.slot[a].val
                /\ Present(port'.slot[a]) =>
                      Present(port.slot[a]) \/ a \in admitted
<1> DEFINE p1 == RxTypes(port, d, admitted, Types)
           p2 == IF d.la = {} THEN p1 ELSE AfterTx(p1)
<1>1. port' = StartTimer(p2, "join") /\ cause' = "peer"
  BY ZenonT(30) DEF Receive, AfterRx
<1>2. /\ PortOK(p1)
      /\ \A a \in Attr :
           /\ p1.slot[a].op = "Declare" =>
                port.slot[a].op = "Declare" /\ p1.slot[a].val = port.slot[a].val
           /\ Present(p1.slot[a]) => Present(port.slot[a]) \/ a \in admitted
           /\ p1.slot[a].reg = "Lv" => p1.timer["leave"]
  BY RxTypesOK DEF IInv, LeavingHasTimer
<1> HIDE DEF p1
<1>3. PortOK(p2) /\ Calm(p1, p2)
  BY <1>2, AfterTxOK DEF Calm
<1> HIDE DEF p2
<1>4. /\ PortOK(port') /\ Calm(p2, port')
      /\ port'.timer = [p2.timer EXCEPT !["join"] = TRUE]
  BY <1>1, <1>3, StartTimerOK, ZenonT(30) DEF Timer
<1>5. p2.timer \in [Timer -> BOOLEAN]
  BY <1>3 DEF PortOK, Port
<1>6. port'.timer["join"]
  BY <1>4, <1>5 DEF Timer
<1>7. Calm(p1, port')
  BY <1>3, <1>4, CalmTrans
<1>8. LeavingHasTimer' /\ LeaveIsScheduled'
  BY <1>2, <1>6, <1>7 DEF Calm, LeavingHasTimer, LeaveIsScheduled
<1>9. OwnDeclared'
  BY <1>2, <1>7 DEF IInv, Calm, OwnDeclared
<1> QED BY <1>1, <1>2, <1>4, <1>7, <1>8, <1>9 DEF IInv, PortOK, Calm

\* Everything the theorems need of a step.
Kept(p, q, c) ==
    \A a \in Attr :
        /\ p.slot[a].op = "Declare" /\ q.slot[a].op = "Declare"
              /\ q.slot[a].val # p.slot[a].val => c = "client"
        /\ p.slot[a].reg = "In" /\ q.slot[a].reg # "In" => c = "peer"

LEMMA NextStep == IInv /\ [Next]_vars => IInv' /\ (Kept(port, port', cause') \/ UNCHANGED vars)
<1> SUFFICES ASSUME IInv, [Next]_vars
             PROVE  IInv' /\ (Kept(port, port', cause') \/ UNCHANGED vars)
  OBVIOUS
<1>1. ASSUME NEW s \in Streams, NEW v \in Payload,
             DeclareTalkerAdvertise(s, v) \/ DeclareTalkerFailed(s, v)
      PROVE  IInv' /\ Kept(port, port', cause')
  <2>1. PICK a \in Attr : DeclareAttr(a, v) /\ v \in Value(a)
    BY <1>1 DEF DeclareTalkerAdvertise, DeclareTalkerFailed, Attr, Value
  <2> QED BY <2>1, DeclareStep DEF Kept
<1>2. ASSUME NEW s \in Streams, NEW decl \in Decl, DeclareListener(s, decl)
      PROVE  IInv' /\ Kept(port, port', cause')
  <2>1. PICK a \in Attr : DeclareAttr(a, decl) /\ decl \in Value(a)
    BY <1>2, ParticipantAssumption DEF DeclareListener, Attr, Value
  <2> QED BY <2>1, DeclareStep DEF Kept
<1>3. ASSUME NEW c \in Classes, NEW v \in Payload, DeclareDomain(c, v)
      PROVE  IInv' /\ Kept(port, port', cause')
  <2>1. PICK a \in Attr : DeclareAttr(a, v) /\ v \in Value(a)
    BY <1>3 DEF DeclareDomain, Attr, Value
  <2> QED BY <2>1, DeclareStep DEF Kept
<1>4. ASSUME NEW A, WithdrawAttrs(A)
      PROVE  IInv' /\ Kept(port, port', cause')
  BY <1>4, WithdrawStep DEF Kept
<1>5. ASSUME TransmitPending
      PROVE  IInv' /\ Kept(port, port', cause')
  BY <1>5, TransmitStep DEF Kept, Calm
<1>6. ASSUME NEW E \in SUBSET Timer, Tick(E)
      PROVE  IInv' /\ Kept(port, port', cause')
  BY <1>6, TickStep DEF Kept
<1>7. ASSUME NEW d \in PeerPdu, NEW admitted, Receive(d, admitted)
      PROVE  IInv' /\ Kept(port, port', cause')
  BY <1>7, ReceiveStep DEF Kept
<1>8. CASE UNCHANGED vars
  BY <1>8 DEF vars, IInv, PortOK, LeavingHasTimer, LeaveIsScheduled, OwnDeclared
<1> QED
  BY <1>1, <1>2, <1>3, <1>4, <1>5, <1>6, <1>7, <1>8, ZenonT(30)
  DEF Next, WithdrawTalker, WithdrawListener, WithdrawDomain

LEMMA Invariance == Spec => []IInv
BY InitIInv, NextStep, PTL DEF Spec

\* Whatever the clients, the timers and the peer do, the port and every
\* record keep their types and an erased record leaves nothing behind.
THEOREM TypeCorrect == Spec => []TypeOK
<1>1. IInv => TypeOK
  BY DEF IInv, PortOK, Good, TypeOK
<1> QED BY <1>1, Invariance, PTL

\* The observers' view never contradicts the Registrar: a registration is
\* never lost, nor a dead one kept, without the callback that says so.
THEOREM ObserversCorrect == Spec => []ObserversAgree
<1>1. IInv => ObserversAgree
  BY DEF IInv, PortOK, Good, ObserversAgree
<1> QED BY <1>1, Invariance, PTL

\* One shared LeaveTimer serves every leaving registration of the port.
THEOREM LeaveTimerCorrect == Spec => []LeavingHasTimer
<1>1. IInv => LeavingHasTimer
  BY DEF IInv
<1> QED BY <1>1, Invariance, PTL

\* A withdrawn declaration always has a transmit opportunity pending.
THEOREM LeaveScheduledCorrect == Spec => []LeaveIsScheduled
<1>1. IInv => LeaveIsScheduled
  BY DEF IInv
<1> QED BY <1>1, Invariance, PTL

\* Neither the peer nor a timer changes what a local client declared.
THEOREM OwnValueKeptCorrect == Spec => OwnValueKept
<1>1. IInv /\ [Next]_vars =>
        [\A a \in Attr :
          LET r == port.slot[a]  q == port'.slot[a] IN
          r.op = "Declare" /\ q.op = "Declare" /\ q.val # r.val
             => cause' = "client"]_vars
  BY NextStep DEF Kept
<1> QED BY <1>1, Invariance, PTL DEF Spec, OwnValueKept

\* Only a PDU of the peer takes a registration out of In: neither the
\* station's own LeaveAll nor any other timer or client does.
THEOREM OnlyPeerRetiresCorrect == Spec => OnlyPeerRetires
<1>1. IInv /\ [Next]_vars =>
        [\A a \in Attr : port.slot[a].reg = "In" /\ port'.slot[a].reg # "In"
          => cause' = "peer"]_vars
  BY NextStep DEF Kept
<1> QED BY <1>1, Invariance, PTL DEF Spec, OnlyPeerRetires

-----------------------------------------------------------------------------
(***************************************************************************)
(* What is transmitted.                                                    *)
(***************************************************************************)
OwnMessage(d) ==
    \A a \in DOMAIN d.msg :
        a \in OwnAttr \/ (a[1] = "Listener" /\ RedeclareRegisteredListeners)

OwnOnly(q) == \A i \in DOMAIN q : OwnMessage(q[i])

LEMMA SentOwn ==
    ASSUME NEW p, NEW la,
           \A a \in Attr : p.slot[a].op = "Declare" => a \in OwnAttr
    PROVE  /\ OwnOnly(Sent(p, la))
           /\ Sent(p, la) = <<>> \/ Sent(p, la) = <<Pdu(p, la)>>
<1>1. \A t : \A a \in Emittable(p, t) :
         a \in OwnAttr \/ (a[1] = "Listener" /\ RedeclareRegisteredListeners)
  BY DEF Emittable, MayEmit
<1> DEFINE S == UNION {Emittable(p, AttributeType[i]) : i \in Emitted(p)}
<1>2. \A a \in S :
         a \in OwnAttr \/ (a[1] = "Listener" /\ RedeclareRegisteredListeners)
  BY <1>1
<1>3. DOMAIN Pdu(p, la).msg = S
  BY DEF Pdu
<1>4. OwnMessage(Pdu(p, la))
  BY <1>2, <1>3 DEF OwnMessage
<1>5. Sent(p, la) = <<>> \/ Sent(p, la) = <<Pdu(p, la)>>
  BY DEF Sent
<1> QED BY <1>4, <1>5 DEF OwnOnly

LEMMA OwnOnlyConcat ==
    ASSUME NEW x, NEW y, NEW d, NEW e, OwnOnly(x), OwnOnly(y),
           x = <<>> \/ x = <<d>>, y = <<>> \/ y = <<e>>
    PROVE  OwnOnly(x \o y)
<1>1. CASE x = <<>> /\ y = <<>>
  BY <1>1 DEF OwnOnly
<1>2. CASE x = <<d>> /\ y = <<>>
  BY <1>2 DEF OwnOnly
<1>3. CASE x = <<>> /\ y = <<e>>
  BY <1>3 DEF OwnOnly
<1>4. CASE x = <<d>> /\ y = <<e>>
  <2>1. 1 \in DOMAIN x /\ x[1] = d /\ 1 \in DOMAIN y /\ y[1] = e
    BY <1>4
  <2>2. OwnMessage(d) /\ OwnMessage(e)
    BY <2>1 DEF OwnOnly
  <2>3. /\ x \in Seq({d, e}) /\ Len(x) = 1 /\ x[1] = d
        /\ y \in Seq({d, e}) /\ Len(y) = 1 /\ y[1] = e
    BY <1>4
  <2> DEFINE z == x \o y
  <2>4. /\ z \in Seq({d, e}) /\ Len(z) = Len(x) + Len(y)
        /\ \A i \in 1..(Len(x) + Len(y)) :
              z[i] = IF i <= Len(x) THEN x[i] ELSE y[i - Len(x)]
    BY <2>3, Concatenated
  <2> HIDE DEF z
  <2>5. DOMAIN z = 1..2 /\ z[1] = d /\ z[2] = e
    BY <2>3, <2>4
  <2>6. \A i \in DOMAIN z : OwnMessage(z[i])
    BY <2>2, <2>5
  <2> QED BY <2>6 DEF OwnOnly, z
<1> QED BY <1>1, <1>2, <1>3, <1>4

\* Along the stages of a tick the records a client declared stay the same or
\* vanish, so every PDU built on the way mentions own attributes only.
LEMMA TickSends ==
    ASSUME IInv, NEW E \in SUBSET Timer, Tick(E)
    PROVE  OwnOnly(sent')
<1> DEFINE Own(p) == \A a \in Attr : p.slot[a].op = "Declare" => a \in OwnAttr
           p0 == Clear(port, E)
           pa == AfterLeaveAllTimer(p0)
           p1 == IF "leaveall" \in E THEN OnLeaveAllTimer(p0) ELSE p0
           p2 == IF "leave" \in E THEN OnLeaveTimer(p1, Types) ELSE p1
           p3 == IF "periodic" \in E THEN OnPeriodicTimer(p2) ELSE p2
           x == IF "leaveall" \in E THEN Sent(pa, LeaveAllFlag(p0)) ELSE <<>>
           y == IF "join" \in E THEN Sent(p3, FALSE) ELSE <<>>
<1>1. PortOK(p0) /\ Own(p0)
  BY ClearOK DEF IInv, OwnDeclared
<1>2. sent' = x \o y
  BY ZenonT(30) DEF Tick
<1> HIDE DEF p0
<1>3. /\ PortOK(pa) /\ Calm(p0, pa)
      /\ PortOK(p1) /\ Calm(p0, p1)
  <2>1. Calm(p0, p0)
    BY DEF Calm
  <2>2. /\ PortOK(pa) /\ Calm(p0, pa)
        /\ PortOK(OnLeaveAllTimer(p0)) /\ Calm(p0, OnLeaveAllTimer(p0))
    BY <1>1, OnLeaveAllTimerOK, ZenonT(30)
  <2> QED BY <1>1, <2>1, <2>2, ZenonT(30)
<1> HIDE DEF pa, p1
<1>4. PortOK(p2) /\ Calm(p1, p2)
  BY <1>3, OnLeaveTimerOK DEF Calm
<1> HIDE DEF p2
<1>5. PortOK(p3) /\ Calm(p2, p3)
  BY <1>4, OnPeriodicTimerOK DEF Calm
<1> HIDE DEF p3
<1>6. Own(pa) /\ Own(p3)
  BY <1>1, <1>3, <1>4, <1>5, ZenonT(30) DEF Calm
<1>e. OwnOnly(<<>>)
  BY DEF OwnOnly
<1>7. OwnOnly(x) /\ (x = <<>> \/ x = <<Pdu(pa, LeaveAllFlag(p0))>>)
  BY <1>6, <1>e, SentOwn, ZenonT(30)
<1>8. OwnOnly(y) /\ (y = <<>> \/ y = <<Pdu(p3, FALSE)>>)
  BY <1>6, <1>e, SentOwn, ZenonT(30)
<1> HIDE DEF x, y
<1> QED BY <1>2, <1>7, <1>8, OwnOnlyConcat, ZenonT(30)

\* An end station never re-declares what its peer registered: whatever it
\* transmits, from any entry point, a local client declared (or the
\* sticky-Listener workaround asks for it).
THEOREM OnlyOwnSentCorrect == Spec => []OnlyOwnSent
<1>1. OnlyOwnSent <=> OwnOnly(sent)
  BY DEF OnlyOwnSent, OwnOnly, OwnMessage
<1>2. Init => OnlyOwnSent
  BY DEF Init, OnlyOwnSent
<1>3. IInv /\ OnlyOwnSent /\ [Next]_vars => OnlyOwnSent'
  <2> SUFFICES ASSUME IInv, OnlyOwnSent, [Next]_vars PROVE OwnOnly(sent')
    BY DEF OnlyOwnSent, OwnOnly, OwnMessage
  <2>1. ASSUME sent' = <<>> PROVE OwnOnly(sent')
    BY <2>1 DEF OwnOnly
  <2>2. ASSUME NEW a, NEW v, DeclareAttr(a, v) PROVE OwnOnly(sent')
    BY <2>1, <2>2 DEF DeclareAttr
  <2>3. ASSUME NEW A, WithdrawAttrs(A) PROVE OwnOnly(sent')
    BY <2>1, <2>3 DEF WithdrawAttrs
  <2>4. CASE TransmitPending
    BY <2>4, SentOwn, ZenonT(30) DEF TransmitPending, IInv, OwnDeclared
  <2>5. ASSUME NEW E \in SUBSET Timer, Tick(E) PROVE OwnOnly(sent')
    BY <2>5, TickSends
  <2>6. ASSUME NEW d \in PeerPdu, NEW admitted, Receive(d, admitted)
        PROVE  OwnOnly(sent')
    <3> DEFINE p1 == RxTypes(port, d, admitted, Types)
    <3>1. \A a \in Attr : p1.slot[a].op = "Declare" => a \in OwnAttr
      BY RxTypesOK DEF IInv, LeavingHasTimer, OwnDeclared
    <3>2. sent' = <<>> \/ sent' = Sent(p1, FALSE)
      BY <2>6, ZenonT(30) DEF Receive, RxAnswer
    <3> HIDE DEF p1
    <3> QED BY <2>1, <3>1, <3>2, SentOwn, ZenonT(30)
  <2>7. CASE UNCHANGED vars
    BY <1>1, <2>7 DEF vars
  <2> QED
    BY <2>2, <2>3, <2>4, <2>5, <2>6, <2>7, ZenonT(30)
    DEF Next, DeclareTalkerAdvertise, DeclareTalkerFailed, DeclareListener,
        DeclareDomain, WithdrawTalker, WithdrawListener, WithdrawDomain
<1> QED BY <1>2, <1>3, Invariance, PTL DEF Spec

-----------------------------------------------------------------------------
(***************************************************************************)
(* Capacity.                                                               *)
(***************************************************************************)

INSTANCE FiniteSetTheorems

LEMMA AttrFinite == IsFiniteSet(Attr)
<1> DEFINE K == {"TalkerAdvertise", "TalkerFailed", "Listener"}
<1>1. IsFiniteSet({"TalkerAdvertise"}) /\ IsFiniteSet({"TalkerFailed"})
        /\ IsFiniteSet({"Listener"}) /\ IsFiniteSet({"Domain"})
  BY FS_Singleton, ZenonT(30)
<1>2. K = ({"TalkerAdvertise"} \cup {"TalkerFailed"}) \cup {"Listener"}
  OBVIOUS
<1>3. IsFiniteSet({"TalkerAdvertise"} \cup {"TalkerFailed"})
  BY <1>1, FS_Union, ZenonT(30)
<1>4. IsFiniteSet(K)
  <2>1. IsFiniteSet(({"TalkerAdvertise"} \cup {"TalkerFailed"}) \cup {"Listener"})
    BY <1>1, <1>3, FS_Union, ZenonT(30)
  <2> QED BY <1>2, <2>1
<1>5. Attr = (K \X Streams) \cup ({"Domain"} \X Classes)
  BY DEF Attr
<1> HIDE DEF K
<1>6. IsFiniteSet(K \X Streams) /\ IsFiniteSet({"Domain"} \X Classes)
  BY <1>1, <1>4, RecordAssumption, FS_Product, ZenonT(30)
<1> QED BY <1>5, <1>6, FS_Union, ZenonT(30)

LEMMA TableFinite ==
    ASSUME NEW p, NEW t
    PROVE  IsFiniteSet(TableOf(p, t)) /\ Cardinality(TableOf(p, t)) \in Nat
<1>1. TableOf(p, t) \in SUBSET Attr
  BY DEF TableOf
<1>2. IsFiniteSet(TableOf(p, t))
  BY <1>1, AttrFinite, FS_Subset
<1> QED BY <1>2, FS_CardinalityType

\* Adding the records of F to a table with room for them.
LEMMA TableGrows ==
    ASSUME NEW p, NEW q, NEW t \in Types, NEW F, IsFiniteSet(F),
           TableOf(q, t) \subseteq TableOf(p, t) \cup F,
           \/ F = {} /\ Cardinality(TableOf(p, t)) <= MaxRecords[t]
           \/ Cardinality(TableOf(p, t)) + Cardinality(F) <= MaxRecords[t]
    PROVE  Cardinality(TableOf(q, t)) <= MaxRecords[t]
<1> DEFINE T == TableOf(p, t)
           U == TableOf(q, t)
<1>1. IsFiniteSet(T) /\ Cardinality(T) \in Nat /\ Cardinality(U) \in Nat
  BY TableFinite
<1>2. MaxRecords[t] \in Nat
  BY PortAssumption
<1> HIDE DEF T, U
<1>3. /\ IsFiniteSet(T \cup F)
      /\ Cardinality(T \cup F)
            = Cardinality(T) + Cardinality(F) - Cardinality(T \cap F)
  BY <1>1, FS_Union, ZenonT(30)
<1>4. Cardinality(U) <= Cardinality(T \cup F)
  BY <1>3, FS_Subset DEF T, U
<1>5. Cardinality(F) \in Nat /\ Cardinality(T \cup F) \in Nat
  BY <1>3, FS_CardinalityType
<1>6. IsFiniteSet(T \cap F)
  BY <1>1, FS_Subset
<1>7. Cardinality(T \cap F) \in Nat
  BY <1>6, FS_CardinalityType
<1>8. F = {} => Cardinality(F) = 0
  BY FS_EmptySet
<1>9. Cardinality(T) + Cardinality(F) <= MaxRecords[t]
  BY <1>1, <1>2, <1>8 DEF T
<1> QED BY <1>1, <1>2, <1>3, <1>4, <1>5, <1>7, <1>9 DEF U

\* No table outgrows its capacity: neither a client's declarations nor a
\* crowd of peer attributes in one PDU can push past MaxRecords.
THEOREM TablesBoundedCorrect == Spec => []TablesBounded
<1>1. Init => TablesBounded
  <2> SUFFICES ASSUME Init, NEW t \in Types
               PROVE  Cardinality(TableOf(port, t)) <= MaxRecords[t]
    BY DEF TablesBounded
  <2>1. TableOf(port, t) = {}
    BY DEF Init, InitPort, NoRecord, TableOf, Present
  <2> QED BY <2>1, FS_EmptySet, PortAssumption
<1>2. IInv /\ TablesBounded /\ [Next]_vars => TablesBounded'
  <2> SUFFICES ASSUME IInv, TablesBounded, [Next]_vars, NEW t \in Types
               PROVE  Cardinality(TableOf(port', t)) <= MaxRecords[t]
    BY DEF TablesBounded
  <2> DEFINE Goal == Cardinality(TableOf(port', t)) <= MaxRecords[t]
  <2>1. Cardinality(TableOf(port, t)) <= MaxRecords[t] /\ IsFiniteSet({})
    BY FS_EmptySet DEF TablesBounded
  <2>2. ASSUME \A a \in Attr : Present(port'.slot[a]) => Present(port.slot[a])
        PROVE  Goal
    <3>1. TableOf(port', t) \subseteq TableOf(port, t) \cup {}
      BY <2>2 DEF TableOf
    <3> QED BY <2>1, <3>1, TableGrows
  <2>3. ASSUME NEW a \in Attr, NEW v \in Value(a), DeclareAttr(a, v)
        PROVE  Goal
    <3>1. \A b \in Attr : b # a => port'.slot[b] = port.slot[b]
      BY <2>3, DeclareOK DEF DeclareAttr, IInv
    <3>2. CASE Present(port.slot[a])
      BY <2>2, <3>1, <3>2
    <3>3. CASE ~Present(port.slot[a]) /\ a[1] # t
      <4>1. TableOf(port', t) \subseteq TableOf(port, t) \cup {}
        BY <3>1, <3>3 DEF TableOf
      <4> QED BY <2>1, <4>1, TableGrows
    <3>4. CASE ~Present(port.slot[a]) /\ a[1] = t
      <4>1. TableOf(port', t) \subseteq TableOf(port, t) \cup {a}
        BY <3>1 DEF TableOf
      <4>2. Cardinality(TableOf(port, t)) < MaxRecords[t]
        BY <2>3, <3>4 DEF DeclareAttr, HasRoom
      <4>3. IsFiniteSet({a}) /\ Cardinality({a}) = 1
        BY FS_Singleton, ZenonT(30)
      <4>4. Cardinality(TableOf(port, t)) \in Nat /\ MaxRecords[t] \in Nat
        BY TableFinite, PortAssumption
      <4>5. Cardinality(TableOf(port, t)) + Cardinality({a}) <= MaxRecords[t]
        BY <4>2, <4>3, <4>4
      <4> QED BY <4>1, <4>3, <4>5, TableGrows, ZenonT(30)
    <3> QED BY <3>2, <3>3, <3>4
  <2>4. ASSUME NEW A, WithdrawAttrs(A) PROVE Goal
    BY <2>2, <2>4, WithdrawOK, ZenonT(30) DEF WithdrawAttrs, IInv, Present
  <2>5. ASSUME TransmitPending PROVE Goal
    BY <2>2, <2>5, TransmitStep DEF Calm
  <2>6. ASSUME NEW E \in SUBSET Timer, Tick(E) PROVE Goal
    BY <2>2, <2>6, TickStep
  <2>7. ASSUME NEW d \in PeerPdu, NEW admitted \in Admissions(port, d),
               Receive(d, admitted)
        PROVE  Goal
    <3> DEFINE fresh == {a \in Unknown(port, d) : a[1] = t}
               F == fresh \cap admitted
    <3>1. admitted \subseteq Unknown(port, d)
      BY <2>7 DEF Admissions
    <3>2. \/ Cardinality(TableOf(port, t)) + Cardinality(F) <= MaxRecords[t]
          \/ F = {}
      BY <2>7 DEF Admissions
    <3>3. TableOf(port', t) \subseteq TableOf(port, t) \cup F
      BY <2>7, <3>1, ReceiveStep DEF TableOf
    <3>4. F \subseteq Attr
      <4>1. PICK A \in SUBSET PeerAttr : DOMAIN d.msg = A
        BY DEF PeerPdu
      <4> QED BY <4>1, ParticipantAssumption DEF Unknown
    <3>5. IsFiniteSet(F)
      BY <3>4, AttrFinite, FS_Subset
    <3> HIDE DEF F
    <3> QED BY <2>1, <3>2, <3>3, <3>5, TableGrows, ZenonT(30)
  <2>8. CASE UNCHANGED vars
    BY <2>2, <2>8 DEF vars
  <2>9. ASSUME NEW s \in Streams, NEW v \in Payload,
               DeclareTalkerAdvertise(s, v) \/ DeclareTalkerFailed(s, v)
        PROVE  Goal
    <3>1. PICK a \in Attr : DeclareAttr(a, v) /\ v \in Value(a)
      BY <2>9 DEF DeclareTalkerAdvertise, DeclareTalkerFailed, Attr, Value
    <3> QED BY <2>3, <3>1
  <2>10. ASSUME NEW s \in Streams, NEW decl \in Decl, DeclareListener(s, decl)
         PROVE  Goal
    <3>1. PICK a \in Attr : DeclareAttr(a, decl) /\ decl \in Value(a)
      BY <2>10, ParticipantAssumption DEF DeclareListener, Attr, Value
    <3> QED BY <2>3, <3>1
  <2>11. ASSUME NEW c \in Classes, NEW v \in Payload, DeclareDomain(c, v)
         PROVE  Goal
    <3>1. PICK a \in Attr : DeclareAttr(a, v) /\ v \in Value(a)
      BY <2>11 DEF DeclareDomain, Attr, Value
    <3> QED BY <2>3, <3>1
  <2>12. ASSUME NEW s \in Streams, WithdrawTalker(s) \/ WithdrawListener(s)
         PROVE  Goal
    BY <2>4, <2>12 DEF WithdrawTalker, WithdrawListener
  <2>13. ASSUME NEW c \in Classes, WithdrawDomain(c) PROVE Goal
    BY <2>4, <2>13 DEF WithdrawDomain
  <2>14. CASE Next
    BY <2>5, <2>6, <2>7, <2>9, <2>10, <2>11, <2>12, <2>13, <2>14, ZenonT(30) DEF Next
  <2> QED BY <2>8, <2>14
<1> QED BY <1>1, <1>2, Invariance, PTL DEF Spec

\* Records, observers and timers of a participant agree after every step.
THEOREM PortCorrect == Spec => []PortAgrees
BY TypeCorrect, ObserversCorrect, LeaveTimerCorrect, LeaveScheduledCorrect,
   OnlyOwnSentCorrect, PTL DEF PortAgrees

-----------------------------------------------------------------------------
(***************************************************************************)
(* The size of a PDU.  BytesAfter skips a message that does not fit; when  *)
(* full tables of every type fit together, it skips none.                  *)
(***************************************************************************)
\* BytesAfter visits the types in turn.
LEMMA BytesAfterStep ==
    ASSUME NEW p
    PROVE  /\ BytesAfter(p)[0] = 1
           /\ \A i \in 1..4 :
                LET n == BytesAfter(p)[i - 1]
                    size == MessageSize(p, AttributeType[i])
                IN  BytesAfter(p)[i] = IF n + size + 2 > MaxPdu THEN n ELSE n + size
<1> DEFINE G(n, i) == LET size == MessageSize(p, AttributeType[i])
                      IN  IF n + size + 2 > MaxPdu THEN n ELSE n + size
           P(g) == g = [i \in 0..4 |-> IF i = 0 THEN 1 ELSE G(g[i - 1], i)]
<1>1. BytesAfter(p) = CHOOSE g : P(g)
  BY DEF BytesAfter
<1>2. \A n, i : G(n, i) = LET size == MessageSize(p, AttributeType[i])
                          IN  IF n + size + 2 > MaxPdu THEN n ELSE n + size
  OBVIOUS
<1> HIDE DEF G
<1>3. \E g : P(g)
  <2> DEFINE b1 == G(1, 1)
             b2 == G(b1, 2)
             b3 == G(b2, 3)
             b4 == G(b3, 4)
             f == [i \in 0..4 |-> IF i = 0 THEN 1 ELSE IF i = 1 THEN b1
                                  ELSE IF i = 2 THEN b2
                                  ELSE IF i = 3 THEN b3 ELSE b4]
  <2>1. b1 = G(1, 1) /\ b2 = G(b1, 2) /\ b3 = G(b2, 3) /\ b4 = G(b3, 4)
    OBVIOUS
  <2> HIDE DEF b1, b2, b3, b4
  <2>2. f[0] = 1 /\ f[1] = b1 /\ f[2] = b2 /\ f[3] = b3 /\ f[4] = b4
    OBVIOUS
  <2>3. f = [i \in 0..4 |-> f[i]]
    OBVIOUS
  <2> HIDE DEF f
  <2>4. 0..4 = {0, 1, 2, 3, 4} /\ 1 - 1 = 0 /\ 2 - 1 = 1 /\ 3 - 1 = 2 /\ 4 - 1 = 3
    OBVIOUS
  <2>5. \A i \in 0..4 : f[i] = IF i = 0 THEN 1 ELSE G(f[i - 1], i)
    BY <2>1, <2>2, <2>4
  <2>6. P(f)
    BY <2>3, <2>5
  <2> QED BY <2>6
<1>4. P(BytesAfter(p))
  <2> HIDE DEF P
  <2> QED BY <1>1, <1>3
<1>5. /\ BytesAfter(p)[0] = 1
      /\ \A i \in 1..4 : BytesAfter(p)[i] = G(BytesAfter(p)[i - 1], i)
  BY <1>4
<1> QED BY <1>2, <1>5

\* Octets the message of a full table takes.
FullMessage(t) == 6 + MaxRecords[t] * VectorSize(t)

\* The tables are small enough for one PDU to hold all of them.
PduFits ==
    1 + FullMessage("TalkerAdvertise") + FullMessage("TalkerFailed")
      + FullMessage("Listener") + FullMessage("Domain") + 2 <= MaxPdu

Bounded(p) == \A t \in Types : Cardinality(TableOf(p, t)) <= MaxRecords[t]

LEMMA EmittableIn ==
    ASSUME NEW p, NEW t \in Types
    PROVE  /\ Emittable(p, t) \subseteq TableOf(p, t)
           /\ IsFiniteSet(Emittable(p, t))
           /\ Cardinality(Emittable(p, t)) \in Nat
           /\ Cardinality(Emittable(p, t)) <= Cardinality(TableOf(p, t))
           /\ Emittable(p, t) # {} => Cardinality(Emittable(p, t)) # 0
<1>1. Emittable(p, t) \subseteq TableOf(p, t)
  BY DEF Emittable, TableOf, MayEmit, Present
<1>2. /\ IsFiniteSet(Emittable(p, t))
      /\ Cardinality(Emittable(p, t)) <= Cardinality(TableOf(p, t))
  BY <1>1, TableFinite, FS_Subset
<1> QED BY <1>1, <1>2, FS_CardinalityType, FS_EmptySet

LEMMA MessageFits ==
    ASSUME NEW p, Bounded(p), NEW t \in Types
    PROVE  /\ MessageSize(p, t) \in Nat
           /\ FullMessage(t) \in Nat
           /\ MessageSize(p, t) <= FullMessage(t)
           /\ Emittable(p, t) # {} => MessageSize(p, t) > 0
<1> DEFINE n == Cardinality(Emittable(p, t))
           m == MaxRecords[t]
           k == Cardinality(TableOf(p, t))
<1>1. n \in Nat /\ k \in Nat /\ m \in Nat /\ n <= k /\ k <= m
  BY EmittableIn, TableFinite, PortAssumption DEF Bounded
<1>2. VectorSize(t) \in {28, 37, 12, 7}
  BY DEF VectorSize, AttributeLength, Types, AttributeType
<1>3. Emittable(p, t) # {} => n # 0
  BY EmittableIn
<1>4. /\ MessageSize(p, t) = IF n = 0 THEN 0 ELSE 4 + n * VectorSize(t) + 2
      /\ FullMessage(t) = 6 + m * VectorSize(t)
  BY DEF MessageSize, FullMessage
<1> HIDE DEF n, m, k
<1>5. n <= m
  BY <1>1
<1>6. ASSUME NEW v \in {28, 37, 12, 7}
      PROVE  /\ n * v \in Nat /\ m * v \in Nat /\ n * v <= m * v
  <2>1. CASE v = 28
    BY <1>1, <1>5, <2>1
  <2>2. CASE v = 37
    BY <1>1, <1>5, <2>2
  <2>3. CASE v = 12
    BY <1>1, <1>5, <2>3
  <2>4. CASE v = 7
    BY <1>1, <1>5, <2>4
  <2> QED BY <2>1, <2>2, <2>3, <2>4
<1>7. /\ n * VectorSize(t) \in Nat /\ m * VectorSize(t) \in Nat
      /\ n * VectorSize(t) <= m * VectorSize(t)
  BY <1>2, <1>6
<1> DEFINE x == n * VectorSize(t)
           y == m * VectorSize(t)
<1>8. x \in Nat /\ y \in Nat /\ x <= y
  BY <1>7
<1>9. /\ MessageSize(p, t) = IF n = 0 THEN 0 ELSE 4 + x + 2
      /\ FullMessage(t) = 6 + y
  BY <1>4
<1> HIDE DEF x, y
<1> QED BY <1>3, <1>8, <1>9

\* Every message with something to say is part of the PDU.
LEMMA AllEmitted ==
    ASSUME NEW p, PduFits, Bounded(p), NEW i \in 1..4,
           Emittable(p, AttributeType[i]) # {}
    PROVE  i \in Emitted(p)
<1> DEFINE B(j) == BytesAfter(p)[j]
           S(j) == MessageSize(p, AttributeType[j])
           F(j) == FullMessage(AttributeType[j])
<1>1. \A j \in 1..4 : AttributeType[j] \in Types
  BY DEF Types
<1>2. \A j \in 1..4 : S(j) \in Nat /\ F(j) \in Nat /\ S(j) <= F(j)
  BY <1>1, MessageFits
<1>3. S(i) > 0
  BY <1>1, MessageFits
<1>4. 1 + F(1) + F(2) + F(3) + F(4) + 2 <= MaxPdu
  BY DEF PduFits, AttributeType
<1>5. B(0) = 1 /\ \A j \in 1..4 :
         B(j) = IF B(j - 1) + S(j) + 2 > MaxPdu THEN B(j - 1) ELSE B(j - 1) + S(j)
  BY BytesAfterStep
<1>6. i \in Emitted(p) <=> S(i) > 0 /\ B(i - 1) + S(i) + 2 <= MaxPdu
  BY DEF Emitted
<1>7. MaxPdu \in Nat
  BY PortAssumption
<1> HIDE DEF B, S, F
<1>8. S(1) \in Nat /\ S(2) \in Nat /\ S(3) \in Nat /\ S(4) \in Nat
      /\ F(1) \in Nat /\ F(2) \in Nat /\ F(3) \in Nat /\ F(4) \in Nat
      /\ S(1) <= F(1) /\ S(2) <= F(2) /\ S(3) <= F(3) /\ S(4) <= F(4)
  BY <1>2
<1>9. /\ B(1) = IF B(0) + S(1) + 2 > MaxPdu THEN B(0) ELSE B(0) + S(1)
      /\ B(2) = IF B(1) + S(2) + 2 > MaxPdu THEN B(1) ELSE B(1) + S(2)
      /\ B(3) = IF B(2) + S(3) + 2 > MaxPdu THEN B(2) ELSE B(2) + S(3)
  <2>1. 1 - 1 = 0 /\ 2 - 1 = 1 /\ 3 - 1 = 2 /\ 1 \in 1..4 /\ 2 \in 1..4 /\ 3 \in 1..4
    OBVIOUS
  <2>2. B(1) = IF B(1 - 1) + S(1) + 2 > MaxPdu THEN B(1 - 1) ELSE B(1 - 1) + S(1)
    BY <1>5, <2>1
  <2>3. B(2) = IF B(2 - 1) + S(2) + 2 > MaxPdu THEN B(2 - 1) ELSE B(2 - 1) + S(2)
    BY <1>5, <2>1
  <2>4. B(3) = IF B(3 - 1) + S(3) + 2 > MaxPdu THEN B(3 - 1) ELSE B(3 - 1) + S(3)
    BY <1>5, <2>1
  <2> QED BY <2>1, <2>2, <2>3, <2>4
<1>10. B(1) = 1 + S(1) /\ B(2) = 1 + S(1) + S(2) /\ B(3) = 1 + S(1) + S(2) + S(3)
  BY <1>4, <1>5, <1>7, <1>8, <1>9
<1>11. /\ B(0) + S(1) + 2 <= MaxPdu /\ B(1) + S(2) + 2 <= MaxPdu
       /\ B(2) + S(3) + 2 <= MaxPdu /\ B(3) + S(4) + 2 <= MaxPdu
  BY <1>4, <1>5, <1>7, <1>8, <1>10
<1>12. /\ i = 1 \/ i = 2 \/ i = 3 \/ i = 4
       /\ 1 - 1 = 0 /\ 2 - 1 = 1 /\ 3 - 1 = 2 /\ 4 - 1 = 3
  OBVIOUS
<1>13. B(i - 1) + S(i) + 2 <= MaxPdu
  BY <1>11, <1>12
<1> QED BY <1>3, <1>6, <1>13

\* Every declaration is mentioned by a PDU, with the event of its record.
LEMMA PduMentions ==
    ASSUME NEW p, NEW la, PduFits, Bounded(p), NEW a \in Attr,
           p.slot[a].op = "Declare"
    PROVE  /\ Sent(p, la) = <<Pdu(p, la)>>
           /\ a \in DOMAIN Pdu(p, la).msg
           /\ Pdu(p, la).msg[a].ev = WireEvent(p.slot[a])
<1>1. PICK i \in 1..4 : a[1] = AttributeType[i]
  BY DEF Attr, AttributeType
<1>2. a \in Emittable(p, AttributeType[i])
  BY <1>1 DEF Emittable, MayEmit
<1>3. i \in Emitted(p)
  BY <1>2, AllEmitted
<1> DEFINE S == UNION {Emittable(p, AttributeType[j]) : j \in Emitted(p)}
<1>4. a \in S
  BY <1>2, <1>3
<1>5. Pdu(p, la).msg = [b \in S |-> [ev  |-> WireEvent(p.slot[b]),
                                     val |-> p.slot[b].val]]
  BY DEF Pdu
<1> HIDE DEF S
<1>6. a \in DOMAIN Pdu(p, la).msg /\ Pdu(p, la).msg[a].ev = WireEvent(p.slot[a])
  BY <1>4, <1>5
<1> QED BY <1>6 DEF Sent
\* The states of an Applicant that declares nothing, and the ones it can be in
\* between the peer's LeaveAll and the next tx!.
Out == {"Start", "Vo", "Lo"}

Woken == {"Vo", "Lo", "La", "Vn", "Vp"}

LEMMA OutStays ==
    ASSUME NEW s \in Out, NEW e \in {"TxRegistrarIn", "TxRegistrarMt", "Periodic"}
    PROVE  ApplicantNext(s, e) \in Out
BY DEF ApplicantNext, ApplicantTable, ApplicantBegin, Cell, OnTx, OnPeriodic, Out

\* After this station's own LeaveAll an Applicant either declares nothing or
\* sends a joining message.
LEMMA LeaveAllRefreshes ==
    ASSUME NEW s \in ApplicantState
    PROVE  LET r == ApplicantNext(s, "TxLeaveAll") IN
           r \in Out \/ SendMessage(r) \in {"New", "Join"}
<1>1. ApplicantNext(s, "TxLeaveAll") = Cell(OnTxLeaveAll, ApplicantBegin(s))
  BY DEF ApplicantNext, ApplicantTable
<1>2. Cell(OnTxLeaveAll, ApplicantBegin(s)) \in {"Lo", "Aa", "An", "Qa"}
  BY DEF Cell, OnTxLeaveAll, ApplicantBegin, ApplicantState
<1> QED BY <1>1, <1>2 DEF SendMessage, ApplicantBegin, Out

\* The peer's LeaveAll wakes an Applicant, and no value of the same PDU puts
\* it back to sleep.
LEMMA LeaveAllWakes ==
    ASSUME NEW s \in ApplicantState
    PROVE  ApplicantNext(s, "RLeaveAll") \in Woken
BY DEF ApplicantNext, ApplicantTable, ApplicantBegin, Cell, OnRLeave, Woken,
       ApplicantState

LEMMA WokenStays ==
    ASSUME NEW s \in Woken, NEW ev \in AttributeEvent
    PROVE  ApplicantNext(s, RxEvent(ev)) \in Woken
<1>1. CASE ev = "New"
  BY <1>1 DEF RxEvent, ApplicantNext, ApplicantTable, ApplicantBegin, Cell, Woken
<1>2. CASE ev = "JoinIn"
  BY <1>2 DEF RxEvent, ApplicantNext, ApplicantTable, ApplicantBegin, Cell, Woken,
              OnRJoinIn
<1>3. CASE ev = "In"
  BY <1>3 DEF RxEvent, ApplicantNext, ApplicantTable, ApplicantBegin, Cell, Woken,
              OnRIn
<1>4. CASE ev \in {"JoinMt", "Mt"}
  <2>1. ApplicantTable(RxEvent(ev)) = OnREmpty
    BY <1>4, ZenonT(30) DEF RxEvent, ApplicantTable
  <2> QED
    BY <2>1 DEF ApplicantNext, ApplicantBegin, Cell, Woken, OnREmpty
<1>5. CASE ev = "Lv"
  <2>1. ApplicantTable(RxEvent(ev)) = OnRLeave
    BY <1>5 DEF RxEvent, ApplicantTable
  <2> QED
    BY <2>1 DEF ApplicantNext, ApplicantBegin, Cell, Woken, OnRLeave
<1> QED BY <1>1, <1>2, <1>3, <1>4, <1>5 DEF AttributeEvent

\* A woken Applicant that still declares after tx! has sent a joining message.
LEMMA WokenJoins ==
    ASSUME NEW s \in Woken, NEW e \in {"TxRegistrarIn", "TxRegistrarMt"},
           ApplicantNext(s, e) \in Declaring
    PROVE  SendMessage(s) \in {"New", "Join"}
BY DEF ApplicantNext, ApplicantTable, ApplicantBegin, Cell, OnTx, Woken,
       Declaring, SendMessage

LEMMA JoiningEvent ==
    ASSUME NEW r, SendMessage(r.app) \in {"New", "Join"}
    PROVE  WireEvent(r) \in {"New", "JoinIn", "JoinMt"}
BY DEF WireEvent

-----------------------------------------------------------------------------
(***************************************************************************)
(* LeaveAll.                                                               *)
(***************************************************************************)
\* A stage that wakes no silent Applicant.
Silent(p, q) ==
    \A a \in Attr : p.slot[a].app \in Out => q.slot[a].app \in Out

LEMMA DispatchApp ==
    ASSUME NEW a \in Attr, NEW r, Good(a, r), NEW e
    PROVE  /\ DispatchApplicant(r, e).app = ApplicantNext(r.app, e)
           /\ DispatchApplicant(r, e).op = r.op
<1>1. r \in Record(a)
  BY DEF Good, WellFormed
<1> QED BY <1>1 DEF DispatchApplicant, Record

LEMMA AfterTxSilent ==
    ASSUME NEW p, PortOK(p)
    PROVE  /\ \A a \in Attr : AfterTx(p).slot[a] = TxRecord(p.slot[a])
           /\ Silent(p, AfterTx(p))
<1>1. \A a \in Attr : AfterTx(p).slot[a] = TxRecord(p.slot[a])
  BY DEF AfterTx, PortOK, Port
<1>2. \A a \in Attr : TxEvent(p.slot[a]) \in {"TxRegistrarIn", "TxRegistrarMt"}
  BY DEF TxEvent
<1>3. \A a \in Attr : p.slot[a].app \in Out => TxRecord(p.slot[a]).app \in Out
  BY <1>2, OutStays, DispatchApp DEF TxRecord, PortOK
<1> QED BY <1>1, <1>3 DEF Silent

LEMMA OnLeaveTimerSilent ==
    ASSUME NEW p, PortOK(p)
    PROVE  Silent(p, OnLeaveTimer(p, Types))
<1>1. \A a \in Attr : OnLeaveTimer(p, Types).slot[a] \in {LeaveTimerRecord(p.slot[a]), p.slot[a]}
  BY DEF OnLeaveTimer, PortOK, Port
<1>2. \A a \in Attr : LeaveTimerRecord(p.slot[a]).app = p.slot[a].app
  BY LeaveTimerGood DEF PortOK
<1> QED BY <1>1, <1>2 DEF Silent

LEMMA OnPeriodicTimerSilent ==
    ASSUME NEW p, PortOK(p)
    PROVE  Silent(p, OnPeriodicTimer(p))
<1> DEFINE q == DispatchPeriodic(p, "Periodic")
           f == [a \in Attr |-> PeriodicRecord(q.slot[a])]
           r == [q EXCEPT !.slot = f]
<1>1. PortOK(q) /\ q.slot = p.slot
  BY DispatchOK
<1>2. OnPeriodicTimer(p) = StartTimer(r, "join")
  BY DEF OnPeriodicTimer
<1>3. \A a \in Attr : f[a] = PeriodicRecord(p.slot[a])
  BY <1>1
<1> HIDE DEF q, f
<1>4. r.slot = f
  BY <1>1 DEF PortOK, Port
<1>5. OnPeriodicTimer(p).slot = f
  BY <1>1, <1>2, <1>4 DEF StartTimer, PortOK, Port
<1>6. \A a \in Attr : p.slot[a].app \in Out => PeriodicRecord(p.slot[a]).app \in Out
  BY OutStays, DispatchApp DEF PeriodicRecord, PortOK
<1> QED BY <1>3, <1>5, <1>6 DEF Silent

LEMMA ReclaimSilent ==
    ASSUME NEW p, PortOK(p)
    PROVE  Silent(p, Reclaim(p))
<1>1. \A a \in Attr : Reclaim(p).slot[a] = ReclaimRecord(p.slot[a])
  BY DEF Reclaim, PortOK, Port
<1>2. \A a \in Attr : ReclaimRecord(p.slot[a]).app \in {p.slot[a].app, "Start"}
  BY DEF ReclaimRecord, NoRecord
<1> QED BY <1>1, <1>2 DEF Silent, Out

\* What the station's own LeaveAll leaves for build_and_send_pdu.
LEMMA AfterLeaveAllSlots ==
    ASSUME NEW p, PortOK(p), LeaveAllFlag(p), NEW a \in Attr
    PROVE  LET r == AfterLeaveAllTimer(p).slot[a] IN
           /\ r.op = p.slot[a].op
           /\ r.op = "Declare" =>
                 r.app \in Out \/ SendMessage(r.app) \in {"New", "Join"}
<1> DEFINE q == DispatchLeaveAll(DispatchLeaveAll(p, "LvaTimer"), "Tx")
           f == [b \in Attr |-> TxLeaveAllRecord(q.slot[b])]
<1>1. PortOK(q) /\ q.slot = p.slot
  BY DispatchOK
<1>2. AfterLeaveAllTimer(p) = [q EXCEPT !.slot = f]
  BY DEF AfterLeaveAllTimer, LeaveAllFlag
<1>3. f[a] = TxLeaveAllRecord(p.slot[a])
  BY <1>1
<1> HIDE DEF q, f
<1>4. AfterLeaveAllTimer(p).slot = f
  BY <1>1, <1>2 DEF PortOK, Port
<1>5. Good(a, p.slot[a]) /\ p.slot[a].app \in ApplicantState
  BY ZenonT(30) DEF PortOK, Good, WellFormed, Record
<1>6. f[a].op = p.slot[a].op
  BY <1>3, <1>5, TxLeaveAllGood, ZenonT(30) DEF Quiet
<1>7. p.slot[a].op = "Declare" => f[a].app = ApplicantNext(p.slot[a].app, "TxLeaveAll")
  BY <1>3, <1>5, DispatchApp DEF TxLeaveAllRecord, Present
<1> QED BY <1>4, <1>5, <1>6, <1>7, LeaveAllRefreshes, ZenonT(30)

LEMMA OneOrOther ==
    ASSUME NEW x, NEW y, NEW d, NEW e,
           x = <<>> \/ x = <<d>>, y = <<>> \/ y = <<e>>
    PROVE  \A i \in DOMAIN (x \o y) :
              (x \o y)[i] = e \/ (x = <<d>> /\ (x \o y)[i] = d)
<1>1. CASE x = <<>> /\ y = <<>>
  BY <1>1
<1>2. CASE x = <<d>> /\ y = <<>>
  BY <1>2
<1>3. CASE x = <<>> /\ y = <<e>>
  BY <1>3
<1>4. CASE x = <<d>> /\ y = <<e>>
  <2>1. /\ x \in Seq({d, e}) /\ Len(x) = 1 /\ x[1] = d
        /\ y \in Seq({d, e}) /\ Len(y) = 1 /\ y[1] = e
    BY <1>4
  <2> DEFINE z == x \o y
  <2>2. /\ z \in Seq({d, e}) /\ Len(z) = Len(x) + Len(y)
        /\ \A i \in 1..(Len(x) + Len(y)) :
              z[i] = IF i <= Len(x) THEN x[i] ELSE y[i - Len(x)]
    BY <2>1, Concatenated
  <2> HIDE DEF z
  <2>3. DOMAIN z = 1..2 /\ z[1] = d /\ z[2] = e
    BY <2>1, <2>2
  <2>4. \A i \in DOMAIN z : z[i] = e \/ (x = <<d>> /\ z[i] = d)
    BY <1>4, <2>3
  <2> QED BY <2>4 DEF z
<1> QED BY <1>1, <1>2, <1>3, <1>4

LEMMA BoundedStays ==
    ASSUME NEW p, NEW q, Bounded(p),
           \A a \in Attr : Present(q.slot[a]) => Present(p.slot[a])
    PROVE  Bounded(q)
<1> SUFFICES ASSUME NEW t \in Types
             PROVE  Cardinality(TableOf(q, t)) <= MaxRecords[t]
  BY DEF Bounded
<1>1. TableOf(q, t) \subseteq TableOf(p, t) \cup {}
  BY DEF TableOf
<1>2. Cardinality(TableOf(p, t)) <= MaxRecords[t] /\ IsFiniteSet({})
  BY FS_EmptySet DEF Bounded
<1> QED BY <1>1, <1>2, TableGrows

\* The stages after build_and_send_pdu wake nobody, so whoever still declares
\* at the end of the tick was re-declared by the PDU with the flag.
LEMMA TickRedeclares ==
    ASSUME PduFits, IInv, TablesBounded, NEW E \in SUBSET Timer, Tick(E)
    PROVE  LeaveAllRedeclares'
<1> DEFINE p0 == Clear(port, E)
           pa == AfterLeaveAllTimer(p0)
           p1 == IF "leaveall" \in E THEN OnLeaveAllTimer(p0) ELSE p0
           p2 == IF "leave" \in E THEN OnLeaveTimer(p1, Types) ELSE p1
           p3 == IF "periodic" \in E THEN OnPeriodicTimer(p2) ELSE p2
           p4 == IF "join" \in E THEN AfterTx(p3) ELSE p3
           d == Pdu(pa, LeaveAllFlag(p0))
           e == Pdu(p3, FALSE)
           x == IF "leaveall" \in E THEN Sent(pa, LeaveAllFlag(p0)) ELSE <<>>
           y == IF "join" \in E THEN Sent(p3, FALSE) ELSE <<>>
<1>1. PortOK(p0) /\ p0.slot = port.slot
  BY ClearOK DEF IInv
<1>2. sent' = x \o y /\ port' = Reclaim(p4)
  BY ZenonT(30) DEF Tick
<1>3. e.la = {} /\ (d.la # {} => LeaveAllFlag(p0))
  BY ZenonT(30) DEF Pdu
<1>4. (x = <<>> \/ x = <<d>>) /\ (y = <<>> \/ y = <<e>>)
  BY ZenonT(30) DEF Sent
<1>x. x = <<d>> => "leaveall" \in E
  OBVIOUS
<1>5. p1 = IF "leaveall" \in E THEN AfterTx(pa) ELSE p0
  BY DEF OnLeaveAllTimer
<1> HIDE DEF d, e, x, y, p0
<1>6. \A a, b : Silent(a, a) /\ (Silent(a, b) => \A c : Silent(b, c) => Silent(a, c))
  BY DEF Silent
<1>7. PortOK(pa) /\ Calm(p0, pa)
  BY <1>1, OnLeaveAllTimerOK, ZenonT(30)
<1>8. PortOK(AfterTx(pa)) /\ Silent(pa, AfterTx(pa))
  BY <1>7, AfterTxOK, AfterTxSilent
<1> HIDE DEF pa
<1>9. PortOK(p1) /\ ("leaveall" \in E => Silent(pa, p1))
  BY <1>1, <1>5, <1>8, ZenonT(30)
<1> HIDE DEF p1
<1>10. PortOK(p2) /\ Silent(p1, p2)
  BY <1>6, <1>9, OnLeaveTimerOK, OnLeaveTimerSilent, ZenonT(30)
<1> HIDE DEF p2
<1>11. PortOK(p3) /\ Silent(p2, p3)
  BY <1>6, <1>10, OnPeriodicTimerOK, OnPeriodicTimerSilent
<1> HIDE DEF p3
<1>12. PortOK(p4) /\ Silent(p3, p4) /\ Calm(p4, port')
  BY <1>2, <1>6, <1>11, AfterTxOK, AfterTxSilent, ReclaimOK, ZenonT(30)
<1> HIDE DEF p4
<1>13. Silent(p4, port')
  BY <1>2, <1>12, ReclaimSilent
<1>14. Silent(p1, port')
  BY <1>6, <1>10, <1>11, <1>12, <1>13, ZenonT(30)
<1>15. \A a \in Attr : port'.slot[a].op = "Declare" => port.slot[a].op = "Declare"
  BY TickStep
<1>16. Bounded(pa)
  <2>1. Bounded(port)
    BY DEF TablesBounded, Bounded
  <2> QED BY <1>1, <1>7, <2>1, BoundedStays, ZenonT(30) DEF Calm
<1> SUFFICES ASSUME NEW i \in DOMAIN sent', sent'[i].la # {},
                    NEW a \in Attr, Declared(a)'
             PROVE  Joining(sent'[i], a)
  BY DEF LeaveAllRedeclares
<1>17. sent'[i] = d /\ "leaveall" \in E /\ LeaveAllFlag(p0)
  BY <1>2, <1>3, <1>4, <1>x, OneOrOther
<1>18. port'.slot[a].op = "Declare" /\ port'.slot[a].app \in Declaring
  BY DEF Declared
<1>19. p0.slot[a].op = "Declare"
  BY <1>1, <1>15, <1>18, ZenonT(30)
<1>20. /\ pa.slot[a].op = "Declare"
       /\ pa.slot[a].app \in Out \/ SendMessage(pa.slot[a].app) \in {"New", "Join"}
  BY <1>1, <1>17, <1>19, AfterLeaveAllSlots, ZenonT(30) DEF pa
<1>21. pa.slot[a].app \notin Out
  <2>1. pa.slot[a].app \in Out => port'.slot[a].app \in Out
    BY <1>9, <1>14, <1>17 DEF Silent
  <2> QED BY <1>18, <2>1 DEF Out, Declaring
<1>22. a \in DOMAIN d.msg /\ d.msg[a].ev = WireEvent(pa.slot[a])
  BY <1>16, <1>20, PduMentions, ZenonT(30) DEF d
<1>23. WireEvent(pa.slot[a]) \in {"New", "JoinIn", "JoinMt"}
  BY <1>20, <1>21, JoiningEvent
<1> QED BY <1>17, <1>22, <1>23 DEF Joining

\* A record of a type whose LeaveAll arrived, after the whole PDU.
LEMMA RxSlotWoken ==
    ASSUME NEW d \in PeerPdu, NEW a \in Attr, NEW r, Good(a, r), NEW admitted,
           a[1] \in d.la, RxSlot(a, r, d, admitted).op = "Declare"
    PROVE  RxSlot(a, r, d, admitted).app \in Woken
<1> DEFINE k == RxLeaveAllRecord(r)
           q == RxSlot(a, r, d, admitted)
           mine == a \in DOMAIN d.msg /\ (Present(k) \/ a \in admitted)
<1>1. r.op = "Declare" /\ Present(r)
  BY RxSlotGood, PeerPduValues DEF Present
<1>2. r \in Record(a) /\ r.app \in ApplicantState
  BY DEF Good, WellFormed, Record
<1>3. Good(a, k) /\ k.op = r.op
  BY RxLeaveAllGood
<1>4. k.app = ApplicantNext(r.app, "RLeaveAll")
  <2> DEFINE j == DispatchApplicant(r, "RLeaveAll")
  <2>1. Good(a, j) /\ j.app = ApplicantNext(r.app, "RLeaveAll")
    BY <1>1, ApplicantOnly, ZenonT(30)
  <2>2. k = DispatchRegistrar(j, "RLeaveAll")
    BY <1>1, ZenonT(30) DEF RxLeaveAllRecord
  <2> HIDE DEF j, k
  <2>3. j \in Record(a)
    BY <2>1 DEF Good, WellFormed
  <2> QED BY <2>1, <2>2, <2>3, ZenonT(30) DEF DispatchRegistrar, Record
<1>5. k.app \in Woken
  BY <1>2, <1>4, LeaveAllWakes, ZenonT(30)
<1>6. q = IF mine THEN RxRecord(a, k, d.msg[a].ev, d.msg[a].val) ELSE k
  BY DEF RxSlot
<1> HIDE DEF k
<1>7. CASE mine
  <2> DEFINE ev == d.msg[a].ev
             v == d.msg[a].val
             h == DispatchApplicant(k, RxEvent(ev))
             g == DispatchRegistrar(h, RxEvent(ev))
  <2>1. ev \in AttributeEvent
    BY <1>7, PeerPduValues, ZenonT(30) DEF PduValues
  <2>2. Present(k) /\ k.op = "Declare"
    BY <1>1, <1>3 DEF Present
  <2>3. FindOrCreate(k, v) = k
    BY <2>2 DEF FindOrCreate
  <2>4. \/ q = h
        \/ \E n : q = Told(g, n)
    BY <1>6, <1>7, <2>2, <2>3 DEF RxRecord
  <2>5. h.app = ApplicantNext(k.app, RxEvent(ev)) /\ Good(a, h)
    BY <1>3, <2>2, ApplicantOnly, ZenonT(30)
  <2> HIDE DEF h
  <2>6. h \in Record(a)
    BY <2>5 DEF Good, WellFormed
  <2>7. g.app = h.app /\ g = [h EXCEPT !.reg = RegistrarNext(h.reg, RxEvent(ev))]
    BY <2>6 DEF DispatchRegistrar, Record
  <2>8. \A n : Told(g, n).app = g.app
    BY <2>6, <2>7 DEF Told, Record
  <2>9. q.app = ApplicantNext(k.app, RxEvent(ev))
    <3> HIDE DEF g, q
    <3> QED BY <2>4, <2>5, <2>7, <2>8, ZenonT(30)
  <2> QED BY <1>5, <2>1, <2>9, WokenStays, ZenonT(30)
<1>8. CASE ~mine
  BY <1>5, <1>6, <1>8
<1> QED BY <1>7, <1>8, ZenonT(30)

\* Only the LeaveAll timer's PDU has the flag.
LEMMA SentPlain ==
    ASSUME NEW p
    PROVE  \A i \in DOMAIN Sent(p, FALSE) : Sent(p, FALSE)[i].la = {}
<1> DEFINE d == Pdu(p, FALSE)
           z == Sent(p, FALSE)
<1>1. d.la = {}
  BY DEF Pdu
<1>2. z = <<>> \/ z = <<d>>
  BY ZenonT(30) DEF Sent
<1> HIDE DEF d, z
<1>3. \A i \in DOMAIN z : z[i].la = {}
  BY <1>1, <1>2
<1> QED BY <1>3, ZenonT(30) DEF z

LEMMA ReceiveAnswers ==
    ASSUME PduFits, IInv, TablesBounded', NEW d \in PeerPdu, NEW admitted,
           Receive(d, admitted)
    PROVE  LeaveAllAnswered' /\ LeaveAllRedeclares'
<1> DEFINE p1 == RxTypes(port, d, admitted, Types)
           q == AfterTx(p1)
<1>1. /\ port' = StartTimer(IF d.la = {} THEN p1 ELSE q, "join")
      /\ sent' = (IF d.la = {} THEN <<>> ELSE Sent(p1, FALSE)) /\ heard' = d.la
  BY ZenonT(30) DEF Receive, AfterRx, RxAnswer
<1>2. PortOK(p1)
  BY RxTypesOK, ZenonT(30) DEF IInv, LeavingHasTimer
<1>3. \A a \in Attr : p1.slot[a] = RxSlot(a, port.slot[a], d, admitted)
  <2> DEFINE r == IF d.la \cap Types = {} THEN port
                  ELSE DispatchLeaveAll(port, "RLeaveAll")
             f == [a \in Attr |-> IF a \in {b \in Attr : b[1] \in Types}
                                  THEN RxSlot(a, port.slot[a], d, admitted)
                                  ELSE port.slot[a]]
             l == r.timer["leave"] \/ \E a \in {b \in Attr : b[1] \in Types} :
                                          SlotRequestsLvTimer(a, port.slot[a], d)
  <2>1. PortOK(port)
    BY DEF IInv
  <2>2. PortOK(r)
    BY <2>1, DispatchOK
  <2>3. r \in Port
    BY <2>2 DEF PortOK
  <2>4. p1 = [r EXCEPT !.slot = f, !.timer["leave"] = l]
    BY <2>3 DEF RxTypes, Port
  <2>5. \A a \in Attr : f[a] = RxSlot(a, port.slot[a], d, admitted)
    BY DEF Attr, Types, AttributeType
  <2> HIDE DEF r, f, l, p1
  <2>6. p1.slot = f
    BY <2>3, <2>4 DEF Port
  <2> QED BY <2>5, <2>6
<1> HIDE DEF p1
<1>4. \A i \in DOMAIN sent' : sent'[i].la = {}
  <2>1. CASE d.la = {}
    BY <1>1, <2>1
  <2>2. CASE d.la # {}
    <3>1. sent' = Sent(p1, FALSE)
      BY <1>1, <2>2, ZenonT(30)
    <3> QED BY <3>1, SentPlain, ZenonT(30)
  <2> QED BY <2>1, <2>2
<1>5. LeaveAllRedeclares'
  BY <1>4 DEF LeaveAllRedeclares
<1> SUFFICES ASSUME NEW a \in Attr, Declared(a)', a[1] \in heard'
             PROVE  sent' # <<>> /\ Joining(sent'[1], a)
  BY <1>5 DEF LeaveAllAnswered
<1>6. d.la # {} /\ a[1] \in d.la /\ sent' = Sent(p1, FALSE)
  BY <1>1, ZenonT(30)
<1>7. PortOK(q) /\ port'.slot = q.slot
  BY <1>1, <1>2, <1>6, AfterTxOK, StartTimerOK, ZenonT(30) DEF Timer
<1>8. \A b \in Attr : q.slot[b] = TxRecord(p1.slot[b])
  BY <1>2, AfterTxSilent, ZenonT(30)
<1>9. \A b \in Attr : TxRecord(p1.slot[b]).op = p1.slot[b].op
  BY <1>2, TxGood, ZenonT(30) DEF PortOK, Quiet
<1> HIDE DEF q
<1>10. Bounded(p1)
  <2>1. Bounded(port')
    BY DEF TablesBounded, Bounded
  <2> QED BY <1>7, <1>8, <1>9, <2>1, BoundedStays, ZenonT(30) DEF Present
<1>11. /\ p1.slot[a].op = "Declare"
       /\ TxRecord(p1.slot[a]).app \in Declaring
  BY <1>7, <1>8, <1>9 DEF Declared
<1>12. TxRecord(p1.slot[a]).app = ApplicantNext(p1.slot[a].app, TxEvent(p1.slot[a]))
  BY <1>2, <1>11, DispatchApp, ZenonT(30) DEF TxRecord, Present, PortOK
<1>13. p1.slot[a].app \in Woken
  BY <1>3, <1>6, <1>11, RxSlotWoken, ZenonT(30) DEF IInv, PortOK
<1>14. TxEvent(p1.slot[a]) \in {"TxRegistrarIn", "TxRegistrarMt"}
  BY ZenonT(30) DEF TxEvent
<1>15. WireEvent(p1.slot[a]) \in {"New", "JoinIn", "JoinMt"}
  BY <1>11, <1>12, <1>13, <1>14, WokenJoins, JoiningEvent
<1>16. /\ sent' = <<Pdu(p1, FALSE)>>
       /\ a \in DOMAIN Pdu(p1, FALSE).msg
       /\ Pdu(p1, FALSE).msg[a].ev = WireEvent(p1.slot[a])
  BY <1>6, <1>10, <1>11, PduMentions, ZenonT(30)
<1> QED BY <1>15, <1>16, ZenonT(30) DEF Joining

LEMMA LeaveAllStep ==
    ASSUME PduFits, IInv, TablesBounded, TablesBounded',
           LeaveAllAnswered, LeaveAllRedeclares, [Next]_vars
    PROVE  LeaveAllAnswered' /\ LeaveAllRedeclares'
<1> DEFINE Goal == LeaveAllAnswered' /\ LeaveAllRedeclares'
<1>1. ASSUME heard' = {} PROVE LeaveAllAnswered'
  BY <1>1, ZenonT(30) DEF LeaveAllAnswered
<1>2. ASSUME sent' = <<>> PROVE LeaveAllRedeclares'
  BY <1>2 DEF LeaveAllRedeclares
<1>3. ASSUME NEW a, NEW v, DeclareAttr(a, v) PROVE Goal
  BY <1>1, <1>2, <1>3 DEF DeclareAttr
<1>4. ASSUME NEW A, WithdrawAttrs(A) PROVE Goal
  BY <1>1, <1>2, <1>4 DEF WithdrawAttrs
<1>5. CASE TransmitPending
  <2>1. \A i \in DOMAIN sent' : sent'[i].la = {}
    BY <1>5, SentPlain, ZenonT(30) DEF TransmitPending
  <2> QED BY <1>1, <1>5, <2>1, ZenonT(30) DEF TransmitPending, LeaveAllRedeclares
<1>6. ASSUME NEW E \in SUBSET Timer, Tick(E) PROVE Goal
  BY <1>1, <1>6, TickRedeclares, ZenonT(30) DEF Tick
<1>7. ASSUME NEW d \in PeerPdu, NEW admitted, Receive(d, admitted) PROVE Goal
  BY <1>7, ReceiveAnswers, ZenonT(30)
<1>8. CASE UNCHANGED vars
  BY <1>8 DEF vars, LeaveAllAnswered, LeaveAllRedeclares, Declared, Joining
<1> QED
  BY <1>3, <1>4, <1>5, <1>6, <1>7, <1>8, ZenonT(30)
  DEF Next, DeclareTalkerAdvertise, DeclareTalkerFailed, DeclareListener,
      DeclareDomain, WithdrawTalker, WithdrawListener, WithdrawDomain

LEMMA LeaveAllInvariance ==
    ASSUME PduFits
    PROVE  Spec => [](LeaveAllAnswered /\ LeaveAllRedeclares)
<1>1. Init => LeaveAllAnswered /\ LeaveAllRedeclares
  <2>1. Init => heard = {} /\ DOMAIN sent = {}
    BY DEF Init
  <2> QED BY <2>1 DEF LeaveAllAnswered, LeaveAllRedeclares
<1>2. /\ IInv /\ TablesBounded /\ TablesBounded'
      /\ LeaveAllAnswered /\ LeaveAllRedeclares
      /\ [Next]_vars
      => (LeaveAllAnswered /\ LeaveAllRedeclares)'
  BY LeaveAllStep
<1> QED BY <1>1, <1>2, Invariance, TablesBoundedCorrect, PTL DEF Spec

\* Where the configured tables fit one PDU, the peer's LeaveAll is answered in
\* the very step that receives it, whatever else that PDU says: every
\* declaration of the type it names that survives the step has been sent again.
THEOREM LeaveAllAnsweredCorrect == PduFits => (Spec => []LeaveAllAnswered)
<1> SUFFICES ASSUME PduFits PROVE Spec => []LeaveAllAnswered
  OBVIOUS
<1> QED BY LeaveAllInvariance, PTL

\* Where the configured tables fit one PDU, the PDU that carries this station's
\* own LeaveAll re-declares every attribute it still declares when the tick,
\* with whatever other timers expired in it, is over.
THEOREM LeaveAllRedeclaresCorrect == PduFits => (Spec => []LeaveAllRedeclares)
<1> SUFFICES ASSUME PduFits PROVE Spec => []LeaveAllRedeclares
  OBVIOUS
<1> QED BY LeaveAllInvariance, PTL
=============================================================================
