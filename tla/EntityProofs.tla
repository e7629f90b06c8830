---------------------------- MODULE EntityProofs ----------------------------
(***************************************************************************)
(* Proofs about MsrpHandler, the entity's client of the participant, and   *)
(* the transmit gate it feeds, for every set of streams, classes and       *)
(* values, either role, every grace and whatever the peer sends.  Only     *)
(* New!, Join! and Leave! move an Applicant between the states that        *)
(* declare and those that do not; everything a peer or a timer does leaves *)
(* it on its side.                                                         *)
(***************************************************************************)
EXTENDS Integers, MsrpHandler, PortProofs

\* A leaf goes to the SMT solver, again if its translation ran out of time.
USE SMTT(60), SMTT(50), SMTT(40)

LEMMA CellDeclaring ==
    ASSUME NEW b \in Running
    PROVE  /\ Cell(OnNew, b) \in Declaring
           /\ Cell(OnJoin, b) \in Declaring
           /\ Cell(OnLeave, b) \notin Declaring
           /\ \A i \in BOOLEAN : Cell(OnTx(i), b) \in Declaring <=> b \in Declaring
           /\ Cell(OnTxLeaveAll, b) \in Declaring <=> b \in Declaring
           /\ Cell(OnRJoinIn, b) \in Declaring <=> b \in Declaring
           /\ Cell(OnRIn, b) \in Declaring <=> b \in Declaring
           /\ Cell(OnREmpty, b) \in Declaring <=> b \in Declaring
           /\ Cell(OnRLeave, b) \in Declaring <=> b \in Declaring
           /\ Cell(OnPeriodic, b) \in Declaring <=> b \in Declaring
           /\ Cell([Start |-> "Vo"], b) \in Declaring <=> b \in Declaring
<1> USE DEF Cell, Declaring, Running, ApplicantState
<1>1. Cell(OnNew, b) \in Declaring
  BY DEF OnNew
<1>2. Cell(OnJoin, b) \in Declaring
  BY DEF OnJoin
<1>3. Cell(OnLeave, b) \notin Declaring
  BY DEF OnLeave
<1>4. \A i \in BOOLEAN : Cell(OnTx(i), b) \in Declaring <=> b \in Declaring
  BY DEF OnTx
<1>5. Cell(OnTxLeaveAll, b) \in Declaring <=> b \in Declaring
  BY DEF OnTxLeaveAll
<1>6. Cell(OnRJoinIn, b) \in Declaring <=> b \in Declaring
  BY DEF OnRJoinIn
<1>7. Cell(OnRIn, b) \in Declaring <=> b \in Declaring
  BY DEF OnRIn
<1>8. Cell(OnREmpty, b) \in Declaring <=> b \in Declaring
  BY DEF OnREmpty
<1>9. Cell(OnRLeave, b) \in Declaring <=> b \in Declaring
  BY DEF OnRLeave
<1>10. Cell(OnPeriodic, b) \in Declaring <=> b \in Declaring
  BY DEF OnPeriodic
<1>11. Cell([Start |-> "Vo"], b) \in Declaring <=> b \in Declaring
  OBVIOUS
<1> QED BY <1>1, <1>2, <1>3, <1>4, <1>5, <1>6, <1>7, <1>8, <1>9, <1>10, <1>11

LEMMA ApplicantNextDeclaring ==
    ASSUME NEW s \in ApplicantState
    PROVE  /\ ApplicantNext(s, "New") \in Declaring
           /\ ApplicantNext(s, "Join") \in Declaring
           /\ ApplicantNext(s, "Leave") \notin Declaring
           /\ \A e : e \notin {"New", "Join", "Leave"} =>
                (ApplicantNext(s, e) \in Declaring <=> s \in Declaring)
<1> DEFINE b == ApplicantBegin(s)
<1>1. b \in Running /\ (b \in Declaring <=> s \in Declaring)
  BY DEF ApplicantBegin, Running, ApplicantState, Declaring
<1> HIDE DEF b
<1>2. \A e : ApplicantNext(s, e) = Cell(ApplicantTable(e), b)
  BY DEF ApplicantNext, b
<1>3. /\ ApplicantTable("New") = OnNew
      /\ ApplicantTable("Join") = OnJoin
      /\ ApplicantTable("Leave") = OnLeave
  BY DEF ApplicantTable
<1>4. ASSUME NEW e, e \notin {"New", "Join", "Leave"}
      PROVE  Cell(ApplicantTable(e), b) \in Declaring <=> b \in Declaring
  BY <1>1, <1>4, CellDeclaring, ZenonT(30) DEF ApplicantTable
<1> QED BY <1>1, <1>2, <1>3, <1>4, CellDeclaring

\* What timers and transmission keep of a record: whether it is declared, the
\* declaration itself, and a registration.
Steady(r, q) ==
    /\ q.app \in Declaring <=> r.app \in Declaring
    /\ r.app \in Declaring => q.op = r.op /\ q.val = r.val
    /\ q.op = "Declare" => r.op = "Declare"
    /\ r.reg \in {"In", "Lv"} \/ q.reg \in {"In", "Lv"} =>
          q.reg = r.reg /\ q.op = r.op /\ q.val = r.val

SteadyPort(p, q) == \A a \in Attr : Steady(p.slot[a], q.slot[a])

LEMMA SteadyTrans ==
    ASSUME NEW p, NEW q, NEW r, SteadyPort(p, q), SteadyPort(q, r)
    PROVE  SteadyPort(p, r)
BY DEF SteadyPort, Steady

LEMMA DispatchSteady ==
    ASSUME NEW a \in Attr, NEW r, Good(a, r), NEW e, e \notin {"New", "Join", "Leave"}
    PROVE  Present(r) => Steady(r, DispatchApplicant(r, e))
<1>1. r.app \in ApplicantState
  BY DEF Good, WellFormed, Record
<1> QED BY <1>1, ApplicantOnly, ApplicantNextDeclaring DEF Steady, Quiet

LEMMA RecordStagesSteady ==
    ASSUME NEW a \in Attr, NEW r, Good(a, r)
    PROVE  /\ Steady(r, TxRecord(r))
           /\ Steady(r, TxLeaveAllRecord(r))
           /\ Steady(r, PeriodicRecord(r))
           /\ Steady(r, ReclaimRecord(r))
<1>1. Steady(r, r)
  BY DEF Steady
<1>2. Steady(r, TxRecord(r))
  BY <1>1, DispatchSteady DEF TxRecord, TxEvent
<1>3. Steady(r, TxLeaveAllRecord(r)) /\ Steady(r, PeriodicRecord(r))
  BY <1>1, DispatchSteady DEF TxLeaveAllRecord, PeriodicRecord
<1>4. Steady(r, ReclaimRecord(r))
  <2>1. CASE Present(r) /\ IsDead(r)
    <3> DEFINE q == ReclaimRecord(r)
    <3>1. q.app = "Start" /\ q.op = "Absent" /\ q.reg = "Start"
      BY <2>1 DEF ReclaimRecord, NoRecord
    <3>2. r.app = "Vo" /\ r.reg = "Mt"
      BY <2>1 DEF IsDead
    <3> QED BY <3>1, <3>2 DEF Steady, Declaring
  <2> QED BY <1>1, <2>1 DEF ReclaimRecord
<1> QED BY <1>2, <1>3, <1>4

LEMMA StagesSteady ==
    ASSUME NEW p, PortOK(p)
    PROVE  /\ PortOK(AfterTx(p)) /\ SteadyPort(p, AfterTx(p))
           /\ PortOK(OnLeaveAllTimer(p)) /\ SteadyPort(p, OnLeaveAllTimer(p))
           /\ PortOK(OnPeriodicTimer(p)) /\ SteadyPort(p, OnPeriodicTimer(p))
           /\ PortOK(Reclaim(p)) /\ SteadyPort(p, Reclaim(p))
           /\ \A E : PortOK(Clear(p, E)) /\ SteadyPort(p, Clear(p, E))
           /\ \A t \in Timer : PortOK(StartTimer(p, t)) /\ SteadyPort(p, StartTimer(p, t))
<1>1. ASSUME NEW x, PortOK(x)
      PROVE  PortOK(AfterTx(x)) /\ SteadyPort(x, AfterTx(x))
  BY <1>1, AfterTxOK, AfterTxSlots, RecordStagesSteady DEF SteadyPort, PortOK
<1>2. PortOK(OnLeaveAllTimer(p)) /\ SteadyPort(p, OnLeaveAllTimer(p))
  <2> DEFINE q == DispatchLeaveAll(DispatchLeaveAll(p, "LvaTimer"), "Tx")
             f == [b \in Attr |-> TxLeaveAllRecord(q.slot[b])]
             m == AfterLeaveAllTimer(p)
  <2>1. PortOK(q) /\ q.slot = p.slot
    BY DispatchOK
  <2>2. m = IF SuppressLeaveAll THEN q ELSE [q EXCEPT !.slot = f]
    BY DEF AfterLeaveAllTimer
  <2>3. \A a \in Attr : f[a] = TxLeaveAllRecord(p.slot[a])
    BY <2>1
  <2>4. PortOK(m)
    BY OnLeaveAllTimerOK
  <2> HIDE DEF q, f, m
  <2>5. m.slot = p.slot \/ m.slot = f
    BY <2>1, <2>2 DEF PortOK, Port
  <2>6. SteadyPort(p, m)
    BY <2>3, <2>5, RecordStagesSteady DEF SteadyPort, Steady, PortOK
  <2> QED BY <1>1, <2>4, <2>6, SteadyTrans DEF OnLeaveAllTimer, m
<1>3. PortOK(OnPeriodicTimer(p)) /\ SteadyPort(p, OnPeriodicTimer(p))
  <2> DEFINE q == DispatchPeriodic(p, "Periodic")
             f == [a \in Attr |-> PeriodicRecord(q.slot[a])]
             r == [q EXCEPT !.slot = f]
  <2>1. PortOK(q) /\ q.slot = p.slot
    BY DispatchOK
  <2>2. OnPeriodicTimer(p) = StartTimer(r, "join")
    BY DEF OnPeriodicTimer
  <2>3. \A a \in Attr : f[a] = PeriodicRecord(p.slot[a])
    BY <2>1
  <2> HIDE DEF q, f
  <2>4. r.slot = f
    BY <2>1 DEF PortOK, Port
  <2>5. OnPeriodicTimer(p).slot = f
    BY <2>1, <2>2, <2>4 DEF StartTimer, PortOK, Port
  <2> QED BY <2>3, <2>5, OnPeriodicTimerOK, RecordStagesSteady DEF SteadyPort, PortOK
<1>4. PortOK(Reclaim(p)) /\ SteadyPort(p, Reclaim(p))
  <2>1. \A a \in Attr : Reclaim(p).slot[a] = ReclaimRecord(p.slot[a])
    BY DEF Reclaim, PortOK, Port
  <2> QED BY <2>1, ReclaimOK, RecordStagesSteady DEF SteadyPort, PortOK
<1>5. \A E : PortOK(Clear(p, E)) /\ SteadyPort(p, Clear(p, E))
  BY ClearOK DEF SteadyPort, Steady
<1>6. \A t \in Timer : PortOK(StartTimer(p, t)) /\ SteadyPort(p, StartTimer(p, t))
  BY StartTimerOK, ZenonT(30) DEF SteadyPort, Steady
<1> QED BY <1>1, <1>2, <1>3, <1>4, <1>5, <1>6

-----------------------------------------------------------------------------
(***************************************************************************)
(* What a received value does to a record, and when it is news.            *)
(***************************************************************************)
LEMMA RxFields ==
    ASSUME NEW a \in Attr, NEW r, Good(a, r),
           NEW ev \in AttributeEvent, NEW v \in Value(a)
    PROVE  LET q == RxRecord(a, r, ev, v) IN
           /\ q.app = ApplicantNext(r.app, RxEvent(ev))
           /\ q.op = IF Present(r) THEN r.op ELSE "Register"
           /\ q.val = IF r.op = "Declare" THEN r.val ELSE v
           /\ q.reg = IF ReachesRegistrar(ev) THEN RegistrarNext(r.reg, RxEvent(ev))
                      ELSE r.reg
<1> DEFINE f == FindOrCreate(r, v)
           g == IF f.op = "Register" THEN [f EXCEPT !.val = v] ELSE f
           h == DispatchApplicant(g, RxEvent(ev))
           k == DispatchRegistrar(h, RxEvent(ev))
           n == RxNotice(a, f, ev, v)
<1>1. r \in Record(a) /\ r.op \in Operation
  BY DEF Good, WellFormed, Record
<1>2. /\ f \in Record(a) /\ f.app = r.app /\ f.reg = r.reg
      /\ f.op = IF Present(r) THEN r.op ELSE "Register"
      /\ r.op = "Declare" => f.val = r.val
  BY <1>1, ZenonT(30) DEF FindOrCreate, Record, Operation, Present
<1>3. RxRecord(a, r, ev, v) = IF ReachesRegistrar(ev) THEN Told(k, n) ELSE h
  BY DEF RxRecord
<1>4. f.op \in {"Register", "Declare"} /\ (f.op = "Declare" <=> r.op = "Declare")
  BY <1>1, <1>2 DEF Operation, Present
<1> HIDE DEF f
<1>5. /\ g \in Record(a) /\ g.app = r.app /\ g.reg = r.reg /\ g.op = f.op
      /\ g.val = IF r.op = "Declare" THEN r.val ELSE v
  BY <1>2, <1>4 DEF Record
<1> HIDE DEF g
<1>6. ApplicantNext(r.app, RxEvent(ev)) \in ApplicantState
  BY <1>1, ApplicantNextRuns DEF Running, Record
<1>7. /\ h \in Record(a) /\ h.app = ApplicantNext(r.app, RxEvent(ev)) /\ h.reg = r.reg
      /\ h.op = f.op /\ h.val = g.val
  BY <1>5, <1>6 DEF DispatchApplicant, Record
<1> HIDE DEF h
<1>8. RegistrarNext(r.reg, RxEvent(ev)) \in RegistrarState
  BY <1>1, RegistrarNextType DEF Record
<1>9. /\ k \in Record(a) /\ k.app = h.app /\ k.op = h.op /\ k.val = h.val
      /\ k.reg = RegistrarNext(r.reg, RxEvent(ev))
  BY <1>7, <1>8 DEF DispatchRegistrar, Record
<1> HIDE DEF k
<1>10. /\ Told(k, n).app = k.app /\ Told(k, n).op = k.op /\ Told(k, n).val = k.val
       /\ Told(k, n).reg = k.reg
  BY <1>9 DEF Told, Record
<1> HIDE DEF n
<1> QED BY <1>2, <1>3, <1>5, <1>7, <1>9, <1>10

\* The record after the LeaveAll of its message, if that has one.
AfterRxLeaveAll(a, r, d) == IF a[1] \in d.la THEN RxLeaveAllRecord(r) ELSE r

LEMMA AfterRxLeaveAllFields ==
    ASSUME NEW a \in Attr, NEW r, Good(a, r), NEW d
    PROVE  LET k == AfterRxLeaveAll(a, r, d) IN
           /\ Good(a, k) /\ k.op = r.op /\ k.val = r.val
           /\ k.app \in Declaring <=> r.app \in Declaring
           /\ k.reg = r.reg \/ k.reg \notin {"Start", "In"}
           /\ r.reg \in {"In", "Lv"} => k.reg \in {"In", "Lv"}
           /\ r.reg = "Lv" => k.reg = "Lv"
<1> DEFINE k == AfterRxLeaveAll(a, r, d)
<1>1. CASE k = r
  BY <1>1 DEF RegistrarState
<1>2. CASE k # r
  <2>1. Present(r) /\ k = RxLeaveAllRecord(r)
    BY <1>2, RxLeaveAllGood DEF AfterRxLeaveAll
  <2>2. Good(a, k) /\ k.op = r.op /\ k.val = r.val
        /\ k.reg = RegistrarNext(r.reg, "RLeaveAll")
    BY <2>1, RxLeaveAllGood
  <2>3. r.app \in ApplicantState /\ r.reg \in RegistrarState /\ r \in Record(a)
    BY DEF Good, WellFormed, Record
  <2>4. k.app = ApplicantNext(r.app, "RLeaveAll")
    BY <2>1, <2>3 DEF RxLeaveAllRecord, DispatchApplicant, DispatchRegistrar, Record
  <2>5. k.app \in Declaring <=> r.app \in Declaring
    BY <2>3, <2>4, ApplicantNextDeclaring
  <2>6. /\ k.reg \notin {"Start", "In"}
        /\ r.reg \in {"In", "Lv"} => k.reg = "Lv"
    BY <2>2, <2>3, RegistrarNextType, RegistrarNextIn
    DEF RegistrarNext, RegistrarBegin, RJoins, RLeaves
  <2> QED BY <2>2, <2>5, <2>6
<1> QED BY <1>1, <1>2

RxSlotKeeps(r, q) ==
    /\ q.app \in Declaring <=> r.app \in Declaring
    /\ r.op = "Declare" => q.op = "Declare" /\ q.val = r.val
    /\ q.op = "Declare" => r.op = "Declare"
    /\ Present(r) => Present(q)

LEMMA RxSlotFields ==
    ASSUME NEW a \in Attr, NEW r, Good(a, r), NEW d, PduValues(d), NEW admitted
    PROVE  LET q == RxSlot(a, r, d, admitted)
               k == AfterRxLeaveAll(a, r, d)
           IN  /\ Good(a, q) /\ RxSlotKeeps(r, q)
               /\ \/ /\ q = k
                     /\ ~(a \in DOMAIN d.msg /\ (Present(r) \/ a \in admitted))
                  \/ /\ q = RxRecord(a, k, d.msg[a].ev, d.msg[a].val)
                     /\ a \in DOMAIN d.msg /\ (Present(r) \/ a \in admitted)
<1> DEFINE q == RxSlot(a, r, d, admitted)
           k == AfterRxLeaveAll(a, r, d)
           mine == a \in DOMAIN d.msg /\ (Present(r) \/ a \in admitted)
<1>1. /\ Good(a, k) /\ k.op = r.op /\ k.val = r.val
      /\ k.app \in Declaring <=> r.app \in Declaring
  BY AfterRxLeaveAllFields
<1>2. q = IF mine THEN RxRecord(a, k, d.msg[a].ev, d.msg[a].val) ELSE k
  BY <1>1 DEF RxSlot, AfterRxLeaveAll, Present
<1>3. Good(a, q)
  BY RxSlotGood
<1> HIDE DEF k, q
<1>4. CASE ~mine
  BY <1>1, <1>2, <1>3, <1>4 DEF RxSlotKeeps, Present, k, q
<1>5. CASE mine
  <2> DEFINE ev == d.msg[a].ev
             v  == d.msg[a].val
  <2>1. ev \in AttributeEvent /\ v \in Value(a)
    BY <1>5 DEF PduValues
  <2>2. q = RxRecord(a, k, ev, v)
    BY <1>2, <1>5
  <2> HIDE DEF ev, v
  <2>3. /\ q.app = ApplicantNext(k.app, RxEvent(ev))
        /\ q.op = IF Present(k) THEN k.op ELSE "Register"
        /\ q.val = IF k.op = "Declare" THEN k.val ELSE v
    BY <1>1, <2>1, <2>2, RxFields
  <2>4. RxEvent(ev) \notin {"New", "Join", "Leave"}
    BY <2>1 DEF RxEvent, AttributeEvent
  <2>5. k.app \in ApplicantState
    BY <1>1 DEF Good, WellFormed, Record
  <2>6. q.app \in Declaring <=> k.app \in Declaring
    BY <2>3, <2>4, <2>5, ApplicantNextDeclaring
  <2>7. RxSlotKeeps(r, q)
    BY <1>1, <2>3, <2>6 DEF RxSlotKeeps, Present
  <2> QED BY <1>3, <1>5, <2>2, <2>7 DEF k, q, ev, v
<1> QED BY <1>4, <1>5

\* handle_peer_attr_rx and handle_listener_rx call the observer for this value.
Newsworthy(a, r, d, admitted) ==
    /\ a \in DOMAIN d.msg
    /\ Present(r) \/ a \in admitted
    /\ RxNotice(a, FindOrCreate(AfterRxLeaveAll(a, r, d), d.msg[a].val),
                d.msg[a].ev, d.msg[a].val) # "None"

\* What Held says of the record.
HeldRecord(r) ==
    \/ r.op = "Register" /\ r.reg \in {"In", "Lv"} /\ r.val \in {"Ready", "ReadyFailed"}
    \/ r.reg = "Lv"

\* In and Mt repeat what is registered.
Repeats(a, r, d) ==
    a \in DOMAIN d.msg =>
        d.msg[a].ev \notin {"In", "Mt"} \/ ~Present(r) \/ r.val = d.msg[a].val

\* A registration is news, and so is every change that ends a hold.
LEMMA RegistrationIsNews ==
    ASSUME NEW a \in Attr, NEW r, Good(a, r), NEW d, PduValues(d), NEW admitted
    PROVE  LET q == RxSlot(a, r, d, admitted) IN
           /\ ~RegistrarIsRegistered(r) /\ RegistrarIsIn(q) => Newsworthy(a, r, d, admitted)
           /\ (/\ a[1] = "Listener" /\ HeldRecord(r) /\ Repeats(a, r, d)
               /\ ~Newsworthy(a, r, d, admitted)) => HeldRecord(q)
<1> DEFINE q  == RxSlot(a, r, d, admitted)
           k  == AfterRxLeaveAll(a, r, d)
           ev == d.msg[a].ev
           v  == d.msg[a].val
           f  == FindOrCreate(k, v)
           n  == RxNotice(a, f, ev, v)
<1>1. /\ Good(a, k) /\ k.op = r.op /\ k.val = r.val
      /\ k.reg = r.reg \/ k.reg \notin {"Start", "In"}
      /\ r.reg \in {"In", "Lv"} => k.reg \in {"In", "Lv"}
      /\ r.reg = "Lv" => k.reg = "Lv"
  BY AfterRxLeaveAllFields
<1>2. k \in Record(a) /\ k.reg \in RegistrarState /\ r.reg \in RegistrarState
  BY <1>1 DEF Good, WellFormed, Record
<1>3. r.reg \in {"In", "Lv"} => Present(r)
  BY DEF Good, WellFormed, Present
<1>4. \/ q = k /\ ~(a \in DOMAIN d.msg /\ (Present(r) \/ a \in admitted))
      \/ /\ q = RxRecord(a, k, ev, v)
         /\ a \in DOMAIN d.msg /\ (Present(r) \/ a \in admitted)
  BY RxSlotFields
<1>5. Newsworthy(a, r, d, admitted) <=>
        /\ a \in DOMAIN d.msg /\ (Present(r) \/ a \in admitted)
        /\ n # "None"
  BY DEF Newsworthy
<1> HIDE DEF k, q
<1>6. CASE q = k /\ ~(a \in DOMAIN d.msg /\ (Present(r) \/ a \in admitted))
  BY <1>1, <1>6 DEF HeldRecord, RegistrarIsRegistered, RegistrarIsIn, q
<1>7. CASE /\ q = RxRecord(a, k, ev, v)
           /\ a \in DOMAIN d.msg /\ (Present(r) \/ a \in admitted)
  <2>1. ev \in AttributeEvent /\ v \in Value(a)
    BY <1>7 DEF PduValues
  <2>2. Repeats(a, r, d) => ev \notin {"In", "Mt"} \/ ~Present(r) \/ r.val = v
    BY <1>7 DEF Repeats
  <2> HIDE DEF ev, v
  <2>3. /\ q.op = IF Present(k) THEN k.op ELSE "Register"
        /\ q.val = IF k.op = "Declare" THEN k.val ELSE v
        /\ q.reg = IF ReachesRegistrar(ev) THEN RegistrarNext(k.reg, RxEvent(ev))
                   ELSE k.reg
    BY <1>1, <1>7, <2>1, RxFields
  <2>4. /\ f.reg = k.reg
        /\ Present(k) => f.val = k.val
    BY <1>2 DEF FindOrCreate, Record
  <2> HIDE DEF f
  <2>5. ~RegistrarIsRegistered(r) /\ RegistrarIsIn(q) => n # "None"
    <3> SUFFICES ASSUME ~RegistrarIsRegistered(r), RegistrarIsIn(q) PROVE n # "None"
      OBVIOUS
    <3>1. k.reg # "In" /\ q.reg = "In"
      BY <1>1 DEF RegistrarIsRegistered, RegistrarIsIn
    <3>2. ReachesRegistrar(ev) /\ RegistrarNext(k.reg, RxEvent(ev)) = "In"
      BY <2>3, <3>1
    <3>3. RxEvent(ev) \in RJoins
      BY <1>2, <2>1, <3>1, <3>2
      DEF RxEvent, AttributeEvent, RegistrarNext, RegistrarBegin, RJoins, RLeaves,
          ReachesRegistrar, RegistrarState
    <3>4. RegistrarBegin(k.reg) # "In"
      BY <3>1 DEF RegistrarBegin
    <3>5. RegistrarNotify(f.reg, RxEvent(ev)) \in {"New", "Join"}
      BY <2>4, <3>3, <3>4 DEF RegistrarNotify, RJoins
    <3> QED BY <3>2, <3>5 DEF RxNotice
  <2>6. ASSUME a[1] = "Listener", HeldRecord(r), Repeats(a, r, d), n = "None"
        PROVE  HeldRecord(q)
    <3>1. Present(r) /\ Present(k) /\ k.reg \in {"In", "Lv"} /\ q.op = k.op
      BY <1>1, <1>3, <2>3, <2>6 DEF HeldRecord, Present
    <3>2. k.reg = "Lv" \/ (k.op = "Register" /\ k.val \in {"Ready", "ReadyFailed"})
      BY <1>1, <2>6 DEF HeldRecord
    <3>3. CASE ev \in {"In", "Mt"}
      BY <1>1, <2>2, <2>3, <2>6, <3>1, <3>2, <3>3 DEF HeldRecord, ReachesRegistrar
    <3>4. CASE ev = "Lv"
      <4>1. f.reg # "In"
        BY <2>6, <3>4 DEF RxNotice, ReachesRegistrar, RegistrarIsIn, RegistrarNotify,
                          RxEvent, RegistrarBegin
      <4>2. q.reg = "Lv"
        BY <2>3, <2>4, <3>1, <3>4, <4>1
        DEF ReachesRegistrar, RxEvent, RegistrarNext, RegistrarBegin, RJoins, RLeaves
      <4> QED BY <4>2 DEF HeldRecord
    <3>5. CASE ev \in {"New", "JoinIn", "JoinMt"}
      <4>1. f.reg = "In" /\ f.val = v
        BY <2>4, <2>6, <3>1, <3>5
        DEF RxNotice, ReachesRegistrar, RegistrarIsIn, RegistrarNotify, RxEvent,
            RegistrarBegin
      <4>2. q.reg = "In"
        BY <2>3, <3>5
        DEF ReachesRegistrar, RxEvent, RegistrarNext, RegistrarBegin, RJoins, RLeaves
      <4> QED BY <2>3, <2>4, <3>1, <3>2, <4>1, <4>2 DEF HeldRecord
    <3> QED BY <2>1, <3>3, <3>4, <3>5 DEF AttributeEvent
  <2> QED BY <1>5, <1>7, <2>5, <2>6 DEF q
<1> QED BY <1>4, <1>6, <1>7

-----------------------------------------------------------------------------
(***************************************************************************)
(* Ports.                                                                  *)
(***************************************************************************)
LEMMA AttrShape ==
    /\ \A s \in Streams : /\ TalkerAttr(s) \in Attr /\ TalkerAttr(s)[1] = "TalkerAdvertise"
                          /\ FailedAttr(s) \in Attr /\ FailedAttr(s)[1] = "TalkerFailed"
                          /\ ListenerAttr(s) \in Attr /\ ListenerAttr(s)[1] = "Listener"
                          /\ ListenerAttr(s)[2] = s
    /\ \A a \in Attr : /\ a[1] = "TalkerAdvertise" => \E s \in Streams : a = TalkerAttr(s)
                       /\ a[1] = "TalkerFailed" => \E s \in Streams : a = FailedAttr(s)
                       /\ a[1] = "Listener" => a[2] \in Streams /\ a = ListenerAttr(a[2])
                       /\ a[1] \in Types
<1>1. \A s \in Streams : /\ TalkerAttr(s) \in Attr /\ TalkerAttr(s)[1] = "TalkerAdvertise"
                         /\ FailedAttr(s) \in Attr /\ FailedAttr(s)[1] = "TalkerFailed"
                         /\ ListenerAttr(s) \in Attr /\ ListenerAttr(s)[1] = "Listener"
                         /\ ListenerAttr(s)[2] = s
  BY DEF TalkerAttr, FailedAttr, ListenerAttr, Attr
<1>2. ASSUME NEW a \in Attr
      PROVE  /\ a[1] = "TalkerAdvertise" => \E s \in Streams : a = TalkerAttr(s)
             /\ a[1] = "TalkerFailed" => \E s \in Streams : a = FailedAttr(s)
             /\ a[1] = "Listener" => a[2] \in Streams /\ a = ListenerAttr(a[2])
             /\ a[1] \in Types
  <2>1. CASE a \in {"TalkerAdvertise", "TalkerFailed", "Listener"} \X Streams
    <3>1. PICK t \in {"TalkerAdvertise", "TalkerFailed", "Listener"}, s \in Streams :
              a = <<t, s>>
      BY <2>1
    <3> QED BY <3>1 DEF TalkerAttr, FailedAttr, ListenerAttr, Types, AttributeType
  <2>2. CASE a \in {"Domain"} \X Classes
    BY <2>2 DEF Types, AttributeType
  <2> QED BY <2>1, <2>2 DEF Attr
<1> QED BY <1>1, <1>2

LEMMA RxTypeSlots ==
    ASSUME NEW p, PortOK(p), NEW d, PduValues(d), NEW admitted, NEW T
    PROVE  LET q == RxTypes(p, d, admitted, T) IN
           /\ PortOK(q)
           /\ \A a \in Attr : q.slot[a] = IF a[1] \in T THEN RxSlot(a, p.slot[a], d, admitted)
                                          ELSE p.slot[a]
<1> DEFINE visited == {a \in Attr : a[1] \in T}
           r == IF d.la \cap T = {} THEN p ELSE DispatchLeaveAll(p, "RLeaveAll")
           f == [a \in Attr |-> IF a \in visited
                                THEN RxSlot(a, p.slot[a], d, admitted)
                                ELSE p.slot[a]]
           l == r.timer["leave"] \/ \E a \in visited :
                                        SlotRequestsLvTimer(a, p.slot[a], d)
           u == [r.timer EXCEPT !["leave"] = l]
           q == RxTypes(p, d, admitted, T)
<1>1. PortOK(r)
  BY DispatchOK
<1>2. r \in Port /\ r.timer \in [Timer -> BOOLEAN]
  BY <1>1 DEF PortOK, Port
<1>3. q = [r EXCEPT !.slot = f, !.timer["leave"] = l]
  BY <1>2 DEF RxTypes, Port
<1>4. q = [[r EXCEPT !.timer = u] EXCEPT !.slot = f]
  BY <1>2, <1>3, ZenonT(30) DEF Port
<1>5. l \in BOOLEAN
  OBVIOUS
<1>6. \A a \in Attr : f[a] = IF a[1] \in T THEN RxSlot(a, p.slot[a], d, admitted)
                             ELSE p.slot[a]
  OBVIOUS
<1>7. f = [a \in Attr |-> f[a]]
  OBVIOUS
<1> HIDE DEF r, f, l, q, visited
<1>8. u \in [Timer -> BOOLEAN]
  BY <1>2, <1>5 DEF Timer
<1> HIDE DEF u
<1>9. [r EXCEPT !.timer = u] \in Port
  BY <1>2, <1>8 DEF Port
<1>10. \A a \in Attr : Good(a, f[a])
  BY <1>6, RxSlotGood DEF PortOK
<1>11. PortOK(q) /\ q.slot = f
  BY <1>4, <1>7, <1>9, <1>10, NewSlots, ZenonT(30)
<1> QED BY <1>6, <1>11 DEF q

LEMMA LeaveTypeSlots ==
    ASSUME NEW p, PortOK(p), NEW T
    PROVE  LET q == OnLeaveTimer(p, T) IN
           /\ PortOK(q)
           /\ \A a \in Attr : q.slot[a] = IF a[1] \in T THEN LeaveTimerRecord(p.slot[a])
                                          ELSE p.slot[a]
<1> DEFINE q == OnLeaveTimer(p, T)
           f == [a \in Attr |-> IF a[1] \in T THEN LeaveTimerRecord(p.slot[a])
                                ELSE p.slot[a]]
<1>1. f = [a \in Attr |-> f[a]] /\ p \in Port
  BY DEF PortOK
<1>2. q = [p EXCEPT !.slot = f]
  BY DEF OnLeaveTimer
<1>3. \A a \in Attr : f[a] = IF a[1] \in T THEN LeaveTimerRecord(p.slot[a]) ELSE p.slot[a]
  OBVIOUS
<1> HIDE DEF f, q
<1>4. \A a \in Attr : Good(a, f[a])
  BY <1>3, LeaveTimerGood DEF PortOK
<1>5. PortOK(q) /\ q.slot = f
  BY <1>1, <1>2, <1>4, NewSlots
<1> QED BY <1>3, <1>5 DEF q

LEMMA WithdrawSlots ==
    ASSUME NEW p, PortOK(p), NEW A
    PROVE  LET q == Withdraw(p, A) IN
           \A b \in Attr : q.slot[b] = IF b \in A THEN WithdrawRecord(p.slot[b])
                                       ELSE p.slot[b]
<1> DEFINE f == [a \in Attr |-> IF a \in A THEN WithdrawRecord(p.slot[a])
                                ELSE p.slot[a]]
           r == [p EXCEPT !.slot = f]
           q == Withdraw(p, A)
<1>1. p \in Port
  BY DEF PortOK
<1>2. CASE \E a \in A : Present(p.slot[a])
  <2>1. q = StartTimer(r, "join")
    BY <1>2 DEF Withdraw
  <2> HIDE DEF f
  <2>2. q.slot = f
    BY <1>1, <2>1 DEF StartTimer, Port
  <2> QED BY <2>2 DEF f
<1>3. CASE ~\E a \in A : Present(p.slot[a])
  <2>1. q = p
    BY <1>3 DEF Withdraw
  <2>2. \A b \in A : WithdrawRecord(p.slot[b]) = p.slot[b]
    BY <1>3 DEF WithdrawRecord
  <2> QED BY <2>1, <2>2
<1> QED BY <1>2, <1>3

LEMMA WithdrawnRecord ==
    ASSUME NEW a \in Attr, NEW r, Good(a, r)
    PROVE  /\ WithdrawRecord(r).app \notin Declaring
           /\ WithdrawRecord(r).reg = r.reg /\ WithdrawRecord(r).op = r.op
           /\ WithdrawRecord(r).val = r.val
<1>1. CASE ~Present(r)
  BY <1>1 DEF WithdrawRecord, Good, WellFormed, Declaring
<1>2. CASE Present(r)
  <2>1. r.app \in ApplicantState
    BY DEF Good, WellFormed, Record
  <2> QED BY <1>2, <2>1, ApplicantOnly, ApplicantNextDeclaring DEF WithdrawRecord, Quiet
<1> QED BY <1>1, <1>2

\* A declaration is in force at once: Join! leads to a declaring state.
LEMMA DeclaredRecord ==
    ASSUME NEW a \in Attr, NEW r, Good(a, r), NEW v \in Value(a)
    PROVE  LET q == DeclareRecord(r, v) IN
           /\ Good(a, q)
           /\ q.op = "Declare" /\ q.val = v /\ q.reg = r.reg /\ q.app \in Declaring
<1> DEFINE d == [FindOrCreate(r, v) EXCEPT !.op = "Declare", !.val = v]
<1>1. r \in Record(a)
  BY DEF Good, WellFormed
<1>2. d \in Record(a) /\ d.op = "Declare" /\ d.val = v /\ d.app \in ApplicantState
  BY <1>1, ZenonT(30) DEF FindOrCreate, Record, Operation
<1>3. DeclareRecord(r, v) = DispatchApplicant(d, "Join")
  BY <1>2 DEF DeclareRecord, FirstDeclareEvent
<1>4. ApplicantNext(d.app, "Join") \in Declaring
  BY <1>2, ApplicantNextDeclaring
<1> HIDE DEF d
<1>5. DeclareRecord(r, v).val = v /\ DeclareRecord(r, v).app \in Declaring
  BY <1>2, <1>3, <1>4 DEF DispatchApplicant, Record
<1> QED BY <1>5, DeclareGood

LEMMA DeclareSlots ==
    ASSUME NEW p, PortOK(p), NEW a \in Attr, NEW v \in Value(a)
    PROVE  LET q == Declare(p, a, v) IN
           /\ PortOK(q)
           /\ \A b \in Attr : q.slot[b] = IF b = a THEN DeclareRecord(p.slot[a], v)
                                          ELSE p.slot[b]
<1> DEFINE q == Declare(p, a, v)
           f == [p.slot EXCEPT ![a] = DeclareRecord(@, v)]
<1>1. p \in Port /\ p.slot \in [Attr -> UNION {Record(b) : b \in Attr}]
  BY DEF PortOK, Port
<1>2. q = StartTimer([p EXCEPT !.slot = f], "join")
  BY <1>1 DEF Declare, Port
<1>3. \A b \in Attr : f[b] = IF b = a THEN DeclareRecord(p.slot[a], v) ELSE p.slot[b]
  BY <1>1
<1> HIDE DEF f
<1>4. q.slot = f
  BY <1>1, <1>2 DEF StartTimer, Port
<1> QED BY <1>3, <1>4, DeclareOK

-----------------------------------------------------------------------------
(***************************************************************************)
(* The observers' callbacks.                                               *)
(***************************************************************************)
Attached == {"Ready", "AskingFailed"}

ListenerState == {"None", "Idle", "Ready", "AskingFailed"}

Gate == [ready : BOOLEAN, conn : BOOLEAN, seen : 0..Never]

ClientType(c) ==
    /\ c = [port |-> c.port, ls |-> c.ls, gate |-> c.gate]
    /\ PortOK(c.port)
    /\ c.ls \in [Streams -> ListenerState]
    /\ c.gate \in [Streams -> Gate]

\* The callbacks for A declare the stream s anew.
Moved(c, A, s) ==
    /\ TalkerAttr(s) \in A \/ FailedAttr(s) \in A
    /\ c.ls[s] \in Attached
    /\ c.ls[s] # Want(c.port, s)

NotifyOutcome(c, A, e) ==
    /\ ClientType(e)
    /\ \A a \in Attr : a[1] # "Listener" => e.port.slot[a] = c.port.slot[a]
    /\ \A s \in Streams :
          /\ e.port.slot[ListenerAttr(s)] =
                IF Moved(c, A, s)
                THEN DeclareRecord(c.port.slot[ListenerAttr(s)], Want(c.port, s))
                ELSE c.port.slot[ListenerAttr(s)]
          /\ e.ls[s] = IF Moved(c, A, s) THEN Want(c.port, s) ELSE c.ls[s]
          /\ e.gate[s] = IF ListenerAttr(s) \in A /\ tk[s] # "None"
                         THEN [c.gate[s] EXCEPT !.ready = ListenerPermitsTransmit(e.port, s)]
                         ELSE c.gate[s]

LEMMA NotifyFacts ==
    ASSUME NEW c, ClientType(c), NEW A
    PROVE  NotifyOutcome(c, A, Notify(c, A))
<1> DEFINE talkers   == {s \in Streams : A \cap {TalkerAttr(s), FailedAttr(s)} # {}}
           listeners == {s \in Streams : ListenerAttr(s) \in A}
           ch(s) == IF s \in talkers THEN OnRemoteTalkerChanged(c, s) ELSE c
           L == [s \in Streams |-> ch(s).ls[s]]
           F == [a \in Attr |-> IF a[1] = "Listener" THEN ch(a[2]).port.slot[a]
                                ELSE c.port.slot[a]]
           j == c.port.timer["join"] \/ \E s \in Streams : ch(s).port.timer["join"]
           u == [c.port.timer EXCEPT !["join"] = j]
           p == [[c.port EXCEPT !.timer = u] EXCEPT !.slot = F]
           k == [port |-> p, ls |-> L, gate |-> c.gate]
           G == [s \in Streams |-> IF s \in listeners THEN NotifyTalkerListener(k, s).gate[s]
                                   ELSE c.gate[s]]
           e == [port |-> p, ls |-> L, gate |-> G]
<1>1. /\ c.port \in Port /\ c.port.timer \in [Timer -> BOOLEAN] /\ PortOK(c.port)
      /\ c.ls \in [Streams -> ListenerState] /\ c.gate \in [Streams -> Gate]
      /\ c = [port |-> c.port, ls |-> c.ls, gate |-> c.gate]
  BY DEF ClientType, PortOK, Port
<1>2. Notify(c, A) = e
  <2> DEFINE m == [c.port EXCEPT !.slot = F, !.timer["join"] = j]
             x == [port |-> m, ls |-> L, gate |-> c.gate]
  <2>1. x = k
    <3> HIDE DEF L, F, j
    <3>1. m = p
      BY <1>1, ZenonT(30) DEF Port
    <3> HIDE DEF m, p
    <3> QED BY <3>1
  <2>2. Notify(c, A) = [x EXCEPT !.gate = [s \in Streams |->
             IF s \in listeners THEN NotifyTalkerListener(x, s).gate[s] ELSE x.gate[s]]]
    BY DEF Notify
  <2>3. k.gate = c.gate
    OBVIOUS
  <2> HIDE DEF x
  <2>4. Notify(c, A) = [k EXCEPT !.gate = G]
    BY <2>1, <2>2, <2>3, ZenonT(30)
  <2> HIDE DEF L, p, G
  <2> QED BY <2>4
<1>3. \A s \in Streams : Moved(c, A, s) <=>
        /\ s \in talkers /\ c.ls[s] \in {"Ready", "AskingFailed"}
        /\ c.ls[s] # Want(c.port, s)
  BY DEF Moved, Attached
<1>4. \A s \in Streams : Want(c.port, s) \in Attached
  BY DEF Want, Attached
<1>5. \A s \in Streams : Want(c.port, s) \in Value(ListenerAttr(s))
  BY <1>4, AttrShape DEF Attached, Value, ListenerDeclaration
<1>6. ASSUME NEW s \in Streams
      PROVE  /\ ch(s).ls[s] = IF Moved(c, A, s) THEN Want(c.port, s) ELSE c.ls[s]
             /\ ch(s).port.slot[ListenerAttr(s)] =
                    IF Moved(c, A, s)
                    THEN DeclareRecord(c.port.slot[ListenerAttr(s)], Want(c.port, s))
                    ELSE c.port.slot[ListenerAttr(s)]
  <2>1. CASE ~Moved(c, A, s)
    <3>1. ch(s) = c
      BY <1>3, <2>1 DEF OnRemoteTalkerChanged
    <3> QED BY <2>1, <3>1
  <2>2. CASE Moved(c, A, s)
    <3> DEFINE w == Want(c.port, s)
               D == Declare(c.port, ListenerAttr(s), w)
    <3>1. ch(s) = [c EXCEPT !.ls[s] = w, !.port = D]
      BY <1>3, <2>2 DEF OnRemoteTalkerChanged
    <3>2. /\ ListenerAttr(s) \in Attr /\ w \in Value(ListenerAttr(s))
      BY <1>5, AttrShape
    <3>3. D.slot[ListenerAttr(s)] = DeclareRecord(c.port.slot[ListenerAttr(s)], w)
      BY <1>1, <3>2, DeclareSlots
    <3> HIDE DEF w, D
    <3>4. ch(s) = [port |-> D, ls |-> [c.ls EXCEPT ![s] = w], gate |-> c.gate]
      BY <1>1, <3>1, ZenonT(30)
    <3>5. ch(s).ls[s] = w /\ ch(s).port = D
      BY <1>1, <3>4
    <3> QED BY <2>2, <3>3, <3>5 DEF w
  <2> QED BY <2>1, <2>2
<1>7. \A s \in Streams : L[s] = IF Moved(c, A, s) THEN Want(c.port, s) ELSE c.ls[s]
  BY <1>6
<1>8. L \in [Streams -> ListenerState]
  <2> HIDE DEF ch
  <2>1. L = [s \in Streams |-> L[s]]
    OBVIOUS
  <2> HIDE DEF L
  <2> QED BY <1>1, <1>4, <1>7, <2>1 DEF ListenerState, Attached
<1>9. \A a \in Attr : a[1] # "Listener" => F[a] = c.port.slot[a]
  OBVIOUS
<1>10. \A s \in Streams : F[ListenerAttr(s)] = ch(s).port.slot[ListenerAttr(s)]
  BY AttrShape
<1>11. F = [a \in Attr |-> F[a]]
  OBVIOUS
<1>12. j \in BOOLEAN
  OBVIOUS
<1>13. \A s \in Streams : G[s] =
          IF ListenerAttr(s) \in A THEN NotifyTalkerListener(k, s).gate[s] ELSE c.gate[s]
  BY ZenonT(30)
<1>14. G = [s \in Streams |-> G[s]]
  OBVIOUS
<1> HIDE DEF F, L, j, G, ch
<1>15. \A a \in Attr : Good(a, F[a])
  <2> TAKE a \in Attr
  <2>1. CASE a[1] # "Listener"
    BY <1>1, <1>9, <2>1 DEF PortOK
  <2>2. CASE a[1] = "Listener"
    <3>1. PICK s \in Streams : a = ListenerAttr(s)
      BY <2>2, AttrShape
    <3>2. F[a] = IF Moved(c, A, s) THEN DeclareRecord(c.port.slot[a], Want(c.port, s))
                 ELSE c.port.slot[a]
      BY <1>6, <1>10, <3>1
    <3>3. Good(a, c.port.slot[a]) /\ Want(c.port, s) \in Value(a)
      BY <1>1, <1>5, <3>1 DEF PortOK
    <3> QED BY <3>2, <3>3, DeclaredRecord
  <2> QED BY <2>1, <2>2
<1>16. u \in [Timer -> BOOLEAN]
  BY <1>1, <1>12, ZenonT(30)
<1> HIDE DEF u
<1>17. [c.port EXCEPT !.timer = u] \in Port
  BY <1>1, <1>16 DEF Port
<1>18. PortOK(p) /\ p.slot = F
  BY <1>11, <1>15, <1>17, NewSlots, ZenonT(30)
<1> HIDE DEF p
<1>19. ASSUME NEW s \in Streams
       PROVE  /\ NotifyTalkerListener(k, s).gate[s] =
                    IF tk[s] = "None" THEN c.gate[s]
                    ELSE [c.gate[s] EXCEPT !.ready = ListenerPermitsTransmit(p, s)]
              /\ NotifyTalkerListener(k, s).gate[s] \in Gate
  <2> DEFINE b == ListenerPermitsTransmit(p, s)
  <2>1. b \in BOOLEAN /\ k.port = p /\ k.gate = c.gate
    BY DEF ListenerPermitsTransmit
  <2>2. CASE tk[s] = "None"
    <3>1. NotifyTalkerListener(k, s) = k
      BY <2>2 DEF NotifyTalkerListener
    <3> QED BY <1>1, <2>1, <2>2, <3>1
  <2>3. CASE tk[s] # "None"
    <3>1. NotifyTalkerListener(k, s) = [k EXCEPT !.gate[s].ready = b]
      BY <2>1, <2>3 DEF NotifyTalkerListener
    <3>2. c.gate[s] \in Gate /\ c.gate \in [Streams -> Gate]
      BY <1>1
    <3> HIDE DEF b
    <3> DEFINE g == [c.gate[s] EXCEPT !.ready = b]
    <3>3. g \in Gate
      BY <2>1, <3>2 DEF Gate
    <3>4. NotifyTalkerListener(k, s) = [port |-> p, ls |-> L,
                                        gate |-> [c.gate EXCEPT ![s] = g]]
      BY <3>1, <3>2
    <3> HIDE DEF g
    <3>5. NotifyTalkerListener(k, s).gate[s] = g
      BY <3>2, <3>4
    <3> QED BY <2>3, <3>3, <3>5 DEF g, b
  <2> QED BY <2>2, <2>3
<1>20. G \in [Streams -> Gate]
  BY <1>1, <1>13, <1>14, <1>19, ZenonT(30)
<1>21. ClientType(e)
  BY <1>8, <1>18, <1>20 DEF ClientType
<1>22. ASSUME NEW s \in Streams
       PROVE  /\ e.port.slot[ListenerAttr(s)] =
                   IF Moved(c, A, s)
                   THEN DeclareRecord(c.port.slot[ListenerAttr(s)], Want(c.port, s))
                   ELSE c.port.slot[ListenerAttr(s)]
              /\ e.ls[s] = IF Moved(c, A, s) THEN Want(c.port, s) ELSE c.ls[s]
              /\ e.gate[s] = IF ListenerAttr(s) \in A /\ tk[s] # "None"
                             THEN [c.gate[s] EXCEPT !.ready = ListenerPermitsTransmit(e.port, s)]
                             ELSE c.gate[s]
  BY <1>6, <1>7, <1>10, <1>13, <1>18, <1>19
<1>23. \A a \in Attr : a[1] # "Listener" => e.port.slot[a] = c.port.slot[a]
  BY <1>9, <1>18
<1> HIDE DEF e
<1> QED BY <1>2, <1>21, <1>22, <1>23 DEF NotifyOutcome

LEMMA PortReplaced ==
    ASSUME NEW c, ClientType(c), NEW q
    PROVE  [c EXCEPT !.port = q] = [port |-> q, ls |-> c.ls, gate |-> c.gate]
<1> DEFINE C == [port : {c.port}, ls : {c.ls}, gate : {c.gate}]
<1>1. c \in C
  BY DEF ClientType
<1> QED BY <1>1

\* The participant holds the declaration the handler has noted.
DeclaredAs(r, l) ==
    /\ l \in Attached => r.op = "Declare" /\ r.val = l /\ r.app \in Declaring
    /\ l \notin Attached => r.app \notin Declaring

\* The inductive invariant, of the client at any point of a handler: also
\* between the attribute types of a PDU.
StreamOK(c, s) ==
    /\ DeclaredAs(c.port.slot[ListenerAttr(s)], c.ls[s])
    /\ c.port.slot[TalkerAttr(s)].app \in Declaring => tk[s] = "Advertising"
    /\ c.port.slot[FailedAttr(s)].app \notin Declaring
    /\ role = "talker" => c.ls[s] = "None"
    /\ c.gate[s].ready => tk[s] # "None" /\ HeldRecord(c.port.slot[ListenerAttr(s)])

ClientOK(c) == ClientType(c) /\ \A s \in Streams : StreamOK(c, s)

\* A stage that takes no Registrar to In.
Unregistering(p, q) ==
    \A a \in Attr : q.slot[a].reg = "In" => p.slot[a].reg = "In"

\* The stages leave the media thread's clock alone.
SameSeen(c, e) == \A s \in Streams : e.gate[s].seen = c.gate[s].seen

LEMMA SteadyKeeps ==
    ASSUME NEW c, ClientOK(c), NEW q, PortOK(q), SteadyPort(c.port, q)
    PROVE  LET e == [c EXCEPT !.port = q] IN
           /\ ClientOK(e) /\ e.port = q /\ e.ls = c.ls /\ e.gate = c.gate
           /\ Unregistering(c.port, q)
<1> DEFINE e == [c EXCEPT !.port = q]
<1>1. e = [port |-> q, ls |-> c.ls, gate |-> c.gate]
  BY PortReplaced DEF ClientOK
<1> HIDE DEF e
<1>2. e.port = q /\ e.ls = c.ls /\ e.gate = c.gate
  BY <1>1
<1>3. ClientType(e)
  BY <1>1 DEF ClientOK, ClientType
<1>4. ASSUME NEW s \in Streams PROVE StreamOK(e, s)
  <2>1. \A a \in {TalkerAttr(s), FailedAttr(s), ListenerAttr(s)} :
            Steady(c.port.slot[a], q.slot[a])
    BY AttrShape DEF SteadyPort
  <2>2. HeldRecord(c.port.slot[ListenerAttr(s)]) => HeldRecord(q.slot[ListenerAttr(s)])
    BY <2>1, ZenonT(30) DEF HeldRecord, Steady
  <2>3. DeclaredAs(q.slot[ListenerAttr(s)], c.ls[s])
    BY <2>1, ZenonT(30) DEF ClientOK, StreamOK, DeclaredAs, Steady
  <2> QED BY <1>2, <2>1, <2>2, <2>3, ZenonT(30) DEF ClientOK, StreamOK, Steady
<1>5. Unregistering(c.port, q)
  BY ZenonT(30) DEF SteadyPort, Steady, Unregistering
<1> QED BY <1>2, <1>3, <1>4, <1>5 DEF ClientOK, e

\* What holds of a stream while the attributes A wait to be reported.
PendingOK(c, A, s) ==
    /\ DeclaredAs(c.port.slot[ListenerAttr(s)], c.ls[s])
    /\ c.port.slot[TalkerAttr(s)].app \in Declaring => tk[s] = "Advertising"
    /\ c.port.slot[FailedAttr(s)].app \notin Declaring
    /\ role = "talker" => c.ls[s] = "None"
    /\ role = "listener" => tk[s] = "None"
    /\ c.gate[s].ready =>
          /\ tk[s] # "None"
          /\ ListenerAttr(s) \in A \/ HeldRecord(c.port.slot[ListenerAttr(s)])

\* What the callbacks may have changed of client c when it has become e.
Notified(c, e) ==
    /\ ClientOK(e) /\ Unregistering(c.port, e.port) /\ SameSeen(c, e)
    /\ \A a \in Attr : a[1] # "Listener" \/ role = "talker" =>
                           e.port.slot[a] = c.port.slot[a]

\* The callbacks leave the client right, once the gate has been told of every
\* hold that ended.
LEMMA NotifyKeeps ==
    ASSUME NEW c, ClientType(c), NEW A,
           \A s \in Streams : PendingOK(c, A, s),
           role \in {"talker", "listener"}
    PROVE  Notified(c, Notify(c, A))
<1> DEFINE e == Notify(c, A)
<1>1. NotifyOutcome(c, A, e)
  BY NotifyFacts, ZenonT(30)
<1> HIDE DEF e
<1>2. ASSUME NEW s \in Streams
      PROVE  /\ StreamOK(e, s)
             /\ e.port.slot[ListenerAttr(s)].reg = c.port.slot[ListenerAttr(s)].reg
             /\ role = "talker" =>
                    e.port.slot[ListenerAttr(s)] = c.port.slot[ListenerAttr(s)]
  <2> USE DEF PendingOK
  <2> DEFINE a == ListenerAttr(s)
             r == c.port.slot[a]
             q == e.port.slot[a]
             w == Want(c.port, s)
  <2>1. a \in Attr /\ Good(a, r) /\ w \in Value(a) /\ w \in Attached
    BY AttrShape DEF ClientType, PortOK, Want, Attached, Value, ListenerDeclaration
  <2>2. /\ e.port.slot[TalkerAttr(s)] = c.port.slot[TalkerAttr(s)]
        /\ e.port.slot[FailedAttr(s)] = c.port.slot[FailedAttr(s)]
    BY <1>1, AttrShape DEF NotifyOutcome
  <2>3. /\ q = IF Moved(c, A, s) THEN DeclareRecord(r, w) ELSE r
        /\ e.ls[s] = IF Moved(c, A, s) THEN w ELSE c.ls[s]
        /\ e.gate[s] = IF a \in A /\ tk[s] # "None"
                       THEN [c.gate[s] EXCEPT !.ready = ListenerPermitsTransmit(e.port, s)]
                       ELSE c.gate[s]
    BY <1>1 DEF NotifyOutcome
  <2>4. role = "talker" => ~Moved(c, A, s)
    BY DEF Moved, Attached
  <2>5. c.gate[s] \in Gate
    BY ZenonT(30) DEF ClientType
  <2>6. ListenerPermitsTransmit(e.port, s) => HeldRecord(q)
    BY DEF ListenerPermitsTransmit, HeldRecord, RegistrarIsRegistered, ListenerAttr
  <2> HIDE DEF a, r, q, w
  <2>7. DeclaredAs(q, e.ls[s]) /\ q.reg = r.reg
    <3>1. CASE Moved(c, A, s)
      BY <2>1, <2>3, <3>1, DeclaredRecord DEF DeclaredAs
    <3>2. CASE ~Moved(c, A, s)
      BY <2>3, <3>2 DEF a, r
    <3> QED BY <3>1, <3>2
  <2>8. e.gate[s].ready => tk[s] # "None" /\ HeldRecord(q)
    <3>1. CASE a \in A /\ tk[s] # "None"
      <4> DEFINE b == ListenerPermitsTransmit(e.port, s)
      <4>1. e.gate[s] = [c.gate[s] EXCEPT !.ready = b]
        BY <2>3, <3>1
      <4> HIDE DEF b
      <4>2. e.gate[s].ready = b
        BY <2>5, <4>1 DEF Gate
      <4> QED BY <2>6, <3>1, <4>2 DEF b
    <3>2. CASE ~(a \in A /\ tk[s] # "None")
      <4>1. e.gate[s] = c.gate[s]
        BY <2>3, <3>2
      <4> SUFFICES ASSUME c.gate[s].ready PROVE tk[s] # "None" /\ HeldRecord(q)
        BY <4>1
      <4>2. tk[s] # "None" /\ HeldRecord(r)
        BY <3>2 DEF a, r
      <4>3. role = "talker"
        BY <4>2
      <4> QED BY <2>3, <2>4, <4>2, <4>3
    <3> QED BY <3>1, <3>2, ZenonT(30)
  <2>9. role = "talker" => e.ls[s] = "None" /\ q = r
    BY <2>3, <2>4
  <2> QED BY <2>2, <2>7, <2>8, <2>9 DEF StreamOK, a, r, q
<1>3. ClientOK(e)
  BY <1>1, <1>2 DEF NotifyOutcome, ClientOK
<1>4. \A a \in Attr : a[1] # "Listener" => e.port.slot[a] = c.port.slot[a]
  BY <1>1, ZenonT(30) DEF NotifyOutcome
<1>5. Unregistering(c.port, e.port)
  BY <1>2, <1>4, AttrShape DEF Unregistering
<1>6. ASSUME NEW a \in Attr, role = "talker" PROVE e.port.slot[a] = c.port.slot[a]
  BY <1>2, <1>4, <1>6, AttrShape
<1>7. SameSeen(c, e)
  <2> SUFFICES ASSUME NEW s \in Streams PROVE e.gate[s].seen = c.gate[s].seen
    BY DEF SameSeen
  <2> DEFINE b == ListenerPermitsTransmit(e.port, s)
  <2>1. c.gate[s] \in Gate
    BY DEF ClientType
  <2>2. e.gate[s] \in {c.gate[s], [c.gate[s] EXCEPT !.ready = b]}
    BY <1>1, ZenonT(30) DEF NotifyOutcome
  <2> HIDE DEF b
  <2> QED BY <2>1, <2>2, ZenonT(30) DEF Gate
<1> QED BY <1>3, <1>4, <1>5, <1>6, <1>7, ZenonT(30) DEF Notified, e

-----------------------------------------------------------------------------
(***************************************************************************)
(* The stages of the handlers.                                             *)
(***************************************************************************)
\* A talker entity attaches to nothing, a listener entity advertises nothing.
RoleOK == /\ role \in {"talker", "listener"}
          /\ role = "listener" => \A s \in Streams : tk[s] = "None"

LEMMA LeaveTypeKeeps ==
    ASSUME NEW c, ClientOK(c), RoleOK, NEW t
    PROVE  LET e == LeaveType(c, t) IN
           ClientOK(e) /\ Unregistering(c.port, e.port) /\ SameSeen(c, e)
<1> DEFINE p == OnLeaveTimer(c.port, {t})
           k == [c EXCEPT !.port = p]
           A == {a \in Attr : a[1] = t /\ c.port.slot[a].reg = "Lv"}
           e == LeaveType(c, t)
<1>1. e = Notify(k, A)
  BY DEF LeaveType
<1>2. ClientType(c) /\ PortOK(c.port)
  BY DEF ClientOK, ClientType
<1>3. PortOK(p) /\ \A a \in Attr : p.slot[a] = IF a[1] = t
                                              THEN LeaveTimerRecord(c.port.slot[a])
                                              ELSE c.port.slot[a]
  BY <1>2, LeaveTypeSlots
<1>4. k = [port |-> p, ls |-> c.ls, gate |-> c.gate]
  BY <1>2, PortReplaced
<1> HIDE DEF p, k
<1>5. ClientType(k) /\ k.port = p /\ k.ls = c.ls /\ k.gate = c.gate
  BY <1>2, <1>3, <1>4, ZenonT(30) DEF ClientType
<1>6. ASSUME NEW a \in Attr
      PROVE  /\ p.slot[a].op = c.port.slot[a].op /\ p.slot[a].val = c.port.slot[a].val
             /\ p.slot[a].app = c.port.slot[a].app
             /\ p.slot[a].reg = "In" => c.port.slot[a].reg = "In"
             /\ a \in A \/ p.slot[a] = c.port.slot[a]
  <2> DEFINE r == c.port.slot[a]
  <2>1. Good(a, r) /\ r \in Record(a)
    BY <1>2 DEF PortOK, Good, WellFormed
  <2>2. r.reg # "Lv" => LeaveTimerRecord(r) = r
    BY DEF LeaveTimerRecord
  <2>3. r.reg = "Lv" => LeaveTimerRecord(r).reg # "In"
    <3> SUFFICES ASSUME r.reg = "Lv" PROVE LeaveTimerRecord(r).reg # "In"
      OBVIOUS
    <3>1. CASE ~Present(r)
      BY <3>1 DEF LeaveTimerRecord
    <3>2. CASE Present(r)
      <4>1. RegistrarNext(r.reg, "LvTimer") = "Mt"
        BY DEF RegistrarNext, RegistrarBegin, RJoins, RLeaves
      <4> DEFINE q == DispatchRegistrar(r, "LvTimer")
      <4>2. q \in Record(a) /\ q.reg = "Mt"
        BY <2>1, <4>1 DEF DispatchRegistrar, Record, RegistrarState
      <4> HIDE DEF q
      <4>3. Told(q, "Leave").reg = "Mt"
        BY <4>2 DEF Told, Record
      <4>4. LeaveTimerRecord(r) = Told(q, "Leave")
        BY <3>2, ZenonT(30) DEF LeaveTimerRecord, q
      <4> QED BY <4>3, <4>4
    <3> QED BY <3>1, <3>2
  <2>4. LeaveTimerRecord(r).op = r.op /\ LeaveTimerRecord(r).val = r.val
        /\ LeaveTimerRecord(r).app = r.app
    BY <2>1, LeaveTimerGood, ZenonT(30)
  <2> QED BY <1>3, <2>2, <2>3, <2>4, ZenonT(30)
<1>7. \A s \in Streams : PendingOK(k, A, s)
  <2> TAKE s \in Streams
  <2>1. \A a \in {TalkerAttr(s), FailedAttr(s), ListenerAttr(s)} : a \in Attr
    BY AttrShape
  <2>2. StreamOK(c, s)
    BY DEF ClientOK
  <2> HIDE DEF A
  <2> QED BY <1>5, <1>6, <2>1, <2>2, ZenonT(30) DEF PendingOK, StreamOK, DeclaredAs, RoleOK
<1> HIDE DEF A
<1> HIDE DEF e
<1>8. Notified(k, e)
  BY <1>1, <1>5, <1>7, NotifyKeeps, ZenonT(30) DEF RoleOK
<1> QED BY <1>5, <1>6, <1>8 DEF Notified, Unregistering, SameSeen, e

\* One type of a PDU taken: client c has become e, A are the attributes reported.
TypeTaken(c, e, A, d, admitted, t) ==
    /\ ClientOK(e) /\ SameSeen(c, e)
    /\ \A a \in Attr : a[1] # "Listener" =>
          e.port.slot[a] = IF a[1] = t THEN RxSlot(a, c.port.slot[a], d, admitted)
                           ELSE c.port.slot[a]
    /\ \A a \in Attr : role = "talker" /\ a[1] # t => e.port.slot[a] = c.port.slot[a]
    /\ \A s \in Streams :
          /\ e.ls[s] \in Attached <=> c.ls[s] \in Attached
          /\ e.ls[s] = IF /\ TalkerAttr(s) \in A \/ FailedAttr(s) \in A
                          /\ c.ls[s] \in Attached
                       THEN Want(e.port, s) ELSE c.ls[s]

\* receive_pdu at the values of one type.
LEMMA RxTypeKeeps ==
    ASSUME NEW c, ClientOK(c), RoleOK, NEW d, PduValues(d), DOMAIN d.msg \subseteq Attr,
           NEW admitted, NEW t,
           t = "Listener" => \A s \in Streams :
               Repeats(ListenerAttr(s), c.port.slot[ListenerAttr(s)], d)
    PROVE  TypeTaken(c, RxType(c, d, admitted, t), News(c.port, d, admitted, t), d, admitted, t)
<1> DEFINE p == RxTypes(c.port, d, admitted, {t})
           k == [c EXCEPT !.port = p]
           A == News(c.port, d, admitted, t)
           e == RxType(c, d, admitted, t)
<1>1. e = Notify(k, A)
  BY DEF RxType
<1>2. ClientType(c) /\ PortOK(c.port)
  BY DEF ClientOK, ClientType
<1>3. PortOK(p) /\ \A a \in Attr : p.slot[a] = IF a[1] = t
                                              THEN RxSlot(a, c.port.slot[a], d, admitted)
                                              ELSE c.port.slot[a]
  BY <1>2, RxTypeSlots
<1>4. k = [port |-> p, ls |-> c.ls, gate |-> c.gate]
  BY <1>2, PortReplaced, ZenonT(30)
<1>5. \A a \in Attr : a \in A <=> a[1] = t /\ Newsworthy(a, c.port.slot[a], d, admitted)
  BY DEF News, Newsworthy, AfterRxLeaveAll
<1> HIDE DEF p, k, A
<1>6. ClientType(k) /\ k.port = p /\ k.ls = c.ls /\ k.gate = c.gate
  BY <1>2, <1>3, <1>4 DEF ClientType
<1>7. ASSUME NEW a \in Attr PROVE RxSlotKeeps(c.port.slot[a], p.slot[a])
  <2>1. Good(a, c.port.slot[a])
    BY <1>2 DEF PortOK
  <2>2. RxSlotKeeps(c.port.slot[a], RxSlot(a, c.port.slot[a], d, admitted))
    BY <2>1, RxSlotFields, ZenonT(30)
  <2> QED BY <1>3, <2>2, ZenonT(30) DEF RxSlotKeeps
<1>8. ASSUME NEW s \in Streams, HeldRecord(c.port.slot[ListenerAttr(s)])
      PROVE  ListenerAttr(s) \in A \/ HeldRecord(p.slot[ListenerAttr(s)])
  <2>1. ListenerAttr(s) \in Attr /\ ListenerAttr(s)[1] = "Listener"
    BY AttrShape, ZenonT(30)
  <2>2. CASE t # "Listener"
    BY <1>3, <1>8, <2>1, <2>2, ZenonT(30)
  <2>3. CASE t = "Listener"
    <3> DEFINE a == ListenerAttr(s)
               r == c.port.slot[a]
    <3>1. Good(a, r) /\ Repeats(a, r, d) /\ p.slot[a] = RxSlot(a, r, d, admitted)
      BY <1>2, <1>3, <2>1, <2>3, ZenonT(30) DEF PortOK
    <3>2. a \in A <=> Newsworthy(a, r, d, admitted)
      BY <1>5, <2>1, <2>3
    <3> HIDE DEF a, r
    <3>3. a \in Attr /\ a[1] = "Listener" /\ HeldRecord(r)
      BY <1>8, <2>1 DEF a, r
    <3>4. ~Newsworthy(a, r, d, admitted) => HeldRecord(RxSlot(a, r, d, admitted))
      BY <3>1, <3>3, RegistrationIsNews, ZenonT(30)
    <3> QED BY <3>1, <3>2, <3>4, ZenonT(30) DEF a
  <2> QED BY <2>2, <2>3, ZenonT(30)
<1>9. \A s \in Streams : PendingOK(k, A, s)
  <2> TAKE s \in Streams
  <2>1. \A a \in {TalkerAttr(s), FailedAttr(s), ListenerAttr(s)} :
            RxSlotKeeps(c.port.slot[a], p.slot[a])
    BY <1>7, AttrShape, ZenonT(30)
  <2>2. StreamOK(c, s)
    BY ZenonT(30) DEF ClientOK
  <2> QED BY <1>6, <1>8, <2>1, <2>2, ZenonT(30) DEF PendingOK, StreamOK, DeclaredAs, RoleOK, RxSlotKeeps
<1> HIDE DEF e
<1>20. Notified(k, e)
  BY <1>1, <1>6, <1>9, NotifyKeeps, ZenonT(30) DEF RoleOK
<1>10. /\ ClientOK(e) /\ SameSeen(k, e)
       /\ \A a \in Attr : a[1] # "Listener" \/ role = "talker" =>
                              e.port.slot[a] = p.slot[a]
  BY <1>6, <1>20, ZenonT(30) DEF Notified
<1>11. ASSUME NEW s \in Streams
       PROVE  /\ e.ls[s] \in Attached <=> c.ls[s] \in Attached
              /\ e.ls[s] = IF /\ TalkerAttr(s) \in A \/ FailedAttr(s) \in A
                              /\ c.ls[s] \in Attached
                           THEN Want(e.port, s) ELSE c.ls[s]
  <2>1. e.ls[s] = IF Moved(k, A, s) THEN Want(p, s) ELSE c.ls[s]
    <3>1. NotifyOutcome(k, A, e)
      BY <1>1, <1>6, NotifyFacts, ZenonT(30)
    <3> QED BY <1>6, <3>1, ZenonT(30) DEF NotifyOutcome
  <2>2. /\ e.port.slot[TalkerAttr(s)] = p.slot[TalkerAttr(s)]
        /\ e.port.slot[FailedAttr(s)] = p.slot[FailedAttr(s)]
    BY <1>10, AttrShape, ZenonT(30)
  <2>3. Want(e.port, s) = Want(p, s) /\ Want(p, s) \in Attached
    BY <2>2, ZenonT(30) DEF Want, TalkerAdvertiseRegistered, Attached
  <2>4. Moved(k, A, s) <=> /\ TalkerAttr(s) \in A \/ FailedAttr(s) \in A
                           /\ c.ls[s] \in Attached /\ c.ls[s] # Want(p, s)
    BY <1>6, ZenonT(30) DEF Moved
  <2> QED BY <2>1, <2>3, <2>4, ZenonT(30)
<1>12. \A a \in Attr : a[1] # "Listener" =>
          e.port.slot[a] = IF a[1] = t THEN RxSlot(a, c.port.slot[a], d, admitted)
                           ELSE c.port.slot[a]
  BY <1>3, <1>10, ZenonT(30)
<1>13. \A a \in Attr : role = "talker" /\ a[1] # t => e.port.slot[a] = c.port.slot[a]
  BY <1>3, <1>10
<1>14. SameSeen(c, e)
  BY <1>6, <1>10 DEF SameSeen
<1>15. TypeTaken(c, e, A, d, admitted, t)
  BY <1>10, <1>11, <1>12, <1>13, <1>14, ZenonT(30) DEF TypeTaken
<1> QED BY <1>15, ZenonT(30) DEF e, A

LEMMA NewsMembers ==
    ASSUME NEW p, NEW d, NEW admitted, NEW t, DOMAIN d.msg \subseteq Attr
    PROVE  \A a \in Attr : a \in News(p, d, admitted, t) <=>
                           a[1] = t /\ Newsworthy(a, p.slot[a], d, admitted)
BY ZenonT(30) DEF News, Newsworthy, AfterRxLeaveAll

\* tick(): the observers run inside it, and it registers nothing.
LEMMA TickKeeps ==
    ASSUME NEW c, ClientOK(c), RoleOK, NEW E
    PROVE  LET e == TickStages(c, E) IN
           ClientOK(e) /\ Unregistering(c.port, e.port) /\ SameSeen(c, e)
<1> DEFINE c0 == [c EXCEPT !.port = Clear(c.port, E)]
           c1 == IF "leaveall" \in E THEN [c0 EXCEPT !.port = OnLeaveAllTimer(c0.port)] ELSE c0
           c2 == IF "leave" \in E THEN LeaveStage(c1) ELSE c1
           c3 == IF "periodic" \in E THEN [c2 EXCEPT !.port = OnPeriodicTimer(c2.port)] ELSE c2
           c4 == IF "join" \in E THEN [c3 EXCEPT !.port = AfterTx(c3.port)] ELSE c3
           c5 == [c4 EXCEPT !.port = Reclaim(c4.port)]
<1>1. TickStages(c, E) = c5
  BY DEF TickStages
<1>2. ASSUME NEW x, ClientOK(x)
      PROVE  PortOK(x.port) /\ Unregistering(x.port, x.port) /\ SameSeen(x, x)
  BY <1>2 DEF ClientOK, ClientType, Unregistering, SameSeen
<1>3. ClientOK(c0) /\ Unregistering(c.port, c0.port) /\ SameSeen(c, c0)
  BY <1>2, StagesSteady, SteadyKeeps DEF SameSeen
<1> HIDE DEF c0
<1>4. ClientOK(c1) /\ Unregistering(c0.port, c1.port) /\ SameSeen(c0, c1)
  BY <1>2, <1>3, StagesSteady, SteadyKeeps, ZenonT(30) DEF SameSeen
<1> HIDE DEF c1
<1>5. ASSUME NEW x, ClientOK(x)
      PROVE  /\ ClientOK(LeaveStage(x)) /\ Unregistering(x.port, LeaveStage(x).port)
             /\ SameSeen(x, LeaveStage(x))
  <2> DEFINE x1 == LeaveType(x, "TalkerAdvertise")
             x2 == LeaveType(x1, "TalkerFailed")
             x3 == LeaveType(x2, "Listener")
             x4 == LeaveType(x3, "Domain")
  <2>1. ClientOK(x1) /\ Unregistering(x.port, x1.port) /\ SameSeen(x, x1)
    BY <1>5, LeaveTypeKeeps
  <2> HIDE DEF x1
  <2>2. ClientOK(x2) /\ Unregistering(x1.port, x2.port) /\ SameSeen(x1, x2)
    BY <2>1, LeaveTypeKeeps
  <2> HIDE DEF x2
  <2>3. ClientOK(x3) /\ Unregistering(x2.port, x3.port) /\ SameSeen(x2, x3)
    BY <2>2, LeaveTypeKeeps
  <2> HIDE DEF x3
  <2>4. ClientOK(x4) /\ Unregistering(x3.port, x4.port) /\ SameSeen(x3, x4)
    BY <2>3, LeaveTypeKeeps
  <2>5. LeaveStage(x) = x4
    BY DEF LeaveStage, x3, x2, x1
  <2> HIDE DEF x4
  <2> QED BY <2>1, <2>2, <2>3, <2>4, <2>5 DEF Unregistering, SameSeen
<1>6. ClientOK(c2) /\ Unregistering(c1.port, c2.port) /\ SameSeen(c1, c2)
  BY <1>2, <1>4, <1>5
<1> HIDE DEF c2
<1>7. ClientOK(c3) /\ Unregistering(c2.port, c3.port) /\ SameSeen(c2, c3)
  BY <1>2, <1>6, StagesSteady, SteadyKeeps DEF SameSeen
<1> HIDE DEF c3
<1>8. ClientOK(c4) /\ Unregistering(c3.port, c4.port) /\ SameSeen(c3, c4)
  BY <1>2, <1>7, StagesSteady, SteadyKeeps DEF SameSeen
<1> HIDE DEF c4
<1>9. ClientOK(c5) /\ Unregistering(c4.port, c5.port) /\ SameSeen(c4, c5)
  BY <1>2, <1>8, StagesSteady, SteadyKeeps DEF SameSeen
<1> HIDE DEF c5
<1> QED BY <1>1, <1>3, <1>4, <1>6, <1>7, <1>8, <1>9 DEF Unregistering, SameSeen

LEMMA AfterRxSteady ==
    ASSUME NEW p, PortOK(p), NEW d
    PROVE  LET q == AfterRx(p, d) IN
           /\ PortOK(q) /\ SteadyPort(p, q)
           /\ \A a \in Attr : q.slot[a].op = p.slot[a].op /\ q.slot[a].reg = p.slot[a].reg
<1> DEFINE r == IF d.la = {} THEN p ELSE AfterTx(p)
           q == AfterRx(p, d)
<1>1. q = StartTimer(r, "join")
  BY ZenonT(30) DEF AfterRx
<1>2. /\ PortOK(r) /\ SteadyPort(p, r)
      /\ \A a \in Attr : r.slot[a].op = p.slot[a].op /\ r.slot[a].reg = p.slot[a].reg
  <2>1. CASE d.la = {}
    BY <2>1, ZenonT(30) DEF SteadyPort, Steady
  <2>2. CASE d.la # {}
    <3>1. PortOK(r) /\ SteadyPort(p, r) /\ r = AfterTx(p)
      BY <2>2, StagesSteady
    <3>2. \A a \in Attr : r.slot[a] = TxRecord(p.slot[a]) /\ Good(a, p.slot[a])
      BY <3>1, AfterTxSlots DEF PortOK
    <3> QED BY <3>1, <3>2, TxGood, ZenonT(30) DEF Quiet
  <2> QED BY <2>1, <2>2, ZenonT(30)
<1> HIDE DEF r
<1>3. PortOK(q) /\ q.slot = r.slot /\ SteadyPort(r, q)
  BY <1>1, <1>2, StartTimerOK, StagesSteady, ZenonT(30) DEF Timer
<1> QED BY <1>2, <1>3 DEF SteadyPort

\* An attached listener follows the step from (p, l) to (q, m).
FollowsAt(s, p, l, q, m) ==
    l[s] \in Attached /\ m[s] \in Attached =>
        /\ (/\ ~RegistrarIsRegistered(p.slot[TalkerAttr(s)])
            /\ RegistrarIsIn(q.slot[TalkerAttr(s)])
            /\ ~Present(q.slot[FailedAttr(s)])) => m[s] = "Ready"
        /\ (/\ ~RegistrarIsRegistered(p.slot[FailedAttr(s)])
            /\ RegistrarIsIn(q.slot[FailedAttr(s)])) => m[s] = "AskingFailed"

\* receive_pdu: four types, then the answer to a LeaveAll.
LEMMA RxPduKeeps ==
    ASSUME NEW c, ClientOK(c), RoleOK, NEW d, PduValues(d), DOMAIN d.msg \subseteq Attr,
           NEW admitted,
           \A s \in Streams :
               /\ Repeats(ListenerAttr(s), c.port.slot[ListenerAttr(s)], d)
               /\ role = "listener" => ListenerAttr(s) \notin DOMAIN d.msg
    PROVE  LET e == RxPdu(c, d, admitted) IN
           /\ ClientOK(e) /\ SameSeen(c, e)
           /\ \A s \in Streams : FollowsAt(s, c.port, c.ls, e.port, e.ls)
<1> DEFINE c1 == RxType(c, d, admitted, "TalkerAdvertise")
           c2 == RxType(c1, d, admitted, "TalkerFailed")
           c3 == RxType(c2, d, admitted, "Listener")
           c4 == RxType(c3, d, admitted, "Domain")
           e == [c4 EXCEPT !.port = AfterRx(c4.port, d)]
           Rx(a, r) == RxSlot(a, r, d, admitted)
           N1 == News(c.port, d, admitted, "TalkerAdvertise")
           N2 == News(c1.port, d, admitted, "TalkerFailed")
           N3 == News(c2.port, d, admitted, "Listener")
           N4 == News(c3.port, d, admitted, "Domain")
<1>1. RxPdu(c, d, admitted) = e
  BY DEF RxPdu
<1>2. TypeTaken(c, c1, N1, d, admitted, "TalkerAdvertise")
  BY RxTypeKeeps, ZenonT(30)
<1>n1. \A a \in Attr : a \in N1 <=> a[1] = "TalkerAdvertise"
                                   /\ Newsworthy(a, c.port.slot[a], d, admitted)
  BY NewsMembers, ZenonT(30)
<1> HIDE DEF c1, N1
<1>a. ClientOK(c1)
  BY <1>2, ZenonT(30) DEF TypeTaken
<1>3. TypeTaken(c1, c2, N2, d, admitted, "TalkerFailed")
  BY <1>a, RxTypeKeeps, ZenonT(30)
<1>n2. \A a \in Attr : a \in N2 <=> a[1] = "TalkerFailed"
                                   /\ Newsworthy(a, c1.port.slot[a], d, admitted)
  BY NewsMembers, ZenonT(30)
<1> HIDE DEF c2, N2
<1>b. ClientOK(c2)
  BY <1>3, ZenonT(30) DEF TypeTaken
<1>4. \A s \in Streams : Repeats(ListenerAttr(s), c2.port.slot[ListenerAttr(s)], d)
  <2> TAKE s \in Streams
  <2>1. CASE role = "listener"
    BY <2>1, ZenonT(30) DEF Repeats
  <2>2. CASE role = "talker"
    <3>1. ListenerAttr(s) \in Attr /\ ListenerAttr(s)[1] = "Listener"
      BY AttrShape, ZenonT(30)
    <3>2. c1.port.slot[ListenerAttr(s)] = c.port.slot[ListenerAttr(s)]
      BY <1>2, <2>2, <3>1, ZenonT(30) DEF TypeTaken
    <3>3. c2.port.slot[ListenerAttr(s)] = c1.port.slot[ListenerAttr(s)]
      BY <1>3, <2>2, <3>1, ZenonT(30) DEF TypeTaken
    <3> QED BY <3>2, <3>3, ZenonT(30)
  <2> QED BY <2>1, <2>2, ZenonT(30) DEF RoleOK
<1>5. TypeTaken(c2, c3, N3, d, admitted, "Listener")
  BY <1>b, <1>4, RxTypeKeeps, ZenonT(30)
<1>n3. \A a \in Attr : a \in N3 <=> a[1] = "Listener"
                                   /\ Newsworthy(a, c2.port.slot[a], d, admitted)
  BY NewsMembers, ZenonT(30)
<1> HIDE DEF c3, N3
<1>c. ClientOK(c3)
  BY <1>5, ZenonT(30) DEF TypeTaken
<1>6. TypeTaken(c3, c4, N4, d, admitted, "Domain")
  BY <1>c, RxTypeKeeps, ZenonT(30)
<1>n4. \A a \in Attr : a \in N4 <=> a[1] = "Domain"
                                   /\ Newsworthy(a, c3.port.slot[a], d, admitted)
  BY NewsMembers, ZenonT(30)
<1> HIDE DEF c4, N4
<1>d. ClientOK(c4)
  BY <1>6, ZenonT(30) DEF TypeTaken
<1>7. PortOK(c4.port)
  BY <1>d, ZenonT(30) DEF ClientOK, ClientType
<1>8. /\ ClientOK(e) /\ e.ls = c4.ls /\ e.gate = c4.gate
      /\ \A a \in Attr : /\ e.port.slot[a].op = c4.port.slot[a].op
                         /\ e.port.slot[a].reg = c4.port.slot[a].reg
  BY <1>d, <1>7, AfterRxSteady, SteadyKeeps
<1> HIDE DEF e
<1>9. ASSUME NEW s \in Streams
      PROVE  FollowsAt(s, c.port, c.ls, e.port, e.ls)
  <2> DEFINE T == TalkerAttr(s)
             F == FailedAttr(s)
             t == c.port.slot[T]
             f == c.port.slot[F]
  <2>1. /\ T \in Attr /\ T[1] = "TalkerAdvertise" /\ F \in Attr /\ F[1] = "TalkerFailed"
    BY AttrShape
  <2>2. Good(T, t) /\ Good(F, f)
    BY <2>1 DEF ClientOK, ClientType, PortOK
  <2>3. e.ls[s] = c2.ls[s]
    <3>1. c3.ls[s] = c2.ls[s]
      BY <1>5, <1>n3, <2>1, ZenonT(30) DEF TypeTaken
    <3>2. c4.ls[s] = c3.ls[s]
      BY <1>6, <1>n4, <2>1, ZenonT(30) DEF TypeTaken
    <3> QED BY <1>8, <3>1, <3>2, ZenonT(30)
  <2>4. /\ c1.port.slot[T] = Rx(T, t) /\ c1.port.slot[F] = f
        /\ c2.port.slot[T] = Rx(T, t) /\ c2.port.slot[F] = Rx(F, f)
        /\ c4.port.slot[T] = Rx(T, t) /\ c4.port.slot[F] = Rx(F, f)
    <3>1. c1.port.slot[T] = Rx(T, t) /\ c1.port.slot[F] = f
      BY <1>2, <2>1, ZenonT(30) DEF TypeTaken
    <3>2. c2.port.slot[T] = c1.port.slot[T] /\ c2.port.slot[F] = Rx(F, c1.port.slot[F])
      BY <1>3, <2>1, ZenonT(30) DEF TypeTaken
    <3>3. c3.port.slot[T] = c2.port.slot[T] /\ c3.port.slot[F] = c2.port.slot[F]
      BY <1>5, <2>1, ZenonT(30) DEF TypeTaken
    <3>4. c4.port.slot[T] = c3.port.slot[T] /\ c4.port.slot[F] = c3.port.slot[F]
      BY <1>6, <2>1, ZenonT(30) DEF TypeTaken
    <3> QED BY <3>1, <3>2, <3>3, <3>4, ZenonT(30)
  <2>5. /\ e.port.slot[T].op = Rx(T, t).op /\ e.port.slot[T].reg = Rx(T, t).reg
        /\ e.port.slot[F].op = Rx(F, f).op /\ e.port.slot[F].reg = Rx(F, f).reg
    BY <1>8, <2>1, <2>4, ZenonT(30)
  <2>6. /\ Good(T, Rx(T, t)) /\ Good(F, Rx(F, f))
        /\ Present(f) => Present(Rx(F, f))
    BY <2>1, <2>2, RxSlotFields, ZenonT(30) DEF RxSlotKeeps
  <2>7. /\ ~RegistrarIsRegistered(t) /\ RegistrarIsIn(Rx(T, t)) => T \in N1
        /\ ~RegistrarIsRegistered(f) /\ RegistrarIsIn(Rx(F, f)) => F \in N2
    BY <1>n1, <1>n2, <2>1, <2>2, <2>4, RegistrationIsNews, ZenonT(30)
  <2>8. \A x \in {T, F} : \A r : Good(x, r) /\ r.reg = "In" => Present(r)
    BY ZenonT(30) DEF Good, WellFormed, Present
  <2>9. /\ Want(c1.port, s) = IF Present(Rx(T, t)) /\ ~Present(f) THEN "Ready"
                              ELSE "AskingFailed"
        /\ Want(c2.port, s) = IF Present(Rx(T, t)) /\ ~Present(Rx(F, f)) THEN "Ready"
                              ELSE "AskingFailed"
    BY <2>4, ZenonT(30) DEF Want, TalkerAdvertiseRegistered
  <2> HIDE DEF T, F, t, f, Rx
  <2>10. /\ c1.ls[s] = IF (T \in N1 \/ F \in N1) /\ c.ls[s] \in Attached
                       THEN Want(c1.port, s) ELSE c.ls[s]
         /\ c2.ls[s] = IF (T \in N2 \/ F \in N2) /\ c1.ls[s] \in Attached
                       THEN Want(c2.port, s) ELSE c1.ls[s]
         /\ c1.ls[s] \in Attached <=> c.ls[s] \in Attached
    BY <1>2, <1>3, ZenonT(30) DEF TypeTaken, T, F
  <2>11. ASSUME c.ls[s] \in Attached, ~RegistrarIsRegistered(t), RegistrarIsIn(e.port.slot[T]),
                ~Present(e.port.slot[F])
         PROVE  e.ls[s] = "Ready"
    <3>1. RegistrarIsIn(Rx(T, t)) /\ ~Present(Rx(F, f))
      BY <2>5, <2>11, ZenonT(30) DEF RegistrarIsIn, Present
    <3>2. T \in N1 /\ Present(Rx(T, t)) /\ ~Present(f)
      BY <2>6, <2>7, <2>8, <2>11, <3>1 DEF RegistrarIsIn
    <3> QED BY <2>3, <2>9, <2>10, <2>11, <3>1, <3>2, ZenonT(30)
  <2>12. ASSUME c.ls[s] \in Attached, ~RegistrarIsRegistered(f), RegistrarIsIn(e.port.slot[F])
         PROVE  e.ls[s] = "AskingFailed"
    <3>1. RegistrarIsIn(Rx(F, f))
      BY <2>5, <2>12, ZenonT(30) DEF RegistrarIsIn
    <3>2. F \in N2 /\ Present(Rx(F, f))
      BY <2>6, <2>7, <2>8, <2>12, <3>1, ZenonT(30) DEF RegistrarIsIn
    <3> QED BY <2>3, <2>9, <2>10, <2>12, <3>2, ZenonT(30)
  <2> QED BY <2>11, <2>12, ZenonT(30) DEF FollowsAt, T, F, t, f
<1>10. SameSeen(c, e)
  <2> SUFFICES ASSUME NEW s \in Streams PROVE e.gate[s].seen = c.gate[s].seen
    BY ZenonT(30) DEF SameSeen
  <2>1. c1.gate[s].seen = c.gate[s].seen /\ c2.gate[s].seen = c1.gate[s].seen
    BY <1>2, <1>3, ZenonT(30) DEF TypeTaken, SameSeen
  <2>2. c3.gate[s].seen = c2.gate[s].seen /\ c4.gate[s].seen = c3.gate[s].seen
    BY <1>5, <1>6, ZenonT(30) DEF TypeTaken, SameSeen
  <2> QED BY <1>8, <2>1, <2>2, ZenonT(30)
<1> QED BY <1>1, <1>8, <1>9, <1>10, ZenonT(30)

-----------------------------------------------------------------------------
(***************************************************************************)
(* The handler.                                                            *)
(***************************************************************************)
\* What the media thread has seen is no older than the last listener held.
MediaInv ==
    /\ media \in [Streams -> [pc : {"idle", "ready"}, tx : BOOLEAN]]
    /\ stale \in [Streams -> 0..Never]
    /\ \A s \in Streams : /\ on => stale[s] <= gate[s].seen
                          /\ media[s].tx => gate[s].seen < Grace

TalkerState == {"None", "Idle", "Advertising"}

\* The inductive invariant of the handler.
HandlerInv ==
    /\ role \in Roles /\ on \in BOOLEAN /\ RoleOK
    /\ tk \in [Streams -> TalkerState]
    /\ ClientType(Client)
    /\ on => ClientOK(Client)
    /\ ~on => /\ \A a \in Attr : port.slot[a].app \notin Declaring
              /\ \A s \in Streams : ls[s] \notin Attached
    /\ MediaInv

LEMMA ClientFields ==
    /\ Client.port = port /\ Client.ls = ls /\ Client.gate = gate
    /\ ClientType(Client) <=> /\ PortOK(port) /\ ls \in [Streams -> ListenerState]
                              /\ gate \in [Streams -> Gate]
    /\ \A s \in Streams : StreamOK(Client, s) <=>
          /\ DeclaredAs(port.slot[ListenerAttr(s)], ls[s])
          /\ port.slot[TalkerAttr(s)].app \in Declaring => tk[s] = "Advertising"
          /\ port.slot[FailedAttr(s)].app \notin Declaring
          /\ role = "talker" => ls[s] = "None"
          /\ gate[s].ready => tk[s] # "None" /\ HeldRecord(port.slot[ListenerAttr(s)])
<1>1. Client.port = port /\ Client.ls = ls /\ Client.gate = gate
  BY DEF Client
<1>2. Client = [port |-> Client.port, ls |-> Client.ls, gate |-> Client.gate]
  BY DEF Client
<1> QED BY <1>1, <1>2 DEF ClientType, StreamOK

\* The streams after a step.
StreamsNext ==
    \A s \in Streams :
        /\ DeclaredAs(port'.slot[ListenerAttr(s)], ls'[s])
        /\ port'.slot[TalkerAttr(s)].app \in Declaring => tk'[s] = "Advertising"
        /\ port'.slot[FailedAttr(s)].app \notin Declaring
        /\ role' = "talker" => ls'[s] = "None"
        /\ gate'[s].ready => tk'[s] # "None" /\ HeldRecord(port'.slot[ListenerAttr(s)])

LEMMA ClientNext ==
    /\ ClientType(Client)' <=> /\ PortOK(port') /\ ls' \in [Streams -> ListenerState]
                               /\ gate' \in [Streams -> Gate]
    /\ ClientOK(Client)' <=> ClientType(Client)' /\ StreamsNext
<1>1. Client'.port = port' /\ Client'.ls = ls' /\ Client'.gate = gate'
  BY DEF Client
<1>2. Client' = [port |-> Client'.port, ls |-> Client'.ls, gate |-> Client'.gate]
  BY DEF Client
<1>3. ClientType(Client)' <=> /\ PortOK(port') /\ ls' \in [Streams -> ListenerState]
                              /\ gate' \in [Streams -> Gate]
  BY <1>1, <1>2, ZenonT(30) DEF ClientType
<1>4. ClientOK(Client)' <=> ClientType(Client)' /\ StreamsNext
  BY <1>1 DEF ClientOK, StreamOK, StreamsNext
<1> QED BY <1>3, <1>4

LEMMA MediaKept ==
    ASSUME MediaInv, UNCHANGED <<media, stale>>, on' => on,
           \A s \in Streams : gate'[s].seen = gate[s].seen
    PROVE  MediaInv'
BY DEF MediaInv

LEMMA InitHandler == HandlerInit => HandlerInv
<1> SUFFICES ASSUME HandlerInit PROVE HandlerInv
  BY ZenonT(30)
<1> DEFINE g == [ready |-> FALSE, conn |-> FALSE, seen |-> Never]
           m == [pc |-> "idle", tx |-> FALSE]
<1>1. /\ port = InitPort /\ PortOK(port)
      /\ \A a \in Attr : port.slot[a].app = "Start"
  BY InitPortOK DEF HandlerInit
<1>2. \A s \in Streams : tk[s] = "None" /\ ls[s] = "None" /\ gate[s] = g /\ media[s] = m
                         /\ stale[s] = Never
  BY DEF HandlerInit
<1>3. Never \in Nat /\ Never \in 0..Never /\ Grace \in Nat
  BY HandlerAssumption DEF Never
<1>4. g \in Gate /\ g.ready = FALSE /\ g.seen = Never
  BY <1>3 DEF Gate
<1>5. m \in [pc : {"idle", "ready"}, tx : BOOLEAN] /\ m.tx = FALSE
  OBVIOUS
<1>6. /\ gate = [s \in Streams |-> g] /\ media = [s \in Streams |-> m]
      /\ stale = [s \in Streams |-> Never] /\ ls = [s \in Streams |-> "None"]
      /\ tk = [s \in Streams |-> "None"] /\ role \in Roles /\ on = TRUE
  BY DEF HandlerInit
<1> HIDE DEF g, m
<1>7. MediaInv
  BY <1>2, <1>3, <1>4, <1>5, <1>6 DEF MediaInv
<1>8. ClientType(Client)
  BY <1>1, <1>4, <1>6, ClientFields, ZenonT(30) DEF ListenerState
<1>9. ASSUME NEW s \in Streams PROVE StreamOK(Client, s)
  BY <1>1, <1>2, <1>4, AttrShape, ClientFields DEF DeclaredAs, Attached, Declaring
<1>10. RoleOK /\ tk \in [Streams -> TalkerState] /\ role \in Roles /\ on
  BY <1>2, <1>6, HandlerAssumption DEF RoleOK, TalkerState
<1> QED BY <1>7, <1>8, <1>9, <1>10 DEF HandlerInv, ClientOK

-----------------------------------------------------------------------------
\* The calls of the entity leave the gate and the media thread alone.
LEMMA CallKeeps ==
    ASSUME HandlerInv, on, PortOK(port'), ls' \in [Streams -> ListenerState],
           tk' \in [Streams -> TalkerState],
           \A s \in Streams : role = "listener" => tk'[s] = "None",
           UNCHANGED <<role, gate, media, stale, on>>, StreamsNext
    PROVE  HandlerInv'
<1>1. gate' \in [Streams -> Gate]
  BY ClientFields, ZenonT(30) DEF HandlerInv
<1>2. ClientType(Client)' /\ ClientOK(Client)'
  BY <1>1, ClientNext, ZenonT(30)
<1>3. MediaInv'
  BY MediaKept DEF HandlerInv
<1>4. (role \in Roles)' /\ (on \in BOOLEAN)' /\ RoleOK' /\ on'
  BY DEF HandlerInv, RoleOK
<1> QED BY <1>2, <1>3, <1>4, ZenonT(30) DEF HandlerInv

\* What the invariant says of the streams of a running handler.
LEMMA StreamsNow ==
    ASSUME HandlerInv, on
    PROVE  /\ PortOK(port) /\ ls \in [Streams -> ListenerState]
           /\ \A s \in Streams :
                 /\ DeclaredAs(port.slot[ListenerAttr(s)], ls[s])
                 /\ port.slot[TalkerAttr(s)].app \in Declaring => tk[s] = "Advertising"
                 /\ port.slot[FailedAttr(s)].app \notin Declaring
                 /\ role = "talker" => ls[s] = "None"
                 /\ gate[s].ready => tk[s] # "None" /\ HeldRecord(port.slot[ListenerAttr(s)])
BY ClientFields, ZenonT(30) DEF HandlerInv, ClientOK

LEMMA TalkerAdvertiseKeeps ==
    ASSUME HandlerInv, NEW s \in Streams, NEW v \in Payload, TalkerAdvertise(s, v)
    PROVE  HandlerInv' /\ Unregistering(port, port')
<1> DEFINE a == TalkerAttr(s)
<1>1. /\ on /\ role = "talker" /\ port' = Declare(port, a, v)
      /\ UNCHANGED <<role, ls, gate, media, stale, on>>
      /\ tk' = [tk EXCEPT ![s] = "Advertising"] /\ tk \in [Streams -> TalkerState]
  BY DEF TalkerAdvertise, HandlerInv
<1>2. a \in Attr /\ v \in Value(a) /\ a[1] = "TalkerAdvertise"
  BY AttrShape DEF Value
<1> HIDE DEF a
<1>3. /\ PortOK(port) /\ ls' \in [Streams -> ListenerState]
  BY <1>1, StreamsNow, ZenonT(30)
<1>4. PortOK(port') /\ \A b \in Attr : b # a => port'.slot[b] = port.slot[b]
  BY <1>1, <1>2, <1>3, DeclareSlots
<1>5. Unregistering(port, port')
  BY <1>1, <1>2, <1>3, DeclareOK, ZenonT(30) DEF Unregistering
<1>6. tk' \in [Streams -> TalkerState] /\ tk'[s] = "Advertising"
      /\ \A x \in Streams : x # s => tk'[x] = tk[x]
  BY <1>1 DEF TalkerState
<1>7. ASSUME NEW x \in Streams
      PROVE  /\ port'.slot[ListenerAttr(x)] = port.slot[ListenerAttr(x)]
             /\ port'.slot[FailedAttr(x)] = port.slot[FailedAttr(x)]
             /\ x # s => port'.slot[TalkerAttr(x)] = port.slot[TalkerAttr(x)]
  <2>1. x # s => TalkerAttr(x) # a
    BY DEF TalkerAttr, a
  <2> QED BY <1>2, <1>4, <2>1, AttrShape, ZenonT(30)
<1>8. StreamsNext
  BY <1>1, <1>6, <1>7, StreamsNow, ZenonT(30) DEF StreamsNext
<1> QED BY <1>1, <1>3, <1>4, <1>5, <1>6, <1>8, CallKeeps, ZenonT(30)

LEMMA TalkerWithdrawKeeps ==
    ASSUME HandlerInv, NEW s \in Streams, TalkerWithdraw(s)
    PROVE  HandlerInv' /\ Unregistering(port, port')
<1> DEFINE A == {TalkerAttr(s), FailedAttr(s)}
<1>1. /\ on /\ tk[s] = "Advertising" /\ port' = Withdraw(port, A)
      /\ UNCHANGED <<role, ls, gate, media, stale, on>>
      /\ tk' = [tk EXCEPT ![s] = "Idle"] /\ tk \in [Streams -> TalkerState]
      /\ role # "listener"
  BY DEF TalkerWithdraw, HandlerInv, RoleOK
<1>2. TalkerAttr(s) \in A /\ FailedAttr(s) \in A /\ \A b \in A : b[1] # "Listener"
  BY AttrShape
<1>a. \A x \in Streams : x # s => TalkerAttr(x) \notin A /\ FailedAttr(x) \notin A
  BY DEF TalkerAttr, FailedAttr
<1> HIDE DEF A
<1>3. /\ PortOK(port) /\ ls' \in [Streams -> ListenerState]
  BY <1>1, StreamsNow, ZenonT(30)
<1>4. PortOK(port') /\ \A b \in Attr : port'.slot[b].reg = port.slot[b].reg
  BY <1>1, <1>3, WithdrawOK
<1>5. \A b \in Attr : port'.slot[b] = IF b \in A THEN WithdrawRecord(port.slot[b])
                                      ELSE port.slot[b]
  BY <1>1, <1>3, WithdrawSlots
<1>6. \A b \in Attr : WithdrawRecord(port.slot[b]).app \notin Declaring
  BY <1>3, WithdrawnRecord DEF PortOK
<1>7. tk' \in [Streams -> TalkerState] /\ tk'[s] = "Idle"
      /\ \A x \in Streams : x # s => tk'[x] = tk[x]
  BY <1>1, ZenonT(30) DEF TalkerState
<1>8. ASSUME NEW x \in Streams
      PROVE  /\ port'.slot[ListenerAttr(x)] = port.slot[ListenerAttr(x)]
             /\ x # s => /\ port'.slot[FailedAttr(x)] = port.slot[FailedAttr(x)]
                         /\ port'.slot[TalkerAttr(x)] = port.slot[TalkerAttr(x)]
             /\ x = s => /\ port'.slot[FailedAttr(x)].app \notin Declaring
                         /\ port'.slot[TalkerAttr(x)].app \notin Declaring
  BY <1>2, <1>a, <1>5, <1>6, AttrShape
<1>9. StreamsNext
  BY <1>1, <1>7, <1>8, StreamsNow, ZenonT(30) DEF StreamsNext
<1>10. Unregistering(port, port')
  BY <1>4, ZenonT(30) DEF Unregistering
<1> QED BY <1>1, <1>3, <1>4, <1>7, <1>9, <1>10, CallKeeps, ZenonT(30)

LEMMA ListenerAttachKeeps ==
    ASSUME HandlerInv, NEW s \in Streams, ListenerAttach(s)
    PROVE  HandlerInv' /\ Unregistering(port, port')
<1> DEFINE a == ListenerAttr(s)
           w == Want(port, s)
<1>1. /\ on /\ role = "listener" /\ port' = Declare(port, a, w)
      /\ UNCHANGED <<role, tk, gate, media, stale, on>>
      /\ ls' = [ls EXCEPT ![s] = w] /\ tk \in [Streams -> TalkerState]
      /\ \A x \in Streams : tk[x] = "None"
  BY DEF ListenerAttach, HandlerInv, RoleOK
<1>2. a \in Attr /\ w \in Value(a) /\ w \in Attached /\ a[1] = "Listener"
  BY AttrShape DEF Value, Want, Attached, ListenerDeclaration
<1>a. \A x \in Streams : x # s => ListenerAttr(x) # a
  BY DEF ListenerAttr
<1> HIDE DEF w
<1>3. PortOK(port) /\ ls \in [Streams -> ListenerState]
  BY <1>1, StreamsNow, ZenonT(30)
<1>4. PortOK(port') /\ \A b \in Attr : port'.slot[b] = IF b = a
                                                      THEN DeclareRecord(port.slot[a], w)
                                                      ELSE port.slot[b]
  BY <1>1, <1>2, <1>3, DeclareSlots
<1>5. DeclaredAs(DeclareRecord(port.slot[a], w), w)
  BY <1>2, <1>3, DeclaredRecord DEF DeclaredAs, PortOK
<1>6. Unregistering(port, port')
  BY <1>1, <1>2, <1>3, DeclareOK, ZenonT(30) DEF Unregistering
<1>7. ls' \in [Streams -> ListenerState] /\ ls'[s] = w
      /\ \A x \in Streams : x # s => ls'[x] = ls[x]
  BY <1>1, <1>2, <1>3 DEF ListenerState, Attached
<1>8. ASSUME NEW x \in Streams
      PROVE  /\ port'.slot[TalkerAttr(x)] = port.slot[TalkerAttr(x)]
             /\ port'.slot[FailedAttr(x)] = port.slot[FailedAttr(x)]
             /\ x # s => port'.slot[ListenerAttr(x)] = port.slot[ListenerAttr(x)]
             /\ x = s => DeclaredAs(port'.slot[ListenerAttr(x)], ls'[x])
  <2>1. /\ TalkerAttr(x) \in Attr /\ TalkerAttr(x) # a
        /\ FailedAttr(x) \in Attr /\ FailedAttr(x) # a /\ ListenerAttr(x) \in Attr
    BY <1>2, AttrShape, ZenonT(30)
  <2> HIDE DEF a
  <2>2. x = s => ListenerAttr(x) = a
    BY DEF a
  <2> QED BY <1>a, <1>4, <1>5, <1>7, <2>1, <2>2, ZenonT(30)
<1>9. StreamsNext
  BY <1>1, <1>7, <1>8, StreamsNow, ZenonT(30) DEF StreamsNext
<1> QED BY <1>1, <1>4, <1>6, <1>7, <1>9, CallKeeps, ZenonT(30)

LEMMA ListenerWithdrawKeeps ==
    ASSUME HandlerInv, NEW s \in Streams, ListenerWithdraw(s)
    PROVE  HandlerInv' /\ Unregistering(port, port')
<1> DEFINE A == {ListenerAttr(s)}
<1>1. /\ on /\ ls[s] \in Attached /\ port' = Withdraw(port, A)
      /\ UNCHANGED <<role, tk, gate, media, stale, on>>
      /\ ls' = [ls EXCEPT ![s] = "Idle"] /\ tk \in [Streams -> TalkerState]
  BY DEF ListenerWithdraw, HandlerInv, Attached
<1>b. role = "listener" /\ \A x \in Streams : tk[x] = "None"
  BY <1>1, StreamsNow, ZenonT(30) DEF HandlerInv, RoleOK, Attached
<1>2. ListenerAttr(s) \in A /\ \A b \in A : b[1] = "Listener"
  BY AttrShape
<1>a. \A x \in Streams : x # s => ListenerAttr(x) \notin A
  BY DEF ListenerAttr
<1> HIDE DEF A
<1>3. PortOK(port) /\ ls \in [Streams -> ListenerState]
  BY <1>1, StreamsNow, ZenonT(30)
<1>4. PortOK(port') /\ \A b \in Attr : port'.slot[b].reg = port.slot[b].reg
  BY <1>1, <1>3, WithdrawOK, ZenonT(30)
<1>5. \A b \in Attr : port'.slot[b] = IF b \in A THEN WithdrawRecord(port.slot[b])
                                      ELSE port.slot[b]
  BY <1>1, <1>3, WithdrawSlots
<1>6. \A b \in Attr : WithdrawRecord(port.slot[b]).app \notin Declaring
  BY <1>3, WithdrawnRecord DEF PortOK
<1>7. ls' \in [Streams -> ListenerState] /\ ls'[s] = "Idle"
      /\ \A x \in Streams : x # s => ls'[x] = ls[x]
  BY <1>1, <1>3, ZenonT(30) DEF ListenerState
<1>8. ASSUME NEW x \in Streams
      PROVE  /\ port'.slot[TalkerAttr(x)] = port.slot[TalkerAttr(x)]
             /\ port'.slot[FailedAttr(x)] = port.slot[FailedAttr(x)]
             /\ x # s => port'.slot[ListenerAttr(x)] = port.slot[ListenerAttr(x)]
             /\ x = s => port'.slot[ListenerAttr(x)].app \notin Declaring
  <2>1. /\ TalkerAttr(x) \in Attr \ A /\ FailedAttr(x) \in Attr \ A
        /\ ListenerAttr(x) \in Attr
    BY <1>2, AttrShape, ZenonT(30)
  <2> QED BY <1>2, <1>a, <1>5, <1>6, <2>1, ZenonT(30)
<1>9. StreamsNext
  <2>1. ASSUME NEW x \in Streams PROVE DeclaredAs(port'.slot[ListenerAttr(x)], ls'[x])
    <3>1. CASE x = s
      BY <1>7, <1>8, <3>1, ZenonT(30) DEF DeclaredAs, Attached
    <3>2. CASE x # s
      BY <1>1, <1>7, <1>8, <3>2, StreamsNow, ZenonT(30)
    <3> QED BY <3>1, <3>2, ZenonT(30)
  <2> QED BY <1>1, <1>b, <1>8, <2>1, StreamsNow, ZenonT(30) DEF StreamsNext
<1>10. Unregistering(port, port')
  BY <1>4 DEF Unregistering
<1> QED BY <1>1, <1>b, <1>4, <1>7, <1>9, <1>10, CallKeeps

LEMMA DeclareDomainsKeeps ==
    ASSUME HandlerInv, NEW v \in Payload, DeclareDomain(v)
    PROVE  HandlerInv' /\ Unregistering(port, port')
<1> DEFINE f == [a \in Attr |-> IF a[1] = "Domain" THEN DeclareRecord(port.slot[a], v)
                                ELSE port.slot[a]]
           q == [port EXCEPT !.slot = f]
<1>1. /\ on /\ port' = StartTimer(q, "join")
      /\ UNCHANGED <<role, tk, ls, gate, media, stale, on>> /\ tk \in [Streams -> TalkerState]
  BY DEF DeclareDomain, HandlerInv
<1>2. PortOK(port) /\ ls \in [Streams -> ListenerState]
  BY <1>1, StreamsNow, ZenonT(30)
<1>3. ASSUME NEW a \in Attr
      PROVE  /\ Good(a, f[a]) /\ f[a].reg = port.slot[a].reg
             /\ a[1] # "Domain" => f[a] = port.slot[a]
  <2>1. a[1] = "Domain" => v \in Value(a)
    BY DEF Value
  <2>2. Good(a, port.slot[a])
    BY <1>2, ZenonT(30) DEF PortOK
  <2> QED BY <2>1, <2>2, DeclareGood
<1>4. f = [a \in Attr |-> f[a]] /\ port \in Port
  BY <1>2 DEF PortOK
<1> HIDE DEF f
<1>5. PortOK(q) /\ q.slot = f
  BY <1>3, <1>4, NewSlots
<1> HIDE DEF q
<1>6. PortOK(port') /\ port'.slot = f
  BY <1>1, <1>5, StartTimerOK, ZenonT(30) DEF Timer
<1>7. Unregistering(port, port')
  BY <1>3, <1>6, ZenonT(30) DEF Unregistering
<1>8. ASSUME NEW x \in Streams
      PROVE  /\ port'.slot[TalkerAttr(x)] = port.slot[TalkerAttr(x)]
             /\ port'.slot[FailedAttr(x)] = port.slot[FailedAttr(x)]
             /\ port'.slot[ListenerAttr(x)] = port.slot[ListenerAttr(x)]
  BY <1>3, <1>6, AttrShape
<1>9. StreamsNext
  BY <1>1, <1>8, StreamsNow, ZenonT(30) DEF StreamsNext
<1>10. \A s \in Streams : role = "listener" => tk'[s] = "None"
  BY <1>1, ZenonT(30) DEF HandlerInv, RoleOK
<1> QED BY <1>1, <1>2, <1>6, <1>7, <1>9, <1>10, CallKeeps, ZenonT(30)

LEMMA WithdrawAllKeeps ==
    ASSUME HandlerInv, WithdrawAll
    PROVE  HandlerInv' /\ Unregistering(port, port')
<1> DEFINE q == Withdraw(port, Withdrawn)
<1>1. /\ on /\ on' = FALSE /\ port' = AfterTx(q)
      /\ UNCHANGED <<role, gate, media, stale>> /\ tk \in [Streams -> TalkerState]
      /\ tk' = [s \in Streams |-> IF tk[s] = "None" THEN "None" ELSE "Idle"]
      /\ ls' = [s \in Streams |-> IF ls[s] = "None" THEN "None" ELSE "Idle"]
  BY DEF WithdrawAll, HandlerInv
<1>2. PortOK(port)
  BY <1>1, StreamsNow, ZenonT(30)
<1>3. PortOK(q) /\ \A b \in Attr : q.slot[b].reg = port.slot[b].reg
  BY <1>2, WithdrawOK
<1>4. \A b \in Attr : q.slot[b] = IF b \in Withdrawn THEN WithdrawRecord(port.slot[b])
                                  ELSE port.slot[b]
  BY <1>2, WithdrawSlots
<1>5. \A b \in Attr : WithdrawRecord(port.slot[b]).app \notin Declaring
  BY <1>2, WithdrawnRecord DEF PortOK
<1> HIDE DEF q
<1>6. ASSUME NEW s \in Streams
      PROVE  /\ TalkerAttr(s) \notin Withdrawn => tk[s] # "Advertising"
             /\ ListenerAttr(s) \notin Withdrawn => ls[s] \notin Attached
  BY DEF Withdrawn, Attached
<1>7. \A a \in Attr : a[1] = "Domain" => a \in Withdrawn
  BY DEF Withdrawn
<1>8. ASSUME NEW a \in Attr, a \notin Withdrawn PROVE port.slot[a].app \notin Declaring
  <2>1. a[1] \in {"TalkerAdvertise", "TalkerFailed", "Listener"}
    BY <1>7, <1>8, AttrShape DEF Types, AttributeType
  <2>2. \E s \in Streams : a \in {TalkerAttr(s), FailedAttr(s), ListenerAttr(s)}
    BY <2>1, AttrShape
  <2>3. PICK s \in Streams : a \in {TalkerAttr(s), FailedAttr(s), ListenerAttr(s)}
    BY <2>2
  <2> QED BY <1>1, <1>6, <1>8, <2>3, StreamsNow, ZenonT(30) DEF DeclaredAs
<1>9. \A a \in Attr : q.slot[a].app \notin Declaring
  BY <1>4, <1>5, <1>8
<1>10. PortOK(port') /\ SteadyPort(q, port')
  BY <1>1, <1>3, StagesSteady, ZenonT(30)
<1>11. \A a \in Attr : port'.slot[a].app \notin Declaring
  BY <1>9, <1>10, ZenonT(30) DEF SteadyPort, Steady
<1>12. Unregistering(port, port')
  BY <1>3, <1>10 DEF Unregistering, SteadyPort, Steady
<1>13. /\ ls' \in [Streams -> ListenerState] /\ tk' \in [Streams -> TalkerState]
       /\ \A s \in Streams : ls'[s] \notin Attached
       /\ RoleOK' /\ role' \in Roles
  BY <1>1 DEF ListenerState, TalkerState, Attached, HandlerInv, RoleOK
<1>14. gate' \in [Streams -> Gate]
  BY <1>1, ClientFields, ZenonT(30) DEF HandlerInv
<1>15. ClientType(Client)'
  BY <1>10, <1>13, <1>14, ClientNext
<1>16. MediaInv'
  BY <1>1, MediaKept, ZenonT(30) DEF HandlerInv
<1> QED BY <1>1, <1>11, <1>12, <1>13, <1>15, <1>16, ZenonT(30) DEF HandlerInv

-----------------------------------------------------------------------------
\* The gate's own fields and the media thread: the participant is not touched.
LEMMA GateKeeps ==
    ASSUME HandlerInv, UNCHANGED <<role, port, tk, ls, on>>,
           gate' \in [Streams -> Gate], MediaInv',
           \A s \in Streams : gate'[s].ready = gate[s].ready
    PROVE  HandlerInv' /\ Unregistering(port, port')
<1>1. ClientType(Client)'
  BY ClientFields, ClientNext, ZenonT(30) DEF HandlerInv
<1>2. ASSUME on PROVE ClientOK(Client)'
  <2>1. StreamsNext
    BY <1>2, StreamsNow, ZenonT(30) DEF StreamsNext
  <2> QED BY <1>1, <2>1, ClientNext
<1>3. RoleOK'
  BY DEF HandlerInv, RoleOK
<1> QED BY <1>1, <1>2, <1>3 DEF HandlerInv, Unregistering

LEMMA NoteAcmpConnectionsKeeps ==
    ASSUME HandlerInv, NEW s \in Streams, NEW connected \in BOOLEAN,
           NoteAcmpConnections(s, connected)
    PROVE  HandlerInv' /\ Unregistering(port, port')
<1>1. /\ gate' = [gate EXCEPT ![s].conn = connected]
      /\ UNCHANGED <<role, port, tk, ls, media, stale, on>>
  BY DEF NoteAcmpConnections
<1>2. gate \in [Streams -> Gate]
  BY ClientFields, ZenonT(30) DEF HandlerInv
<1>3. /\ gate' \in [Streams -> Gate]
      /\ \A x \in Streams : gate'[x].ready = gate[x].ready /\ gate'[x].seen = gate[x].seen
  BY <1>1, <1>2 DEF Gate
<1>4. MediaInv'
  BY <1>1, <1>3, MediaKept DEF HandlerInv
<1> QED BY <1>1, <1>3, <1>4, GateKeeps

LEMMA OlderOf ==
    ASSUME NEW n \in 0..Never
    PROVE  /\ Older(n) \in 0..Never
           /\ \A m \in 0..Never : m <= n => Older(m) <= Older(n)
BY HandlerAssumption DEF Older, Never

LEMMA ConnectedAndStartedKeeps ==
    ASSUME HandlerInv, NEW s \in Streams, ConnectedAndStarted(s)
    PROVE  HandlerInv' /\ Unregistering(port, port')
<1> DEFINE m == [pc |-> IF gate[s].conn THEN "ready" ELSE "idle", tx |-> FALSE]
           n == Older(gate[s].seen)
           k == IF Held(port, s) THEN 0 ELSE Older(stale[s])
<1>1. /\ gate' = [gate EXCEPT ![s].seen = n] /\ media' = [media EXCEPT ![s] = m]
      /\ stale' = [stale EXCEPT ![s] = k]
      /\ UNCHANGED <<role, port, tk, ls, on>>
  BY ClientFields DEF ConnectedAndStarted, HandlerInv
<1>2. gate \in [Streams -> Gate] /\ MediaInv
  BY ClientFields, ZenonT(30) DEF HandlerInv
<1>3. /\ gate[s].seen \in 0..Never /\ stale[s] \in 0..Never /\ 0 \in 0..Never
  BY <1>2, HandlerAssumption DEF Gate, MediaInv, Never
<1>4. n \in 0..Never /\ k \in 0..Never /\ (on => k <= n)
  BY <1>2, <1>3, OlderOf, HandlerAssumption DEF MediaInv, Never
<1>5. m \in [pc : {"idle", "ready"}, tx : BOOLEAN] /\ m.tx = FALSE
  OBVIOUS
<1> HIDE DEF m, n, k
<1>6. /\ gate' \in [Streams -> Gate] /\ gate'[s].seen = n
      /\ \A x \in Streams : /\ gate'[x].ready = gate[x].ready
                            /\ x # s => gate'[x].seen = gate[x].seen
  BY <1>1, <1>2, <1>4 DEF Gate
<1>7. MediaInv'
  <2>1. media' \in [Streams -> [pc : {"idle", "ready"}, tx : BOOLEAN]]
        /\ media'[s] = m /\ \A x \in Streams : x # s => media'[x] = media[x]
    BY <1>1, <1>2, <1>5 DEF MediaInv
  <2>2. stale' \in [Streams -> 0..Never] /\ stale'[s] = k
        /\ \A x \in Streams : x # s => stale'[x] = stale[x]
    BY <1>1, <1>2, <1>4 DEF MediaInv
  <2> QED BY <1>1, <1>2, <1>4, <1>5, <1>6, <2>1, <2>2 DEF MediaInv
<1> QED BY <1>1, <1>6, <1>7, GateKeeps

LEMMA ListenerReadyWithinGraceKeeps ==
    ASSUME HandlerInv, NEW s \in Streams, ListenerReadyWithinGrace(s)
    PROVE  HandlerInv' /\ Unregistering(port, port')
<1> DEFINE n == IF gate[s].ready THEN 0 ELSE gate[s].seen
           b == n < Grace
           m == [pc |-> "idle", tx |-> b]
           k == IF Held(port, s) THEN 0 ELSE stale[s]
<1>1. /\ gate' = [gate EXCEPT ![s].seen = n] /\ media' = [media EXCEPT ![s] = m]
      /\ stale' = [stale EXCEPT ![s] = k]
      /\ UNCHANGED <<role, port, tk, ls, on>>
  BY DEF ListenerReadyWithinGrace, HandlerInv
<1>2. gate \in [Streams -> Gate] /\ MediaInv
  BY ClientFields, ZenonT(30) DEF HandlerInv
<1>3. /\ gate[s].seen \in 0..Never /\ stale[s] \in 0..Never /\ 0 \in 0..Never
  BY <1>2, HandlerAssumption DEF Gate, MediaInv, Never
<1>h. on /\ gate[s].ready => Held(port, s)
  BY StreamsNow, ZenonT(30) DEF HeldRecord, Held, ListenerPermitsTransmit, RegistrarIsRegistered, ListenerAttr
<1>4. n \in 0..Never /\ k \in 0..Never /\ (on => k <= n)
  BY <1>2, <1>3, <1>h, HandlerAssumption DEF MediaInv, Never
<1>5. m \in [pc : {"idle", "ready"}, tx : BOOLEAN] /\ m.tx = b
  <2>1. n \in Int /\ Grace \in Int
    BY <1>4, HandlerAssumption DEF Never
  <2>2. b \in BOOLEAN
    <3> HIDE DEF n
    <3> QED BY <2>1
  <2> HIDE DEF b
  <2> QED BY <2>2
<1> HIDE DEF m, n, k
<1>6. /\ gate' \in [Streams -> Gate] /\ gate'[s].seen = n
      /\ \A x \in Streams : /\ gate'[x].ready = gate[x].ready
                            /\ x # s => gate'[x].seen = gate[x].seen
  BY <1>1, <1>2, <1>4 DEF Gate
<1>7. MediaInv'
  <2>1. media' \in [Streams -> [pc : {"idle", "ready"}, tx : BOOLEAN]]
        /\ media'[s] = m /\ \A x \in Streams : x # s => media'[x] = media[x]
    BY <1>1, <1>2, <1>5 DEF MediaInv
  <2>2. stale' \in [Streams -> 0..Never] /\ stale'[s] = k
        /\ \A x \in Streams : x # s => stale'[x] = stale[x]
    BY <1>1, <1>2, <1>4 DEF MediaInv
  <2> QED BY <1>1, <1>2, <1>4, <1>5, <1>6, <2>1, <2>2 DEF MediaInv, b
<1> QED BY <1>1, <1>6, <1>7, GateKeeps

-----------------------------------------------------------------------------
\* A step that replaces the client.
LEMMA BecomesKeeps ==
    ASSUME HandlerInv, on, NEW e, ClientOK(e), SameSeen(Client, e), Becomes(e),
           UNCHANGED <<role, tk, media, stale, on>>
    PROVE  HandlerInv'
<1>1. port' = e.port /\ ls' = e.ls /\ gate' = e.gate
  BY DEF Becomes
<1>2. StreamsNext /\ ClientType(Client)'
  BY <1>1, ClientNext, ZenonT(30) DEF ClientOK, ClientType, StreamOK, StreamsNext
<1>3. ClientOK(Client)'
  BY <1>2, ClientNext
<1>4. MediaInv'
  BY <1>1, ClientFields, MediaKept, ZenonT(30) DEF SameSeen, HandlerInv
<1>5. RoleOK' /\ (role \in Roles)' /\ (tk \in [Streams -> TalkerState])' /\ on'
  BY DEF RoleOK, HandlerInv
<1> QED BY <1>2, <1>3, <1>4, <1>5, ZenonT(30) DEF HandlerInv

LEMMA TickHandlerKeeps ==
    ASSUME HandlerInv, NEW E \in SUBSET Timer, Tick(E)
    PROVE  HandlerInv' /\ Unregistering(port, port')
<1> DEFINE e == TickStages(Client, E)
<1>1. on /\ Becomes(e) /\ UNCHANGED <<role, tk, media, stale, on>>
  BY DEF Tick
<1>2. ClientOK(Client) /\ RoleOK
  BY <1>1 DEF HandlerInv
<1>3. ClientOK(e) /\ Unregistering(Client.port, e.port) /\ SameSeen(Client, e)
  BY <1>2, TickKeeps
<1> HIDE DEF e
<1>4. Unregistering(port, port')
  BY <1>1, <1>3, ClientFields, ZenonT(30) DEF Becomes
<1> QED BY <1>1, <1>3, <1>4, BecomesKeeps

LEMMA RemotePduFacts ==
    ASSUME RoleOK, NEW d \in PeerPdu
    PROVE  /\ PduValues(d) /\ DOMAIN d.msg \subseteq Attr
           /\ \A s \in Streams :
                 /\ Repeats(ListenerAttr(s), port.slot[ListenerAttr(s)], d)
                 /\ role = "listener" => ListenerAttr(s) \notin DOMAIN d.msg
<1>1. PICK A \in SUBSET PeerAttr :
          d \in [la  : SUBSET {a[1] : a \in PeerAttr},
                 msg : {m \in [A -> [ev : PeerEvent, val : Payload \cup PeerDecl]] :
                            \A a \in A : /\ m[a].val \in Value(a)
                                         /\ \/ m[a].ev \notin {"In", "Mt"}
                                            \/ ~Present(port.slot[a])
                                            \/ port.slot[a].val = m[a].val}]
  BY DEF PeerPdu
<1>2. /\ DOMAIN d.msg = A
      /\ \A a \in A : /\ d.msg[a].ev \in PeerEvent /\ d.msg[a].val \in Value(a)
                      /\ \/ d.msg[a].ev \notin {"In", "Mt"}
                         \/ ~Present(port.slot[a])
                         \/ port.slot[a].val = d.msg[a].val
  BY <1>1
<1>3. A \subseteq Attr
  BY AttrShape DEF PeerAttr
<1>4. role = "listener" => \A a \in A : a[1] # "Listener"
  BY AttrShape DEF PeerAttr
<1>5. PduValues(d)
  BY <1>2, HandlerAssumption, ZenonT(30) DEF PduValues
<1>6. ASSUME NEW s \in Streams
      PROVE  Repeats(ListenerAttr(s), port.slot[ListenerAttr(s)], d)
  BY <1>2 DEF Repeats
<1> QED BY <1>2, <1>3, <1>4, <1>5, <1>6, AttrShape, ZenonT(30)

LEMMA ReceivePacketKeeps ==
    ASSUME HandlerInv, NEW d \in PeerPdu, NEW admitted, Receive(d, admitted)
    PROVE  HandlerInv' /\ FollowsStep
<1> DEFINE e == RxPdu(Client, d, admitted)
<1>1. on /\ Becomes(e) /\ UNCHANGED <<role, tk, media, stale, on>>
  BY DEF Receive
<1>2. ClientOK(Client) /\ RoleOK
  BY <1>1 DEF HandlerInv
<1>3. /\ PduValues(d) /\ DOMAIN d.msg \subseteq Attr
      /\ \A s \in Streams :
            /\ Repeats(ListenerAttr(s), Client.port.slot[ListenerAttr(s)], d)
            /\ role = "listener" => ListenerAttr(s) \notin DOMAIN d.msg
  BY <1>2, RemotePduFacts, ClientFields, ZenonT(30)
<1>4. /\ ClientOK(e) /\ SameSeen(Client, e)
      /\ \A s \in Streams : FollowsAt(s, Client.port, Client.ls, e.port, e.ls)
  BY <1>2, <1>3, RxPduKeeps, ZenonT(30)
<1> HIDE DEF e
<1>5. \A s \in Streams : FollowsAt(s, port, ls, port', ls')
  BY <1>1, <1>4, ClientFields, ZenonT(30) DEF Becomes
<1>6. FollowsStep
  BY <1>5, ZenonT(30) DEF FollowsStep, FollowsAt, Attached
<1> QED BY <1>1, <1>4, <1>6, BecomesKeeps

\* A step that registers nothing has nothing to follow.
LEMMA NothingToFollow ==
    ASSUME Unregistering(port, port') PROVE FollowsStep
BY AttrShape, ZenonT(30) DEF Unregistering, FollowsStep, RegistrarIsRegistered, RegistrarIsIn

LEMMA HandlerStep ==
    ASSUME HandlerInv, [HandlerNext]_handlerVars
    PROVE  HandlerInv' /\ [FollowsStep]_handlerVars
<1>1. CASE UNCHANGED handlerVars
  <2>1. UNCHANGED <<role, port, tk, ls, gate, media, stale, on>>
    BY <1>1 DEF handlerVars
  <2>2. gate' \in [Streams -> Gate] /\ MediaInv'
    BY <2>1, ClientFields, MediaKept, ZenonT(30) DEF HandlerInv
  <2> QED BY <1>1, <2>1, <2>2, GateKeeps
<1>2. ASSUME NEW s \in Streams, NEW v \in Payload, TalkerAdvertise(s, v)
      PROVE  HandlerInv' /\ FollowsStep
  BY <1>2, TalkerAdvertiseKeeps, NothingToFollow
<1>3. ASSUME NEW s \in Streams, TalkerWithdraw(s) PROVE HandlerInv' /\ FollowsStep
  BY <1>3, TalkerWithdrawKeeps, NothingToFollow
<1>4. ASSUME NEW s \in Streams, ListenerAttach(s) PROVE HandlerInv' /\ FollowsStep
  BY <1>4, ListenerAttachKeeps, NothingToFollow, ZenonT(30)
<1>5. ASSUME NEW s \in Streams, ListenerWithdraw(s) PROVE HandlerInv' /\ FollowsStep
  BY <1>5, ListenerWithdrawKeeps, NothingToFollow
<1>6. ASSUME NEW v \in Payload, DeclareDomain(v) PROVE HandlerInv' /\ FollowsStep
  BY <1>6, DeclareDomainsKeeps, NothingToFollow
<1>7. ASSUME WithdrawAll PROVE HandlerInv' /\ FollowsStep
  BY <1>7, WithdrawAllKeeps, NothingToFollow
<1>8. ASSUME NEW s \in Streams, NEW connected \in BOOLEAN, NoteAcmpConnections(s, connected)
      PROVE  HandlerInv' /\ FollowsStep
  BY <1>8, NoteAcmpConnectionsKeeps, NothingToFollow, ZenonT(30)
<1>9. ASSUME NEW s \in Streams, ConnectedAndStarted(s) PROVE HandlerInv' /\ FollowsStep
  BY <1>9, ConnectedAndStartedKeeps, NothingToFollow
<1>10. ASSUME NEW s \in Streams, ListenerReadyWithinGrace(s)
       PROVE  HandlerInv' /\ FollowsStep
  BY <1>10, ListenerReadyWithinGraceKeeps, NothingToFollow
<1>11. ASSUME NEW E \in SUBSET Timer, Tick(E) PROVE HandlerInv' /\ FollowsStep
  BY <1>11, TickHandlerKeeps, NothingToFollow
<1>12. ASSUME NEW d \in PeerPdu, NEW admitted, Receive(d, admitted)
       PROVE  HandlerInv' /\ FollowsStep
  BY <1>12, ReceivePacketKeeps
<1> QED BY <1>1, <1>2, <1>3, <1>4, <1>5, <1>6, <1>7, <1>8, <1>9, <1>10, <1>11, <1>12, ZenonT(30)
        DEF HandlerNext

\* What the handler promises follows from the invariant.
LEMMA HandlerInvAgrees == HandlerInv => HandlerAgrees
<1> SUFFICES ASSUME HandlerInv PROVE HandlerAgrees
  OBVIOUS
<1>1. /\ PortOK(port) /\ ls \in [Streams -> ListenerState] /\ gate \in [Streams -> Gate]
      /\ MediaInv
  BY ClientFields, ZenonT(30) DEF HandlerInv
<1>2. HandlerTypeOK
  <2>1. \A a \in Attr : Present(port.slot[a]) => port.slot[a].val \in Value(a)
    BY <1>1 DEF PortOK, Good, WellFormed
  <2> QED BY <1>1, <2>1, ZenonT(30) DEF HandlerTypeOK, HandlerInv, MediaInv, TalkerState, ListenerState, Gate
<1>3. StopWithdrawsAll
  BY DEF HandlerInv, StopWithdrawsAll
<1>4. DeclaresWhatItSays
  <2> SUFFICES ASSUME NEW s \in Streams PROVE DeclaredAs(port.slot[ListenerAttr(s)], ls[s])
    BY <1>1, ZenonT(30) DEF DeclaresWhatItSays, DeclaredAs, Attached, ListenerState
  <2>1. CASE on
    BY <2>1, StreamsNow
  <2>2. CASE ~on
    BY <2>2, AttrShape, ZenonT(30) DEF HandlerInv, DeclaredAs
  <2> QED BY <2>1, <2>2
<1>5. GateToldTruth
  BY StreamsNow, ZenonT(30) DEF GateToldTruth, HeldRecord, Held, ListenerPermitsTransmit,
                    RegistrarIsRegistered, ListenerAttr
<1>6. GraceBoundsTransmission
  <2> SUFFICES ASSUME NEW s \in Streams, on, media[s].tx PROVE stale[s] < Grace
    BY DEF GraceBoundsTransmission
  <2>1. stale[s] \in Nat /\ gate[s].seen \in Nat /\ Grace \in Nat
    BY <1>1, HandlerAssumption DEF MediaInv, Gate, Never
  <2>2. stale[s] <= gate[s].seen /\ gate[s].seen < Grace
    BY <1>1 DEF MediaInv
  <2> QED BY <2>1, <2>2
<1> QED BY <1>2, <1>3, <1>4, <1>5, <1>6 DEF HandlerAgrees

\* nanoavb_srp.hpp and avb_entity_talker_gate.cpp: for any number of streams,
\* whatever the peer sends and however its observers fire inside a PDU, the
\* participant declares what the handler has noted, withdraw_all leaves no
\* declaration behind, the gate is open only for a Listener that is held, and a
\* frame leaves fewer than GRACE wakes after the last one that found one held.
THEOREM HandlerCorrect == HandlerSpec => []HandlerAgrees
<1>1. HandlerInit => HandlerInv
  BY InitHandler
<1>2. HandlerInv /\ [HandlerNext]_handlerVars => HandlerInv'
  BY HandlerStep
<1>3. HandlerInv => HandlerAgrees
  BY HandlerInvAgrees
<1> QED BY <1>1, <1>2, <1>3, PTL DEF HandlerSpec

\* on_remote_talker_changed: no order of the types within a PDU, and no
\* declaration made in between, leaves an attached listener with a declaration
\* that a registration of this step contradicts.
THEOREM FollowsCorrect == HandlerSpec => FollowsRegistrations
<1>1. HandlerInit => HandlerInv
  BY InitHandler
<1>2. HandlerInv /\ [HandlerNext]_handlerVars => HandlerInv' /\ [FollowsStep]_handlerVars
  BY HandlerStep
<1> QED BY <1>1, <1>2, PTL DEF HandlerSpec, FollowsRegistrations
=============================================================================
