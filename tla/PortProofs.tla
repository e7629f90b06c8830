----------------------------- MODULE PortProofs -----------------------------
(***************************************************************************)
(* What the stages of the participant's port engine keep, for every set of *)
(* streams, classes and values, every table capacity, PDU size and both    *)
(* workaround settings: the facts about MsrpPort that the proofs of the    *)
(* participant (MsrpProofs) and of the entity's MSRP client (EntityProofs) *)
(* rest on.                                                                *)
(***************************************************************************)
EXTENDS MsrpPort, TLAPS

\* A leaf goes to the SMT solver, again if its translation ran out of time.
USE SMTT(60), SMTT(50), SMTT(40)

-----------------------------------------------------------------------------
(***************************************************************************)
(* The state machines.                                                     *)
(***************************************************************************)
Running == ApplicantState \ {"Start"}

\* The first event takes an Applicant out of Start.
LEMMA BeginRuns ==
    ASSUME NEW s \in ApplicantState
    PROVE  /\ ApplicantBegin(s) \in Running
           /\ ApplicantBegin(s) = "La" => s = "La"
BY DEF ApplicantBegin, Running, ApplicantState

\* No cell of an Applicant table leaves the states of the machine.
LEMMA CellRuns ==
    ASSUME NEW b \in Running
    PROVE  /\ Cell(OnNew, b) \in Running
           /\ Cell(OnJoin, b) \in Running
           /\ Cell(OnLeave, b) \in Running
           /\ \A i \in BOOLEAN : Cell(OnTx(i), b) \in Running
           /\ Cell(OnTxLeaveAll, b) \in Running
           /\ Cell(OnRJoinIn, b) \in Running
           /\ Cell(OnRIn, b) \in Running
           /\ Cell(OnREmpty, b) \in Running
           /\ Cell(OnRLeave, b) \in Running
           /\ Cell(OnPeriodic, b) \in Running
           /\ Cell([Start |-> "Vo"], b) \in Running
<1>1. Cell(OnNew, b) \in Running
  BY DEF Cell, OnNew, Running, ApplicantState
<1>2. Cell(OnJoin, b) \in Running
  BY DEF Cell, OnJoin, Running, ApplicantState
<1>3. Cell(OnLeave, b) \in Running
  BY DEF Cell, OnLeave, Running, ApplicantState
<1>4. \A i \in BOOLEAN : Cell(OnTx(i), b) \in Running
  BY DEF Cell, OnTx, Running, ApplicantState
<1>5. Cell(OnTxLeaveAll, b) \in Running
  BY DEF Cell, OnTxLeaveAll, Running, ApplicantState
<1>6. Cell(OnRJoinIn, b) \in Running
  BY DEF Cell, OnRJoinIn, Running, ApplicantState
<1>7. Cell(OnRIn, b) \in Running
  BY DEF Cell, OnRIn, Running, ApplicantState
<1>8. Cell(OnREmpty, b) \in Running
  BY DEF Cell, OnREmpty, Running, ApplicantState
<1>9. Cell(OnRLeave, b) \in Running
  BY DEF Cell, OnRLeave, Running, ApplicantState
<1>10. Cell(OnPeriodic, b) \in Running
  BY DEF Cell, OnPeriodic, Running, ApplicantState
<1>11. Cell([Start |-> "Vo"], b) \in Running
  BY DEF Cell, Running, ApplicantState
<1> QED BY <1>1, <1>2, <1>3, <1>4, <1>5, <1>6, <1>7, <1>8, <1>9, <1>10, <1>11

\* Only Leave! takes an Applicant to La, and tx! always takes it out.
LEMMA CellLa ==
    ASSUME NEW b \in Running
    PROVE  /\ \A i \in BOOLEAN : Cell(OnTx(i), b) # "La"
           /\ Cell(OnTxLeaveAll, b) # "La"
           /\ Cell(OnPeriodic, b) = "La" => b = "La"
<1>1. \A i \in BOOLEAN : Cell(OnTx(i), b) # "La"
  BY DEF Cell, OnTx, Running, ApplicantState
<1>2. Cell(OnTxLeaveAll, b) # "La"
  BY DEF Cell, OnTxLeaveAll, Running, ApplicantState
<1>3. Cell(OnPeriodic, b) = "La" => b = "La"
  BY DEF Cell, OnPeriodic, Running, ApplicantState
<1> QED BY <1>1, <1>2, <1>3

LEMMA ApplicantNextRuns ==
    ASSUME NEW s \in ApplicantState, NEW e
    PROVE  ApplicantNext(s, e) \in Running
BY BeginRuns, CellRuns, ZenonT(30) DEF ApplicantNext, ApplicantTable

LEMMA ApplicantNextLa ==
    ASSUME NEW s \in ApplicantState
    PROVE  /\ ApplicantNext(s, "TxRegistrarIn") # "La"
           /\ ApplicantNext(s, "TxRegistrarMt") # "La"
           /\ ApplicantNext(s, "TxLeaveAll") # "La"
           /\ ApplicantNext(s, "Periodic") = "La" => s = "La"
BY BeginRuns, CellLa, ZenonT(30) DEF ApplicantNext, ApplicantTable

LEMMA RegistrarNextType ==
    ASSUME NEW s \in RegistrarState, NEW e
    PROVE  RegistrarNext(s, e) \in RegistrarState \ {"Start"}
BY DEF RegistrarNext, RegistrarBegin, RegistrarState

LEMMA RegistrarNextIn ==
    ASSUME NEW s \in RegistrarState
    PROVE  /\ RegistrarNext(s, "LvTimer") # "Lv"
           /\ \A e \in RJoins : RegistrarNext(s, e) = "In"
           /\ \A e \in {"RLeave", "RLeaveAll"} :
                 /\ RegistrarNext(s, e) # "In"
                 /\ RegistrarNext(s, e) = "Lv" =>
                        s = "Lv" \/ LvTimerRequest(s, e)
                 /\ s = "Lv" => RegistrarNext(s, e) = "Lv"
BY DEF RegistrarNext, RegistrarBegin, RegistrarState, RJoins, RLeaves,
       LvTimerRequest

-----------------------------------------------------------------------------
(***************************************************************************)
(* Records.                                                                *)
(***************************************************************************)
\* What the invariants say of one record.
Good(a, r) ==
    /\ WellFormed(a, r)
    /\ r.reg = "In" => r.told
    /\ r.told => Present(r) /\ RegistrarIsRegistered(r)

\* q comes from r by a step of the Applicant alone.
Quiet(r, q) ==
    q.op = r.op /\ q.reg = r.reg /\ q.val = r.val /\ q.told = r.told

LEMMA ApplicantOnly ==
    ASSUME NEW a \in Attr, NEW r, Good(a, r), Present(r), NEW e
    PROVE  /\ Good(a, DispatchApplicant(r, e))
           /\ Quiet(r, DispatchApplicant(r, e))
           /\ DispatchApplicant(r, e).app = ApplicantNext(r.app, e)
<1>1. r \in Record(a) /\ r.app \in ApplicantState
  BY DEF Good, WellFormed, Record
<1>2. ApplicantNext(r.app, e) \in ApplicantState
  BY <1>1, ApplicantNextRuns DEF Running
<1> DEFINE q == DispatchApplicant(r, e)
<1>3. q \in Record(a)
  BY <1>1, <1>2 DEF DispatchApplicant, Record
<1>4. Quiet(r, q) /\ q.app = ApplicantNext(r.app, e)
  BY <1>1 DEF DispatchApplicant, Record, Quiet
<1> QED
  BY <1>3, <1>4 DEF Good, WellFormed, Quiet, Present, RegistrarIsRegistered

LEMMA WithdrawGood ==
    ASSUME NEW a \in Attr, NEW r, Good(a, r)
    PROVE  Good(a, WithdrawRecord(r)) /\ Quiet(r, WithdrawRecord(r))
BY ApplicantOnly DEF WithdrawRecord, Quiet

LEMMA TxLeaveAllGood ==
    ASSUME NEW a \in Attr, NEW r, Good(a, r)
    PROVE  /\ Good(a, TxLeaveAllRecord(r)) /\ Quiet(r, TxLeaveAllRecord(r))
           /\ TxLeaveAllRecord(r).app # "La"
<1>1. r.app \in ApplicantState /\ (~Present(r) => r.app = "Start")
  BY DEF Good, WellFormed, Record
<1> QED BY <1>1, ApplicantOnly, ApplicantNextLa DEF TxLeaveAllRecord, Quiet

LEMMA PeriodicGood ==
    ASSUME NEW a \in Attr, NEW r, Good(a, r)
    PROVE  /\ Good(a, PeriodicRecord(r)) /\ Quiet(r, PeriodicRecord(r))
           /\ PeriodicRecord(r).app = "La" => r.app = "La"
<1>1. r.app \in ApplicantState
  BY DEF Good, WellFormed, Record
<1> QED BY <1>1, ApplicantOnly, ApplicantNextLa DEF PeriodicRecord, Quiet

LEMMA TxGood ==
    ASSUME NEW a \in Attr, NEW r, Good(a, r)
    PROVE  /\ Good(a, TxRecord(r)) /\ Quiet(r, TxRecord(r))
           /\ TxRecord(r).app # "La"
<1>1. r.app \in ApplicantState /\ (~Present(r) => r.app = "Start")
  BY DEF Good, WellFormed, Record
<1> QED BY <1>1, ApplicantOnly, ApplicantNextLa DEF TxRecord, TxEvent, Quiet

LEMMA LeaveTimerGood ==
    ASSUME NEW a \in Attr, NEW r, Good(a, r)
    PROVE  LET q == LeaveTimerRecord(r) IN
           /\ Good(a, q)
           /\ q.op = r.op /\ q.val = r.val /\ q.app = r.app
           /\ q.reg # "Lv"
           /\ r.reg = "In" => q.reg = "In"
<1>1. r \in Record(a) /\ r.reg \in RegistrarState
  BY DEF Good, WellFormed, Record
<1>2. CASE Present(r) /\ r.reg = "Lv"
  <2> DEFINE x == RegistrarNext(r.reg, "LvTimer")
             q == LeaveTimerRecord(r)
  <2>1. x = "Mt"
    BY <1>2 DEF RegistrarNext, RegistrarBegin, RJoins, RLeaves
  <2>2. q = [[r EXCEPT !.reg = x] EXCEPT !.told = FALSE]
    BY <1>2 DEF LeaveTimerRecord, Told, DispatchRegistrar
  <2> HIDE DEF x
  <2>3. q \in Record(a) /\ q.reg = "Mt" /\ q.told = FALSE
          /\ q.op = r.op /\ q.val = r.val /\ q.app = r.app
    BY <2>1, <2>2, <1>1, ZenonT(30) DEF Record, RegistrarState
  <2> QED
    BY <2>3, <1>2 DEF Good, WellFormed, Present
<1>3. CASE ~(Present(r) /\ r.reg = "Lv")
  BY <1>3 DEF LeaveTimerRecord, Good, WellFormed
<1> QED BY <1>2, <1>3

LEMMA ReclaimGood ==
    ASSUME NEW a \in Attr, NEW r, Good(a, r)
    PROVE  LET q == ReclaimRecord(r) IN
           /\ Good(a, q)
           /\ q.op = "Declare" => r.op = "Declare" /\ q.val = r.val
           /\ Present(q) => Present(r)
           /\ q.app = "La" => r.app = "La"
           /\ q.reg = "Lv" => r.reg = "Lv"
           /\ r.reg = "In" => q.reg = "In"
<1>1. r \in Record(a) /\ r.told \in BOOLEAN
  BY DEF Good, WellFormed, Record
<1>2. CASE Present(r) /\ IsDead(r)
  <2>1. r.told = FALSE
    BY <1>1, <1>2 DEF IsDead, Good, RegistrarIsRegistered
  <2>2. ReclaimRecord(r) = NoRecord
    BY <1>2, <2>1, ZenonT(30) DEF ReclaimRecord, NoRecord
  <2>3. NoRecord \in Record(a)
    BY DEF NoRecord, Record, Operation, ApplicantState, RegistrarState
  <2> QED
    BY <1>2, <2>2, <2>3 DEF Good, WellFormed, NoRecord, Present, IsDead
<1>3. CASE ~(Present(r) /\ IsDead(r))
  BY <1>3 DEF ReclaimRecord
<1> QED BY <1>2, <1>3

LEMMA DeclareGood ==
    ASSUME NEW a \in Attr, NEW r, Good(a, r), NEW v \in Value(a)
    PROVE  LET q == DeclareRecord(r, v) IN
           /\ Good(a, q)
           /\ q.op = "Declare" /\ q.reg = r.reg
<1> DEFINE d == [FindOrCreate(r, v) EXCEPT !.op = "Declare", !.val = v]
<1>1. r \in Record(a)
  BY DEF Good, WellFormed
<1>2. d \in Record(a) /\ d.op = "Declare" /\ d.val = v /\ d.reg = r.reg
        /\ d.told = r.told
  BY <1>1, ZenonT(30) DEF FindOrCreate, Record, Operation
<1>3. Good(a, d) /\ Present(d)
  BY <1>2 DEF Good, WellFormed, Present, RegistrarIsRegistered
<1> HIDE DEF d
<1>4. \A e : Good(a, DispatchApplicant(d, e)) /\ Quiet(d, DispatchApplicant(d, e))
  BY <1>3, ApplicantOnly
<1> QED BY <1>2, <1>4 DEF DeclareRecord, Quiet, d

\* A received value leaves the record good, keeps what a local client
\* declared, and takes the Registrar to Lv only with a LeaveTimer request.
LEMMA RxGood ==
    ASSUME NEW a \in Attr, NEW r, Good(a, r),
           NEW ev \in AttributeEvent, NEW v \in Value(a)
    PROVE  LET q == RxRecord(a, r, ev, v) IN
           /\ Good(a, q)
           /\ q.op = "Declare" => r.op = "Declare" /\ q.val = r.val
           /\ q.reg = "Lv" => r.reg = "Lv" \/ RxRequestsLvTimer(r, ev)
<1> DEFINE f == FindOrCreate(r, v)
           g == IF f.op = "Register" THEN [f EXCEPT !.val = v] ELSE f
           h == DispatchApplicant(g, RxEvent(ev))
<1>1. r \in Record(a)
  BY DEF Good, WellFormed
<1>2. /\ f \in Record(a) /\ Present(f) /\ f.val \in Value(a)
      /\ f.reg = r.reg /\ f.told = r.told
      /\ f.op = "Declare" => r.op = "Declare" /\ f.val = r.val
  BY <1>1, ZenonT(30) DEF FindOrCreate, Record, Operation, Present, Good, WellFormed
<1> HIDE DEF f
<1>3. /\ g \in Record(a) /\ Present(g) /\ g.val \in Value(a)
      /\ g.reg = r.reg /\ g.told = r.told
      /\ g.op = "Declare" => r.op = "Declare" /\ g.val = r.val
  BY <1>2 DEF Record, Present
<1>4. Good(a, g)
  BY <1>2, <1>3 DEF Good, WellFormed, Present, RegistrarIsRegistered
<1> HIDE DEF g
<1>5. /\ Good(a, h) /\ Present(h) /\ h.reg = r.reg /\ h.told = r.told
      /\ h.op = "Declare" => r.op = "Declare" /\ h.val = r.val
  BY <1>3, <1>4, ApplicantOnly DEF Quiet, Present
<1>6. h \in Record(a) /\ h.reg \in RegistrarState /\ r.reg \in RegistrarState
  BY <1>1, <1>5 DEF Good, WellFormed, Record
<1> HIDE DEF h
<1>7. CASE ~ReachesRegistrar(ev)
  BY <1>5, <1>7 DEF RxRecord, h, g, f
<1>8. CASE ReachesRegistrar(ev)
  <2> DEFINE x == RegistrarNext(r.reg, RxEvent(ev))
             n == RxNotice(a, f, ev, v)
             k == [h EXCEPT !.reg = x]
             q == RxRecord(a, r, ev, v)
  <2>1. q = Told(k, n)
    BY <1>5, <1>8 DEF RxRecord, h, g, f, DispatchRegistrar
  <2>2. x \in RegistrarState
    BY <1>6, RegistrarNextType
  <2>3. x = "Lv" => r.reg = "Lv" \/ RxRequestsLvTimer(r, ev)
    BY <1>6, <1>8, RegistrarNextIn
    DEF RxEvent, ReachesRegistrar, AttributeEvent, RxRequestsLvTimer, RJoins
  \* Afterwards the observers are right: In was announced, and a Leave is
  \* announced as such unless the declaration changed with it.
  <2>4. x = "In" => n = "Register" \/ (n = "None" /\ r.reg = "In")
    BY <1>2, <1>6, <1>8, RegistrarNextIn
    DEF RxNotice, RxEvent, ReachesRegistrar, AttributeEvent, RegistrarNotify,
        RegistrarBegin, RegistrarIsIn, RJoins, RegistrarState
  <2>5. x = "Mt" => r.reg \in {"Start", "Mt"} /\ n # "Register"
    BY <1>2, <1>6, <1>8
    DEF RxNotice, RxEvent, ReachesRegistrar, AttributeEvent, RegistrarNotify,
        RegistrarNext, RegistrarBegin, RegistrarIsIn, RJoins, RLeaves,
        RegistrarState
  <2>6. x # "Start"
    BY <1>6, RegistrarNextType
  <2> HIDE DEF x, n
  <2>7. /\ k \in Record(a) /\ k.reg = x /\ k.told = r.told
        /\ k.op = h.op /\ k.val = h.val
    BY <1>5, <1>6, <2>2 DEF Record
  <2> HIDE DEF k
  <2>8. /\ q \in Record(a) /\ q.reg = x /\ q.op = h.op /\ q.val = h.val
        /\ q.told = (IF n = "Register" THEN TRUE
                     ELSE IF n = "Leave" THEN FALSE ELSE r.told)
    BY <2>1, <2>7, ZenonT(30) DEF Told, Record
  <2> HIDE DEF q
  <2>9. WellFormed(a, q)
    BY <1>5, <2>8 DEF WellFormed, Present, Good
  <2>10. q.reg = "In" => q.told
    BY <2>4, <2>8 DEF Good
  <2>11. q.told => Present(q) /\ RegistrarIsRegistered(q)
    BY <1>5, <1>6, <2>2, <2>5, <2>6, <2>8, ZenonT(30)
    DEF Good, Present, RegistrarIsRegistered, RegistrarState
  <2> QED
    BY <1>5, <2>3, <2>8, <2>9, <2>10, <2>11 DEF Good, q
<1> QED BY <1>7, <1>8

LEMMA RxLeaveAllGood ==
    ASSUME NEW a \in Attr, NEW r, Good(a, r)
    PROVE  LET q == RxLeaveAllRecord(r) IN
           /\ Good(a, q)
           /\ q.op = r.op /\ q.val = r.val /\ q.told = r.told
           /\ Present(r) => q.reg = RegistrarNext(r.reg, "RLeaveAll")
           /\ ~Present(r) => q = r
<1>1. CASE ~Present(r)
  BY <1>1 DEF RxLeaveAllRecord
<1>2. CASE Present(r)
  <2> DEFINE h == DispatchApplicant(r, "RLeaveAll")
             x == RegistrarNext(r.reg, "RLeaveAll")
             q == RxLeaveAllRecord(r)
  <2>1. Good(a, h) /\ Quiet(r, h)
    BY <1>2, ApplicantOnly
  <2>2. h \in Record(a) /\ r.reg \in RegistrarState
    BY <2>1 DEF Good, WellFormed, Record
  <2> HIDE DEF h
  <2>3. q = [h EXCEPT !.reg = x]
    BY <1>2, <2>1 DEF RxLeaveAllRecord, DispatchRegistrar, h, Quiet
  <2>4. /\ x \in RegistrarState /\ x # "In"
        /\ r.reg \in {"In", "Lv"} => x = "Lv"
    BY <2>2, RegistrarNextType, RegistrarNextIn
    DEF RegistrarNext, RegistrarBegin, RJoins, RLeaves
  <2> HIDE DEF x
  <2>5. /\ q \in Record(a) /\ q.reg = x /\ q.op = r.op /\ q.val = r.val
        /\ q.told = r.told
    BY <2>1, <2>2, <2>3, <2>4 DEF Record, Quiet
  <2> QED
    BY <1>2, <2>4, <2>5
    DEF Good, WellFormed, Present, RegistrarIsRegistered, x
<1> QED BY <1>1, <1>2

-----------------------------------------------------------------------------
(***************************************************************************)
(* Stages: operators from ports to ports.                                  *)
(***************************************************************************)
PortOK(p) == p \in Port /\ \A a \in Attr : Good(a, p.slot[a])

\* What every stage of a tick keeps: it starts no leaving on either side,
\* retires no registration, stops no timer, and neither makes nor changes a
\* local declaration.
Calm(p, q) ==
    /\ \A a \in Attr :
          /\ q.slot[a].op = "Declare" =>
                p.slot[a].op = "Declare" /\ q.slot[a].val = p.slot[a].val
          /\ Present(q.slot[a]) => Present(p.slot[a])
          /\ q.slot[a].app = "La" => p.slot[a].app = "La"
          /\ q.slot[a].reg = "Lv" => p.slot[a].reg = "Lv"
          /\ p.slot[a].reg = "In" => q.slot[a].reg = "In"
    /\ p.timer["join"] => q.timer["join"]
    /\ p.timer["leave"] => q.timer["leave"]

LEMMA CalmTrans ==
    ASSUME NEW p, NEW q, NEW r, Calm(p, q), Calm(q, r)
    PROVE  Calm(p, r)
BY DEF Calm

\* Replacing the records of a port.
LEMMA NewSlots ==
    ASSUME NEW p \in Port, NEW f, f = [a \in Attr |-> f[a]],
           \A a \in Attr : Good(a, f[a])
    PROVE  LET q == [p EXCEPT !.slot = f] IN
           /\ PortOK(q) /\ q.slot = f /\ q.timer = p.timer
           /\ q.lva = p.lva /\ q.per = p.per
<1>1. \A a \in Attr : f[a] \in UNION {Record(b) : b \in Attr}
  BY DEF Good, WellFormed
<1>2. f \in [Attr -> UNION {Record(b) : b \in Attr}]
  BY <1>1
<1> DEFINE q == [p EXCEPT !.slot = f]
<1>3. /\ q \in Port /\ q.slot = f /\ q.timer = p.timer
      /\ q.lva = p.lva /\ q.per = p.per
  BY <1>2, ZenonT(30) DEF Port
<1> QED BY <1>3 DEF PortOK

LEMMA StartTimerOK ==
    ASSUME NEW p, PortOK(p), NEW t \in Timer
    PROVE  LET q == StartTimer(p, t) IN
           /\ PortOK(q) /\ q.slot = p.slot /\ Calm(p, q)
           /\ q.timer = [p.timer EXCEPT ![t] = TRUE]
<1> DEFINE q == StartTimer(p, t)
<1>1. p \in Port
  BY DEF PortOK
<1>2. q \in Port /\ q.slot = p.slot /\ q.timer = [p.timer EXCEPT ![t] = TRUE]
  BY <1>1, ZenonT(30) DEF StartTimer, Port
<1>3. p.timer \in [Timer -> BOOLEAN]
  BY <1>1 DEF Port
<1>4. /\ p.timer["join"] => q.timer["join"]
      /\ p.timer["leave"] => q.timer["leave"]
  BY <1>2, <1>3 DEF Timer
<1> QED BY <1>2, <1>4 DEF PortOK, Calm

LEMMA DispatchOK ==
    ASSUME NEW p, PortOK(p), NEW e
    PROVE  /\ PortOK(DispatchLeaveAll(p, e)) /\ Calm(p, DispatchLeaveAll(p, e))
           /\ DispatchLeaveAll(p, e).slot = p.slot
           /\ PortOK(DispatchPeriodic(p, e)) /\ Calm(p, DispatchPeriodic(p, e))
           /\ DispatchPeriodic(p, e).slot = p.slot
<1>1. p \in Port /\ p.timer \in [Timer -> BOOLEAN]
  BY DEF PortOK, Port
<1>2. LeaveAllNext(p.lva, e) \in {"Start", "Passive", "Active"}
  BY <1>1 DEF LeaveAllNext, Port
<1>3. PeriodicNext(p.per, e) \in {"Start", "Passive", "Active"}
  BY <1>1 DEF PeriodicNext, Port
<1> DEFINE l == p.timer["leaveall"] \/ LeaveAllRestartsTimer(p.lva, e)
           m == p.timer["periodic"] \/ PeriodicRestartsTimer(p.per, e)
<1>4. l \in BOOLEAN /\ m \in BOOLEAN
  OBVIOUS
<1>5. /\ DispatchLeaveAll(p, e) = [p EXCEPT !.lva = LeaveAllNext(p.lva, e),
                                            !.timer["leaveall"] = l]
      /\ DispatchPeriodic(p, e) = [p EXCEPT !.per = PeriodicNext(p.per, e),
                                            !.timer["periodic"] = m]
  BY DEF DispatchLeaveAll, DispatchPeriodic
<1> HIDE DEF l, m
<1>6. ASSUME NEW x \in {"Start", "Passive", "Active"}, NEW b \in BOOLEAN,
             NEW t \in {"leaveall", "periodic"},
             NEW q, \/ q = [p EXCEPT !.lva = x, !.timer[t] = b]
                    \/ q = [p EXCEPT !.per = x, !.timer[t] = b]
      PROVE  PortOK(q) /\ Calm(p, q) /\ q.slot = p.slot
  <2> DEFINE u == [p.timer EXCEPT ![t] = b]
  <2>1. u \in [Timer -> BOOLEAN]
    BY <1>1, ZenonT(30)
  <2>2. u["join"] = p.timer["join"] /\ u["leave"] = p.timer["leave"]
    BY <1>1 DEF Timer
  <2>3. \/ q = [p EXCEPT !.lva = x, !.timer = u]
        \/ q = [p EXCEPT !.per = x, !.timer = u]
    BY <1>1, <1>6 DEF Port
  <2> HIDE DEF u
  <2>4. q \in Port /\ q.slot = p.slot /\ q.timer = u
    BY <1>1, <2>1, <2>3, ZenonT(30) DEF Port
  <2> QED BY <2>2, <2>4 DEF PortOK, Calm
<1>7. /\ PortOK(DispatchLeaveAll(p, e)) /\ Calm(p, DispatchLeaveAll(p, e))
      /\ DispatchLeaveAll(p, e).slot = p.slot
  BY <1>2, <1>4, <1>5, <1>6, ZenonT(30)
<1>8. /\ PortOK(DispatchPeriodic(p, e)) /\ Calm(p, DispatchPeriodic(p, e))
      /\ DispatchPeriodic(p, e).slot = p.slot
  BY <1>3, <1>4, <1>5, <1>6, ZenonT(30)
<1> QED BY <1>7, <1>8

\* tx! leaves no Applicant in La.
LEMMA AfterTxOK ==
    ASSUME NEW p, PortOK(p)
    PROVE  LET q == AfterTx(p) IN
           /\ PortOK(q) /\ Calm(p, q) /\ q.timer = p.timer
           /\ \A a \in Attr : q.slot[a].app # "La"
<1> DEFINE f == [a \in Attr |-> TxRecord(p.slot[a])]
<1>1. \A a \in Attr : /\ Good(a, f[a]) /\ Quiet(p.slot[a], f[a])
                      /\ f[a].app # "La"
  BY TxGood DEF PortOK
<1>2. f = [a \in Attr |-> f[a]] /\ p \in Port
  BY DEF PortOK
<1>3. AfterTx(p) = [p EXCEPT !.slot = f]
  BY DEF AfterTx
<1> HIDE DEF f
<1>4. /\ PortOK(AfterTx(p)) /\ AfterTx(p).slot = f
      /\ AfterTx(p).timer = p.timer
  BY <1>1, <1>2, <1>3, NewSlots
<1> QED BY <1>1, <1>4 DEF Calm, Quiet, Present

LEMMA OnLeaveAllTimerOK ==
    ASSUME NEW p, PortOK(p)
    PROVE  /\ PortOK(AfterLeaveAllTimer(p)) /\ Calm(p, AfterLeaveAllTimer(p))
           /\ PortOK(OnLeaveAllTimer(p)) /\ Calm(p, OnLeaveAllTimer(p))
<1> DEFINE q == DispatchLeaveAll(DispatchLeaveAll(p, "LvaTimer"), "Tx")
           f == [a \in Attr |-> TxLeaveAllRecord(q.slot[a])]
           r == [q EXCEPT !.slot = f]
<1>1. PortOK(q) /\ Calm(p, q)
  BY DispatchOK, CalmTrans
<1>2. AfterLeaveAllTimer(p) = IF SuppressLeaveAll THEN q ELSE r
  BY DEF AfterLeaveAllTimer
<1> HIDE DEF q
<1>3. \A a \in Attr : /\ Good(a, f[a]) /\ Quiet(q.slot[a], f[a])
                      /\ f[a].app # "La"
  BY <1>1, TxLeaveAllGood DEF PortOK
<1>4. f = [a \in Attr |-> f[a]] /\ q \in Port
  BY <1>1 DEF PortOK
<1> HIDE DEF f
<1>5. PortOK(r) /\ r.slot = f /\ r.timer = q.timer
  BY <1>3, <1>4, NewSlots
<1> HIDE DEF r
<1>6. Calm(q, r)
  BY <1>3, <1>5 DEF Calm, Quiet, Present
<1>7. PortOK(AfterLeaveAllTimer(p)) /\ Calm(p, AfterLeaveAllTimer(p))
  BY <1>1, <1>2, <1>5, <1>6, CalmTrans
<1> QED BY <1>7, AfterTxOK, CalmTrans DEF OnLeaveAllTimer

\* The LeaveTimer leaves no Registrar in Lv.
LEMMA OnLeaveTimerOK ==
    ASSUME NEW p, PortOK(p)
    PROVE  LET q == OnLeaveTimer(p, Types) IN
           /\ PortOK(q) /\ Calm(p, q)
           /\ \A a \in Attr : q.slot[a].reg # "Lv"
<1> DEFINE q == OnLeaveTimer(p, Types)
           f == [a \in Attr |-> IF a[1] \in Types THEN LeaveTimerRecord(p.slot[a])
                                ELSE p.slot[a]]
<1>1. \A a \in Attr : a[1] \in Types
  BY DEF Attr, Types, AttributeType
<1>2. \A a \in Attr : f[a] = LeaveTimerRecord(p.slot[a])
  BY <1>1
<1>3. f = [a \in Attr |-> f[a]] /\ p \in Port
  BY DEF PortOK
<1>4. q = [p EXCEPT !.slot = f]
  BY DEF OnLeaveTimer
<1> HIDE DEF f, q
<1>5. \A a \in Attr :
        /\ Good(a, f[a])
        /\ f[a].op = p.slot[a].op /\ f[a].val = p.slot[a].val
        /\ f[a].app = p.slot[a].app
        /\ f[a].reg # "Lv"
        /\ p.slot[a].reg = "In" => f[a].reg = "In"
  BY <1>2, LeaveTimerGood DEF PortOK
<1>6. PortOK(q) /\ q.slot = f /\ q.timer = p.timer
  BY <1>3, <1>4, <1>5, NewSlots
<1>7. Calm(p, q)
  BY <1>5, <1>6 DEF Calm, Present
<1> QED BY <1>5, <1>6, <1>7 DEF q

LEMMA OnPeriodicTimerOK ==
    ASSUME NEW p, PortOK(p)
    PROVE  PortOK(OnPeriodicTimer(p)) /\ Calm(p, OnPeriodicTimer(p))
<1> DEFINE q == DispatchPeriodic(p, "Periodic")
           f == [a \in Attr |-> PeriodicRecord(q.slot[a])]
           r == [q EXCEPT !.slot = f]
<1>1. PortOK(q) /\ Calm(p, q)
  BY DispatchOK
<1>2. OnPeriodicTimer(p) = StartTimer(r, "join")
  BY DEF OnPeriodicTimer
<1> HIDE DEF q
<1>3. \A a \in Attr : /\ Good(a, f[a]) /\ Quiet(q.slot[a], f[a])
                      /\ f[a].app = "La" => q.slot[a].app = "La"
  BY <1>1, PeriodicGood DEF PortOK
<1>4. f = [a \in Attr |-> f[a]] /\ q \in Port
  BY <1>1 DEF PortOK
<1> HIDE DEF f
<1>5. PortOK(r) /\ r.slot = f /\ r.timer = q.timer
  BY <1>3, <1>4, NewSlots
<1> HIDE DEF r
<1>6. Calm(q, r)
  BY <1>3, <1>5 DEF Calm, Quiet, Present
<1>7. PortOK(StartTimer(r, "join")) /\ Calm(r, StartTimer(r, "join"))
  BY <1>5, StartTimerOK, ZenonT(30) DEF Timer
<1> QED BY <1>1, <1>2, <1>6, <1>7, CalmTrans

LEMMA ReclaimOK ==
    ASSUME NEW p, PortOK(p)
    PROVE  PortOK(Reclaim(p)) /\ Calm(p, Reclaim(p))
<1> DEFINE f == [a \in Attr |-> ReclaimRecord(p.slot[a])]
<1>1. \A a \in Attr :
        /\ Good(a, f[a])
        /\ f[a].op = "Declare" =>
              p.slot[a].op = "Declare" /\ f[a].val = p.slot[a].val
        /\ Present(f[a]) => Present(p.slot[a])
        /\ f[a].app = "La" => p.slot[a].app = "La"
        /\ f[a].reg = "Lv" => p.slot[a].reg = "Lv"
        /\ p.slot[a].reg = "In" => f[a].reg = "In"
  BY ReclaimGood DEF PortOK
<1>2. f = [a \in Attr |-> f[a]] /\ p \in Port
  BY DEF PortOK
<1>3. Reclaim(p) = [p EXCEPT !.slot = f]
  BY DEF Reclaim
<1> HIDE DEF f
<1>4. PortOK(Reclaim(p)) /\ Reclaim(p).slot = f /\ Reclaim(p).timer = p.timer
  BY <1>1, <1>2, <1>3, NewSlots
<1> QED BY <1>1, <1>4 DEF Calm

LEMMA ClearOK ==
    ASSUME NEW p, PortOK(p), NEW E
    PROVE  LET q == Clear(p, E) IN
           /\ PortOK(q) /\ q.slot = p.slot
           /\ \A t \in Timer : p.timer[t] /\ t \notin E => q.timer[t]
<1> DEFINE u == [t \in Timer |-> p.timer[t] /\ t \notin E]
           q == Clear(p, E)
<1>1. p \in Port /\ p.timer \in [Timer -> BOOLEAN]
  BY DEF PortOK, Port
<1>2. u \in [Timer -> BOOLEAN] /\ q = [p EXCEPT !.timer = u]
  BY <1>1 DEF Clear
<1>3. \A t \in Timer : p.timer[t] /\ t \notin E => u[t]
  BY ZenonT(30)
<1> HIDE DEF u
<1>4. q \in Port /\ q.slot = p.slot /\ q.timer = u
  BY <1>1, <1>2 DEF Port
<1> QED BY <1>3, <1>4 DEF PortOK

LEMMA DeclareOK ==
    ASSUME NEW p, PortOK(p), NEW a \in Attr, NEW v \in Value(a)
    PROVE  LET q == Declare(p, a, v) IN
           /\ PortOK(q) /\ q.timer["join"]
           /\ p.timer["leave"] => q.timer["leave"]
           /\ \A b \in Attr : /\ q.slot[b].reg = p.slot[b].reg
                              /\ b # a => q.slot[b] = p.slot[b]
<1> DEFINE f == [p.slot EXCEPT ![a] = DeclareRecord(@, v)]
           r == [p EXCEPT !.slot = f]
           q == Declare(p, a, v)
<1>1. p \in Port /\ p.slot \in [Attr -> UNION {Record(b) : b \in Attr}]
  BY DEF PortOK, Port
<1>2. f = [b \in Attr |-> f[b]]
  BY <1>1
<1>3. /\ f[a] = DeclareRecord(p.slot[a], v)
      /\ \A b \in Attr : b # a => f[b] = p.slot[b]
  BY <1>1
<1>4. q = StartTimer(r, "join")
  BY <1>1 DEF Declare, Port
<1> HIDE DEF f
<1>5. \A b \in Attr : Good(b, f[b]) /\ f[b].reg = p.slot[b].reg
  BY <1>3, DeclareGood DEF PortOK
<1>6. PortOK(r) /\ r.slot = f /\ r.timer = p.timer
  BY <1>1, <1>2, <1>5, NewSlots
<1> HIDE DEF r
<1>7. /\ PortOK(q) /\ q.slot = f /\ Calm(r, q)
      /\ q.timer = [r.timer EXCEPT !["join"] = TRUE]
  BY <1>4, <1>6, StartTimerOK, ZenonT(30) DEF Timer
<1>8. q.timer["join"]
  BY <1>6, <1>7, <1>1 DEF Port, Timer
<1> QED BY <1>3, <1>5, <1>6, <1>7, <1>8 DEF Calm

LEMMA WithdrawOK ==
    ASSUME NEW p, PortOK(p), NEW A
    PROVE  LET q == Withdraw(p, A) IN
           /\ PortOK(q)
           /\ p.timer["join"] => q.timer["join"]
           /\ p.timer["leave"] => q.timer["leave"]
           /\ \A b \in Attr : /\ q.slot[b].reg = p.slot[b].reg
                              /\ q.slot[b].op = p.slot[b].op
                              /\ q.slot[b].app = "La" =>
                                    p.slot[b].app = "La" \/ q.timer["join"]
<1> DEFINE f == [a \in Attr |-> IF a \in A THEN WithdrawRecord(p.slot[a])
                                ELSE p.slot[a]]
           r == [p EXCEPT !.slot = f]
           q == Withdraw(p, A)
<1>1. p \in Port /\ p.timer \in [Timer -> BOOLEAN]
  BY DEF PortOK, Port
<1>2. f = [b \in Attr |-> f[b]]
  OBVIOUS
<1>3. \A b \in Attr : /\ Good(b, f[b]) /\ f[b].reg = p.slot[b].reg
                      /\ f[b].op = p.slot[b].op
  BY WithdrawGood DEF PortOK, Quiet
<1>4. q = StartTimer(r, "join") \/ q = p
  BY DEF Withdraw
<1> HIDE DEF f
<1>5. PortOK(r) /\ r.slot = f /\ r.timer = p.timer
  BY <1>1, <1>2, <1>3, NewSlots
<1> HIDE DEF r, q
<1>6. CASE q = p
  BY <1>6 DEF q
<1>7. CASE q = StartTimer(r, "join")
  <2>1. /\ PortOK(q) /\ q.slot = f /\ Calm(r, q)
        /\ q.timer = [r.timer EXCEPT !["join"] = TRUE]
    BY <1>5, <1>7, StartTimerOK, ZenonT(30) DEF Timer
  <2>2. q.timer["join"]
    BY <1>1, <1>5, <2>1 DEF Timer
  <2> QED BY <1>3, <1>5, <2>1, <2>2 DEF Calm, q
<1> QED BY <1>4, <1>6, <1>7

\* The PDUs the decoder makes of a frame.
PduValues(d) ==
    \A a \in DOMAIN d.msg : d.msg[a].ev \in AttributeEvent /\ d.msg[a].val \in Value(a)

LEMMA RxSlotGood ==
    ASSUME NEW d, PduValues(d), NEW a \in Attr, NEW r, Good(a, r), NEW admitted
    PROVE  LET q == RxSlot(a, r, d, admitted) IN
           /\ Good(a, q)
           /\ q.op = "Declare" => r.op = "Declare" /\ q.val = r.val
           /\ Present(q) => Present(r) \/ a \in admitted
           /\ q.reg = "Lv" => r.reg = "Lv" \/ SlotRequestsLvTimer(a, r, d)
<1> DEFINE k == IF a[1] \in d.la THEN RxLeaveAllRecord(r) ELSE r
           q == RxSlot(a, r, d, admitted)
           mine == a \in DOMAIN d.msg /\ (Present(k) \/ a \in admitted)
<1>1. r.reg \in RegistrarState /\ (~Present(r) => r.reg = "Start")
  BY DEF Good, WellFormed, Record
<1>2. Good(a, k) /\ k.op = r.op /\ k.val = r.val
  BY RxLeaveAllGood
<1>3. k.reg = "Lv" =>
        \/ r.reg = "Lv"
        \/ a[1] \in d.la /\ Present(r) /\ LvTimerRequest(r.reg, "RLeaveAll")
  BY <1>1, RxLeaveAllGood, RegistrarNextIn
<1>4. a[1] \in d.la => k.reg # "In"
  BY <1>1, RxLeaveAllGood, RegistrarNextIn
<1>5. q = IF mine THEN RxRecord(a, k, d.msg[a].ev, d.msg[a].val) ELSE k
  BY DEF RxSlot
<1>6. a[1] \notin d.la => k = r
  OBVIOUS
<1> HIDE DEF k, q
<1>7. CASE ~mine
  BY <1>2, <1>3, <1>5, <1>7 DEF SlotRequestsLvTimer, Present, q
<1>8. CASE mine
  <2>1. /\ Good(a, q)
        /\ q.op = "Declare" => k.op = "Declare" /\ q.val = k.val
        /\ q.reg = "Lv" => k.reg = "Lv" \/ RxRequestsLvTimer(k, d.msg[a].ev)
    BY <1>2, <1>5, <1>8, RxGood DEF PduValues
  <2>2. RxRequestsLvTimer(k, d.msg[a].ev) => k.reg = "In"
    BY <1>2 DEF RxRequestsLvTimer, LvTimerRequest, RegistrarBegin
  <2>3. RxRequestsLvTimer(k, d.msg[a].ev) =>
          a[1] \notin d.la /\ k = r /\ Present(r)
    BY <1>1, <1>4, <1>6, <2>2
  <2>4. Present(r) \/ a \in admitted
    BY <1>2, <1>8 DEF Present
  <2> QED BY <1>2, <1>3, <1>8, <2>1, <2>3, <2>4 DEF SlotRequestsLvTimer, q
<1> QED BY <1>7, <1>8

LEMMA InitPortOK ==
    /\ PortOK(InitPort)
    /\ \A a \in Attr : /\ InitPort.slot[a].op = "Absent" /\ InitPort.slot[a].app = "Start"
                        /\ InitPort.slot[a].reg = "Start"
<1>1. \A a \in Attr : NoRecord \in Record(a)
  BY DEF NoRecord, Record, Operation, ApplicantState, RegistrarState
<1>2. \A a \in Attr : Good(a, NoRecord)
  BY <1>1, ZenonT(30) DEF Good, WellFormed, NoRecord, Present
<1>3. LeaveAllNext("Start", "UCT") = "Passive" /\ PeriodicNext("Start", "UCT") = "Active"
  BY DEF LeaveAllNext, PeriodicNext
<1> DEFINE f == [a \in Attr |-> NoRecord]
           u == [t \in Timer |-> t \in {"leaveall", "periodic"}]
<1>4. InitPort = [slot |-> f, timer |-> u, lva |-> "Passive", per |-> "Active"]
  BY <1>3 DEF InitPort
<1>5. f \in [Attr -> UNION {Record(a) : a \in Attr}] /\ u \in [Timer -> BOOLEAN]
  BY <1>1
<1>6. \A a \in Attr : f[a] = NoRecord
  OBVIOUS
<1> HIDE DEF f, u
<1>7. InitPort \in Port /\ InitPort.slot = f
  BY <1>4, <1>5 DEF Port
<1>8. NoRecord.op = "Absent" /\ NoRecord.app = "Start" /\ NoRecord.reg = "Start"
  BY DEF NoRecord
<1>9. PortOK(InitPort)
  BY <1>2, <1>6, <1>7 DEF PortOK
<1> QED BY <1>6, <1>7, <1>8, <1>9

LEMMA AfterTxSlots ==
    ASSUME NEW p, PortOK(p)
    PROVE  \A a \in Attr : AfterTx(p).slot[a] = TxRecord(p.slot[a])
BY DEF AfterTx, PortOK, Port

=============================================================================
