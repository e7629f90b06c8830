------------------------------ MODULE MsrpPort ------------------------------
(***************************************************************************)
(* One MSRP attribute record and the steps MsrpParticipantT takes on it    *)
(* (src/statusbar/srp/srp_msrp_participant.{hpp,cpp}).  The participant    *)
(* treats its records independently of one another: a handler is a         *)
(* pointwise application of these operators plus the port's timers, which  *)
(* the second half adds.                                                   *)
(*                                                                         *)
(* A record is                                                             *)
(*   op    "Absent" (no such record), "Register" (learnt from the peer) or *)
(*         "Declare" (declared by a local client);                         *)
(*   app   state of its Applicant,  reg  state of its Registrar;           *)
(*   val   first value, or for a Listener its declaration (substate);      *)
(*   told  whether the last observer notification about this record said   *)
(*         that the peer's attribute is registered (a history variable).   *)
(***************************************************************************)
EXTENDS MrpFsm, Naturals, FiniteSets, Sequences

CONSTANTS Streams,    \* StreamIDs
          Classes,    \* SR class ids, the keys of Domain records
          Payload,    \* first values of talker and domain attributes
          NoValue     \* the value of a record that does not exist

ASSUME RecordAssumption == IsFiniteSet(Streams) /\ IsFiniteSet(Classes)

ListenerDeclaration == {"Ignore", "AskingFailed", "Ready", "ReadyFailed"}

\* The order in which a PDU lists, and the participant visits, the types.
AttributeType == <<"TalkerAdvertise", "TalkerFailed", "Listener", "Domain">>

Attr == ({"TalkerAdvertise", "TalkerFailed", "Listener"} \X Streams)
            \cup ({"Domain"} \X Classes)

Value(a) == IF a[1] = "Listener" THEN ListenerDeclaration ELSE Payload

Operation == {"Absent", "Register", "Declare"}

Record(a) == [op : Operation, app : ApplicantState, reg : RegistrarState,
              val : Value(a) \cup {NoValue}, told : BOOLEAN]

NoRecord == [op |-> "Absent", app |-> "Start", reg |-> "Start",
             val |-> NoValue, told |-> FALSE]

Present(r) == r.op # "Absent"

\* A record has a value of its type; where there is none, nothing is left.
WellFormed(a, r) ==
    /\ r \in Record(a)
    /\ IF Present(r) THEN r.val \in Value(a)
       ELSE r.app = "Start" /\ r.reg = "Start" /\ r.val = NoValue

\* find_or_create: a record the table does not have starts from scratch.
FindOrCreate(r, v) ==
    IF Present(r) THEN r ELSE [r EXCEPT !.op = "Register", !.val = v]

DispatchApplicant(r, e) == [r EXCEPT !.app = ApplicantNext(r.app, e)]

DispatchRegistrar(r, e) == [r EXCEPT !.reg = RegistrarNext(r.reg, e)]

RegistrarIsIn(r) == r.reg = "In"

RegistrarIsRegistered(r) == r.reg \in {"In", "Lv"}

IsDead(r) == r.app = "Vo" /\ r.reg = "Mt"

-----------------------------------------------------------------------------
(***************************************************************************)
(* Local declarations.                                                     *)
(***************************************************************************)
\* Evaluated by every declare_* on the record it has already marked Declare.
FirstDeclareEvent(r) ==
    IF r.op = "Register" /\ r.app \in {"Start", "Vo"} THEN "New" ELSE "Join"

DeclareRecord(r, v) ==
    LET d == [FindOrCreate(r, v) EXCEPT !.op = "Declare", !.val = v]
    IN  DispatchApplicant(d, FirstDeclareEvent(d))

WithdrawRecord(r) == IF Present(r) THEN DispatchApplicant(r, "Leave") ELSE r

-----------------------------------------------------------------------------
(***************************************************************************)
(* Reception of one value of a PDU.                                        *)
(***************************************************************************)
RxEvent(ev) ==
    CASE ev = "New"    -> "RNew"
      [] ev = "JoinIn" -> "RJoinIn"
      [] ev = "In"     -> "RIn"
      [] ev = "JoinMt" -> "RJoinMt"
      [] ev = "Mt"     -> "RMt"
      [] ev = "Lv"     -> "RLeave"

\* rIn! and rMt! stop at the Applicant.
ReachesRegistrar(ev) == ev \notin {"In", "Mt"}

\* The observer callback a received value gives rise to.  A Listener whose
\* declaration changes while it is registered is announced as registered,
\* whatever the event.
RxNotice(a, r, ev, v) ==
    LET n == RegistrarNotify(r.reg, RxEvent(ev)) IN
    CASE ~ReachesRegistrar(ev)                               -> "None"
      [] n \in {"New", "Join"}                               -> "Register"
      [] a[1] = "Listener" /\ RegistrarIsIn(r) /\ r.val # v  -> "Register"
      [] n = "Leave" /\ RegistrarIsIn(r)                     -> "Leave"
      [] OTHER                                               -> "None"

Told(r, notice) ==
    CASE notice = "Register" -> [r EXCEPT !.told = TRUE]
      [] notice = "Leave"    -> [r EXCEPT !.told = FALSE]
      [] OTHER               -> r

RxRecord_mutAdoptsAlways(a, r, ev, v) ==
    LET g == [FindOrCreate(r, v) EXCEPT !.val = v]
        h == DispatchApplicant(g, RxEvent(ev))
    IN  IF ReachesRegistrar(ev)
        THEN Told(DispatchRegistrar(h, RxEvent(ev)), RxNotice(a, r, ev, v))
        ELSE h

\* handle_peer_attr_rx and handle_listener_rx: the peer's value is adopted
\* only by a record no local client declares.
RxRecord(a, r, ev, v) ==
    LET f == FindOrCreate(r, v)
        g == IF f.op = "Register" THEN [f EXCEPT !.val = v] ELSE f
        h == DispatchApplicant(g, RxEvent(ev))
    IN  IF ReachesRegistrar(ev)
        THEN Told(DispatchRegistrar(h, RxEvent(ev)), RxNotice(a, f, ev, v))
        ELSE h

RxRequestsLvTimer(r, ev) ==
    ReachesRegistrar(ev) /\ LvTimerRequest(r.reg, RxEvent(ev))

RxLeaveAllRecord(r) ==
    IF Present(r)
    THEN DispatchRegistrar(DispatchApplicant(r, "RLeaveAll"), "RLeaveAll")
    ELSE r

-----------------------------------------------------------------------------
(***************************************************************************)
(* Timers and transmission.                                                *)
(***************************************************************************)
LeaveTimerRecord_mutSilent(r) ==
    IF Present(r) /\ r.reg = "Lv" THEN DispatchRegistrar(r, "LvTimer") ELSE r

LeaveTimerRecord(r) ==
    IF Present(r) /\ r.reg = "Lv"
    THEN Told(DispatchRegistrar(r, "LvTimer"), "Leave")
    ELSE r

TxLeaveAllRecord_mutAgesRegistrar(r) ==
    IF Present(r)
    THEN DispatchRegistrar(DispatchApplicant(r, "TxLeaveAll"), "TxLeaveAll")
    ELSE r

\* The Registrar is deliberately left alone by this station's own LeaveAll.
TxLeaveAllRecord(r) ==
    IF Present(r) THEN DispatchApplicant(r, "TxLeaveAll") ELSE r

PeriodicRecord(r) ==
    IF Present(r) THEN DispatchApplicant(r, "Periodic") ELSE r

TxEvent(r) == IF RegistrarIsIn(r) THEN "TxRegistrarIn" ELSE "TxRegistrarMt"

TxRecord(r) == IF Present(r) THEN DispatchApplicant(r, TxEvent(r)) ELSE r

\* translate_sndmsg: the wire event of a record about to be given tx!.
WireEvent(r) ==
    LET m == SendMessage(r.app) IN
    CASE m = "New"   -> "New"
      [] m = "Join"  -> IF RegistrarIsIn(r) THEN "JoinIn" ELSE "JoinMt"
      [] m = "Leave" -> "Lv"
      [] m = "In"    -> IF RegistrarIsIn(r) THEN "In" ELSE "Mt"

\* The observers' memory outlives the record.
ReclaimRecord(r) ==
    IF Present(r) /\ IsDead(r) THEN [NoRecord EXCEPT !.told = r.told] ELSE r

-----------------------------------------------------------------------------
(***************************************************************************)
(* The per-port MSRP engine as operators on a port value: every entry      *)
(* point of MsrpParticipantT (src/statusbar/srp/srp_msrp_participant.cpp)  *)
(* with the PortState it drives (srp_mrp_participant.cpp) and the timers   *)
(* (srp_mrp_timers.cpp).  A port is                                        *)
(*   slot      the record of every attribute;                              *)
(*   join, leave, leaveall, periodic   whether that timer is running;      *)
(*   lva, per  states of the LeaveAll and of the Periodic machine.         *)
(* Deadlines are abstracted: a tick may find any set of the running timers *)
(* expired.                                                                *)
(*                                                                         *)
(* A PDU is [la, msg]: la is the set of attribute types whose message has  *)
(* the LeaveAll flag set, msg a function from the attributes it mentions   *)
(* to [ev, val].  Types are visited in the order of AttributeType, and a   *)
(* type's LeaveAll precedes its values.  StreamIDs are not consecutive, so *)
(* every value is a vector of its own.                                     *)
(***************************************************************************)
CONSTANTS MaxRecords,        \* capacity of the table of each attribute type
          MaxPdu,            \* MAX_PDU_BYTES
          RedeclareRegisteredListeners,   \* the sticky-Listener setting
          SuppressLeaveAll                \* the suppress-LeaveAll setting

Types == {AttributeType[i] : i \in 1..4}

ASSUME PortAssumption ==
    /\ MaxRecords \in [Types -> Nat]
    /\ MaxPdu \in Nat
    /\ RedeclareRegisteredListeners \in BOOLEAN
    /\ SuppressLeaveAll \in BOOLEAN

Timer == {"join", "leave", "leaveall", "periodic"}

Port == [slot : [Attr -> UNION {Record(a) : a \in Attr}],
         timer : [Timer -> BOOLEAN],
         lva : {"Start", "Passive", "Active"},
         per : {"Start", "Passive", "Active"}]

\* Construction followed by start(): both machines run BEGIN! and arm their
\* timer.
InitPort == [slot  |-> [a \in Attr |-> NoRecord],
             timer |-> [t \in Timer |-> t \in {"leaveall", "periodic"}],
             lva   |-> LeaveAllNext("Start", "UCT"),
             per   |-> PeriodicNext("Start", "UCT")]

StartTimer(p, t) == [p EXCEPT !.timer[t] = TRUE]

DispatchLeaveAll(p, e) ==
    [p EXCEPT !.lva = LeaveAllNext(p.lva, e),
              !.timer["leaveall"] = @ \/ LeaveAllRestartsTimer(p.lva, e)]

DispatchPeriodic(p, e) ==
    [p EXCEPT !.per = PeriodicNext(p.per, e),
              !.timer["periodic"] = @ \/ PeriodicRestartsTimer(p.per, e)]

-----------------------------------------------------------------------------
(***************************************************************************)
(* Local declarations.                                                     *)
(***************************************************************************)
TableOf(p, t) == {a \in Attr : a[1] = t /\ Present(p.slot[a])}

HasRoom(p, a) ==
    Present(p.slot[a]) \/ Cardinality(TableOf(p, a[1])) < MaxRecords[a[1]]

\* declare_talker_advertise, declare_talker_failed, declare_listener and
\* declare_domain; a full table makes them fail without effect.
Declare(p, a, v) ==
    StartTimer([p EXCEPT !.slot[a] = DeclareRecord(@, v)], "join")

\* withdraw_talker (A is both talker attributes of a stream),
\* withdraw_listener and withdraw_domain.
Withdraw(p, A) ==
    IF \E a \in A : Present(p.slot[a])
    THEN StartTimer([p EXCEPT !.slot = [a \in Attr |->
             IF a \in A THEN WithdrawRecord(p.slot[a]) ELSE p.slot[a]]], "join")
    ELSE p

-----------------------------------------------------------------------------
(***************************************************************************)
(* Transmission.                                                           *)
(***************************************************************************)

MayEmit(a, r) ==
    \/ r.op = "Declare"
    \/ r.op = "Register" /\ a[1] = "Listener" /\ RedeclareRegisteredListeners

AttributeLength(t) ==
    CASE t = "TalkerAdvertise" -> 25
      [] t = "TalkerFailed"    -> 34
      [] t = "Listener"        -> 8
      [] t = "Domain"          -> 4

\* run_encoded_size of a vector with one value.
VectorSize(t) == 2 + AttributeLength(t) + 1 + (IF t = "Listener" THEN 1 ELSE 0)

Emittable(p, t) == {a \in Attr : a[1] = t /\ MayEmit(a, p.slot[a])}

\* Header, vectors and EndMark of the message of type t; 0 for no message.
MessageSize(p, t) ==
    LET n == Cardinality(Emittable(p, t))
    IN  IF n = 0 THEN 0 ELSE 4 + n * VectorSize(t) + 2

\* Bytes in the buffer after the first i types: a message that leaves no
\* room for the final EndMark is skipped as a whole.
BytesAfter(p) ==
    LET bytes[i \in 0..4] ==
            IF i = 0 THEN 1
            ELSE LET size == MessageSize(p, AttributeType[i])
                 IN  IF bytes[i - 1] + size + 2 > MaxPdu THEN bytes[i - 1]
                     ELSE bytes[i - 1] + size
    IN  bytes

Emitted(p) ==
    {i \in 1..4 : LET size == MessageSize(p, AttributeType[i])
                  IN  size > 0 /\ BytesAfter(p)[i - 1] + size + 2 <= MaxPdu}

\* The LeaveAll flag rides the first emitted type that re-declares something;
\* with nothing else to send, an empty TalkerAdvertise message carries it.
CarriesLeaveAll(p) ==
    LET carriers == {i \in Emitted(p) :
                        \E a \in Emittable(p, AttributeType[i]) :
                            p.slot[a].op = "Declare"}
        bare == /\ Emitted(p) = {}
                /\ Emittable(p, "TalkerAdvertise") = {}
                /\ 1 + 10 <= MaxPdu
    IN  IF carriers # {}
        THEN {AttributeType[CHOOSE i \in carriers :
                                \A j \in carriers : i <= j]}
        ELSE IF bare THEN {"TalkerAdvertise"} ELSE {}

Pdu(p, leaveAll) ==
    LET sent == UNION {Emittable(p, AttributeType[i]) : i \in Emitted(p)} IN
    [la  |-> IF leaveAll THEN CarriesLeaveAll(p) ELSE {},
     msg |-> [a \in sent |-> [ev  |-> WireEvent(p.slot[a]),
                              val |-> p.slot[a].val]]]

\* build_and_send_pdu: tx! to every Applicant whatever becomes of the
\* message, then the PDU, unless it would be empty.
AfterTx(p) == [p EXCEPT !.slot = [a \in Attr |-> TxRecord(p.slot[a])]]

Sent(p, leaveAll) ==
    LET d == Pdu(p, leaveAll)
    IN  IF d.la = {} /\ DOMAIN d.msg = {} THEN <<>> ELSE <<d>>

-----------------------------------------------------------------------------
(***************************************************************************)
(* Timer expiry.  The stages of a tick follow one another in this order;   *)
(* tick() itself has cleared the timers that expired.                      *)
(***************************************************************************)
Clear(p, E) == [p EXCEPT !.timer = [t \in Timer |-> p.timer[t] /\ t \notin E]]

\* on_leaveall_timer up to build_and_send_pdu; the flag it passes on.
AfterLeaveAllTimer(p) ==
    LET q == DispatchLeaveAll(DispatchLeaveAll(p, "LvaTimer"), "Tx")
    IN  IF SuppressLeaveAll THEN q
        ELSE [q EXCEPT !.slot = [a \in Attr |-> TxLeaveAllRecord(q.slot[a])]]

LeaveAllFlag(p) ==
    ~SuppressLeaveAll /\ TxLeaveAllPending(LeaveAllNext(p.lva, "LvaTimer"), "Tx")

OnLeaveAllTimer(p) == AfterTx(AfterLeaveAllTimer(p))

OnLeaveTimer(p, T) ==
    [p EXCEPT !.slot = [a \in Attr |->
        IF a[1] \in T THEN LeaveTimerRecord(p.slot[a]) ELSE p.slot[a]]]

OnPeriodicTimer(p) ==
    LET q == DispatchPeriodic(p, "Periodic")
    IN  StartTimer([q EXCEPT !.slot = [a \in Attr |-> PeriodicRecord(q.slot[a])]],
                   "join")

Reclaim(p) == [p EXCEPT !.slot = [a \in Attr |-> ReclaimRecord(p.slot[a])]]

-----------------------------------------------------------------------------
(***************************************************************************)
(* Reception.  T is the set of types processed; admitted is the set of     *)
(* attributes for which find_or_create makes a new record.                 *)
(***************************************************************************)
Unknown(p, d) == {a \in DOMAIN d.msg : ~Present(p.slot[a])}

\* Each table takes new records until it is full; the rest is dropped.
Admissions(p, d) ==
    {admitted \in SUBSET Unknown(p, d) :
        \A t \in {a[1] : a \in Unknown(p, d)} :
            LET fresh == {a \in Unknown(p, d) : a[1] = t}
                taken == Cardinality(TableOf(p, t))
                            + Cardinality(fresh \cap admitted)
            IN  /\ taken <= MaxRecords[t] \/ fresh \cap admitted = {}
                /\ fresh \subseteq admitted \/ taken >= MaxRecords[t]}

\* decode_vector_attribute for one record of a type it visits.
RxSlot(a, r, d, admitted) ==
    LET q == IF a[1] \in d.la THEN RxLeaveAllRecord(r) ELSE r
    IN  IF a \in DOMAIN d.msg /\ (Present(q) \/ a \in admitted)
        THEN RxRecord(a, q, d.msg[a].ev, d.msg[a].val)
        ELSE q

\* Whether a record's Registrar leaves In on the way, which is when it asks
\* for the LeaveTimer.
SlotRequestsLvTimer(a, r, d) ==
    \/ a[1] \in d.la /\ Present(r) /\ LvTimerRequest(r.reg, "RLeaveAll")
    \/ /\ a[1] \notin d.la /\ Present(r) /\ a \in DOMAIN d.msg
       /\ RxRequestsLvTimer(r, d.msg[a].ev)

RxTypes(p, d, admitted, T) ==
    LET visited == {a \in Attr : a[1] \in T}
        q == IF d.la \cap T = {} THEN p ELSE DispatchLeaveAll(p, "RLeaveAll")
    IN  [q EXCEPT
            !.slot = [a \in Attr |-> IF a \in visited
                                     THEN RxSlot(a, p.slot[a], d, admitted)
                                     ELSE p.slot[a]],
            !.timer["leave"] =
                @ \/ \E a \in visited : SlotRequestsLvTimer(a, p.slot[a], d)]

\* The end of receive_pdu: a LeaveAll is answered at once.
AfterRx(p, d) == StartTimer(IF d.la = {} THEN p ELSE AfterTx(p), "join")

RxAnswer_mutWaitsForJoin(p, d) == <<>>

RxAnswer(p, d) == IF d.la = {} THEN <<>> ELSE Sent(p, FALSE)

-----------------------------------------------------------------------------
\* listener_permits_transmit: the talker's transmit gate for a stream.
ListenerPermitsTransmit(p, s) ==
    LET r == p.slot[<<"Listener", s>>]
    IN  /\ r.op = "Register"
        /\ RegistrarIsRegistered(r)
        /\ r.val \in {"Ready", "ReadyFailed"}
=============================================================================
