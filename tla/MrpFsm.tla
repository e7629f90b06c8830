------------------------------- MODULE MrpFsm -------------------------------
(***************************************************************************)
(* The four Multiple Registration Protocol state machines of               *)
(* src/statusbar/srp, as pure tables.  A table is a record from states to  *)
(* states: a state that is not a field of the record has no cell in the    *)
(* C++ table, and the event leaves it alone.                               *)
(*                                                                         *)
(* A machine is created in the pseudo-state Start; the first event it is   *)
(* given fires the UCT cell before the event itself, which is what         *)
(* ApplicantBegin and RegistrarBegin do.                                   *)
(***************************************************************************)

ApplicantState == {"Start", "Vo", "Vp", "Vn", "An", "Aa", "Qa", "La",
                   "Ao", "Qo", "Ap", "Qp", "Lo"}

RegistrarState == {"Start", "In", "Lv", "Mt"}

\* The events of the wire: mrp::AttributeEvent.
AttributeEvent == {"New", "JoinIn", "In", "JoinMt", "Mt", "Lv"}

\* The cell of a table for state s, or s itself where the table has none.
Cell(table, s) == IF s \in DOMAIN table THEN table[s] ELSE s

-----------------------------------------------------------------------------
(***************************************************************************)
(* Applicant: what this station declares.                                  *)
(***************************************************************************)
ApplicantBegin(s) == IF s = "Start" THEN "Vo" ELSE s

OnNew == [Vo |-> "Vn", Vp |-> "Vn", Aa |-> "Vn", Qa |-> "Vn", La |-> "Vn",
          Ao |-> "Vn", Qo |-> "Vn", Ap |-> "Vn", Qp |-> "Vn", Lo |-> "Vn"]

OnJoin == [Lo |-> "Vp", Vo |-> "Vp", La |-> "Aa", Ao |-> "Ap", Qo |-> "Qp"]

OnLeave == [Vn |-> "La", An |-> "La", Aa |-> "La", Qa |-> "La",
            Vp |-> "Vo", Ap |-> "Ao", Qp |-> "Qo"]

\* tx! for both Registrar variants; they differ in state An only.
OnTx(registrarIn) ==
    [Vp |-> "Aa", Vn |-> "An", Aa |-> "Qa", Ap |-> "Qa", La |-> "Vo",
     Lo |-> "Vo", An |-> IF registrarIn THEN "Qa" ELSE "Aa"]

OnTxLeaveAll == [Vo |-> "Lo", Vp |-> "Aa", Vn |-> "An", An |-> "Qa",
                 Qp |-> "Qa", Ap |-> "Qa", Aa |-> "Qa", La |-> "Lo",
                 Ao |-> "Lo", Qo |-> "Lo"]

OnRJoinIn == [Aa |-> "Qa", Ao |-> "Qo", Ap |-> "Qp"]

OnRIn == [Aa |-> "Qa"]

\* rJoinMt! and rMt! share their cells.
OnREmpty == [Qa |-> "Aa", Qo |-> "Ao", Qp |-> "Ap", Lo |-> "Vo"]

\* rLv!, rLA! and ReDeclare! share their cells.
OnRLeave == [Vo |-> "Lo", An |-> "Vn", Qa |-> "Vp", Aa |-> "Vp",
             Ao |-> "Lo", Qo |-> "Lo", Ap |-> "Vp", Qp |-> "Vp"]

OnPeriodic == [Qa |-> "Aa", Qp |-> "Ap"]

ApplicantTable(e) ==
    CASE e = "New"             -> OnNew
      [] e = "Join"            -> OnJoin
      [] e = "Leave"           -> OnLeave
      [] e = "TxRegistrarIn"   -> OnTx(TRUE)
      [] e = "TxRegistrarMt"   -> OnTx(FALSE)
      [] e = "TxLeaveAll"      -> OnTxLeaveAll
      [] e = "RJoinIn"         -> OnRJoinIn
      [] e = "RIn"             -> OnRIn
      [] e \in {"RJoinMt", "RMt"}      -> OnREmpty
      [] e \in {"RLeave", "RLeaveAll"} -> OnRLeave
      [] e = "Periodic"        -> OnPeriodic
      [] OTHER                 -> [Start |-> "Vo"]     \* UCT and rNew!

ApplicantNext(s, e) == Cell(ApplicantTable(e), ApplicantBegin(s))

SendMessage_mutSilentQa(s) ==
    CASE ApplicantBegin(s) \in {"Vn", "An"}       -> "New"
      [] ApplicantBegin(s) \in {"Vp", "Aa", "Ap"} -> "Join"
      [] ApplicantBegin(s) = "La"                 -> "Leave"
      [] OTHER                                    -> "In"

\* The send_msg a tx! leaves in the context: every state has a tx! cell, so
\* every record has tx_pending set after it.
SendMessage(s) ==
    CASE ApplicantBegin(s) \in {"Vn", "An"}             -> "New"
      [] ApplicantBegin(s) \in {"Vp", "Aa", "Ap", "Qa"} -> "Join"
      [] ApplicantBegin(s) = "La"                       -> "Leave"
      [] OTHER                                          -> "In"

\* The states in which the attribute is declared by this station.
Declaring == {"Vp", "Vn", "An", "Aa", "Qa", "Ap", "Qp"}

-----------------------------------------------------------------------------
(***************************************************************************)
(* Registrar: what the peer declares.  rIn! and rMt! never reach it.       *)
(***************************************************************************)
RegistrarBegin(s) == IF s = "Start" THEN "Mt" ELSE s

RJoins  == {"RNew", "RJoinIn", "RJoinMt"}
RLeaves == {"RLeave", "RLeaveAll", "TxLeaveAll", "Redeclare"}

RegistrarNext(s, e) ==
    LET b == RegistrarBegin(s) IN
    CASE e \in RJoins                -> "In"
      [] e \in RLeaves /\ b = "In"   -> "Lv"
      [] e = "LvTimer" /\ b = "Lv"   -> "Mt"
      [] e = "Flush"                 -> "Mt"
      [] OTHER                       -> b

RegistrarNotify(s, e) ==
    LET b == RegistrarBegin(s) IN
    CASE e = "RNew"                                -> "New"
      [] e \in {"RJoinIn", "RJoinMt"} /\ b # "In"  -> "Join"
      [] e \in {"RLeave", "Flush"}                 -> "Leave"
      [] e = "LvTimer" /\ b = "Lv"                 -> "Leave"
      [] OTHER                                     -> "None"

\* lvtimer_request: the transition asks for the port's LeaveTimer.
LvTimerRequest(s, e) == e \in RLeaves /\ RegistrarBegin(s) = "In"

-----------------------------------------------------------------------------
(***************************************************************************)
(* LeaveAll and Periodic, one of each per port.  An output is the pair of  *)
(* side effects the driver consumes.                                       *)
(***************************************************************************)
LeaveAllNext(s, e) ==
    CASE e = "LvaTimer"  -> "Active"
      [] e = "RLeaveAll" -> "Passive"
      [] e = "Tx"        -> "Passive"
      [] OTHER           -> IF s = "Start" THEN "Passive" ELSE s

LeaveAllRestartsTimer(s, e) == s = "Start" \/ e \in {"LvaTimer", "RLeaveAll"}

TxLeaveAllPending(s, e) == s = "Active" /\ e = "Tx"

PeriodicNext(s, e) ==
    CASE e = "PeriodicEnable"  -> "Active"
      [] e = "PeriodicDisable" -> "Passive"
      [] OTHER                 -> IF s = "Start" THEN "Active" ELSE s

PeriodicRestartsTimer(s, e) ==
    \/ s = "Start"
    \/ s = "Active"  /\ e = "Periodic"
    \/ s = "Passive" /\ e = "PeriodicEnable"
=============================================================================
