----------------------------- MODULE GptpProofs -----------------------------
(***************************************************************************)
(* Proofs about GptpSlavePort for every value of its constants.  The       *)
(* inductive invariant relates the port's lifecycle state to the link it   *)
(* was told of: only a port whose link is up has left Disabled, and only   *)
(* there can a Pdelay exchange be open.                                    *)
(***************************************************************************)
EXTENDS GptpSlavePort, TLAPS

\* A leaf goes to the SMT solver, again if its translation ran out of time.
USE SMTT(60), SMTT(50), SMTT(40)

Flags(q) ==
    /\ q.cap <=> q.st \in {"Uncalibrated", "Slave"}
    /\ q.synced <=> q.st = "Slave"

Capable(q) ==
    /\ q.pd.cap => q.cap
    /\ ~CapInitial => (q.cap => q.pd.cap)

\* What holds of the port whatever its link.
Sound(q) ==
    /\ q \in Port
    /\ Flags(q)
    /\ Capable(q)
    /\ q.pd.st # "NotEnabled" => PdelayActive
    /\ q.sync.st = "WaitFollowUp" => q.app = q.sync.src
    /\ q.ann.gm # NoMaster => q.told.gm = q.ann.gm
    /\ q.synced => q.timer["sync"]

IsUp(q) ==
    /\ q.st \notin {"Start", "Disabled"}
    /\ q.timer["sync"]
    /\ q.pd.st # "NotEnabled" => q.timer["interval"] \/ q.timer["receipt"]
    /\ q.ann.gm # NoMaster => q.timer["announce"]

IsDown(q) ==
    /\ q.st = "Disabled"
    /\ q.pd.st = "NotEnabled"
    /\ q.sync.st = "Discard"

IsNone(q) ==
    /\ q.st \in {"Start", "Disabled"}
    /\ q.pd.st \in {"NotEnabled", "Initial"}
    /\ \A t \in Timer : ~q.timer[t]

Told(q) == q.told.synced = q.synced /\ q.told.cap = q.cap

OneMaster ==
    /\ sample.fu = sample.sync /\ sample.app = sample.sync
    /\ Verify /\ sample.gm # NoMaster => sample.sync = sample.gm

SampleType == [fu : Masters \cup {NoMaster}, sync : Masters \cup {NoMaster},
               app : Masters \cup {NoMaster}, gm : Masters \cup {NoMaster}]

\* The inductive invariant.
IInv ==
    /\ Sound(p)
    /\ running \in BOOLEAN
    /\ link \in {"none", "up", "down"}
    /\ sample \in SampleType
    /\ OneMaster
    /\ ~running => link = "none"
    /\ link = "up" => IsUp(p) /\ Told(p)
    /\ link = "down" => IsDown(p)
    /\ link = "none" => IsNone(p) /\ (running => p.st = "Disabled")

Events == {"UCT", "LinkUp", "LinkDown", "AsCapableAcquired", "AsCapableLost",
           "FirstSyncLocked", "SyncLost", "AdministrativeDisable"}

-----------------------------------------------------------------------------
UpStates == {"Initializing", "Listening", "Uncalibrated", "Slave"}

With(q, st, cap, synced) ==
    [q EXCEPT !.st = st, !.cap = cap, !.synced = synced]

SameRest(r, q) ==
    /\ r.sync = q.sync /\ r.app = q.app /\ r.pd = q.pd /\ r.ann = q.ann
    /\ r.servo = q.servo /\ r.link = q.link /\ r.timer = q.timer /\ r.told = q.told

\* An update of the state and the flags is a port that is the same elsewhere.
LEMMA WithFacts ==
    ASSUME NEW q \in Port, NEW st \in PortState,
           NEW cap \in BOOLEAN, NEW synced \in BOOLEAN
    PROVE  /\ With(q, st, cap, synced) \in Port
           /\ SameRest(With(q, st, cap, synced), q)
           /\ With(q, st, cap, synced).st = st
           /\ With(q, st, cap, synced).cap = cap
           /\ With(q, st, cap, synced).synced = synced
BY ZenonT(30) DEF With, Port, SameRest

\* What the cells of the transition table do to the port.
LEMMA CellEffect ==
    ASSUME NEW q \in Port
    PROVE  /\ AfterCell(q, Down) = With(q, "Disabled", FALSE, FALSE)
           /\ AfterCell(q, <<"none", "Initializing">>) =
                 With(q, "Initializing", q.cap, q.synced)
           /\ AfterCell(q, <<"none", "Listening">>) =
                 With(q, "Listening", q.cap, q.synced)
           /\ AfterCell(q, <<"as_capable", "Uncalibrated">>) =
                 With(q, "Uncalibrated", TRUE, q.synced)
           /\ AfterCell(q, <<"drop_as_capable", "Listening">>) =
                 With(q, "Listening", FALSE, FALSE)
           /\ AfterCell(q, <<"sync", "Slave">>) = With(q, "Slave", q.cap, TRUE)
           /\ AfterCell(q, <<"lose_sync", "Uncalibrated">>) =
                 With(q, "Uncalibrated", q.cap, FALSE)
BY DEF AfterCell, Port, Down, With

\* The cell each event selects.
LEMMA FireCell ==
    ASSUME NEW q \in Port
    PROVE  /\ q.st = "Start" => Fire(q, "UCT") = AfterCell(q, Down)
           /\ ~(q.st = "Start") => Fire(q, "UCT") = q
           /\ q.st = "Disabled" => Fire(q, "LinkUp") = AfterCell(q, <<"none", "Initializing">>)
           /\ ~(q.st = "Disabled") => Fire(q, "LinkUp") = q
           /\ q.st \in UpStates => Fire(q, "LinkDown") = AfterCell(q, Down)
           /\ ~(q.st \in UpStates) => Fire(q, "LinkDown") = q
           /\ q.st \in UpStates => Fire(q, "AdministrativeDisable") = AfterCell(q, Down)
           /\ ~(q.st \in UpStates) => Fire(q, "AdministrativeDisable") = q
           /\ q.st \in {"Uncalibrated", "Slave"} => Fire(q, "AsCapableLost") = AfterCell(q, <<"drop_as_capable", "Listening">>)
           /\ ~(q.st \in {"Uncalibrated", "Slave"}) => Fire(q, "AsCapableLost") = q
           /\ q.st = "Uncalibrated" => Fire(q, "FirstSyncLocked") = AfterCell(q, <<"sync", "Slave">>)
           /\ ~(q.st = "Uncalibrated") => Fire(q, "FirstSyncLocked") = q
           /\ q.st = "Slave" => Fire(q, "SyncLost") = AfterCell(q, <<"lose_sync", "Uncalibrated">>)
           /\ ~(q.st = "Slave") => Fire(q, "SyncLost") = q
           /\ q.st = "Initializing" => Fire(q, "AsCapableAcquired") = AfterCell(q, <<"none", "Listening">>)
           /\ q.st = "Listening" => Fire(q, "AsCapableAcquired") = AfterCell(q, <<"as_capable", "Uncalibrated">>)
           /\ q.st \notin {"Initializing", "Listening"} => Fire(q, "AsCapableAcquired") = q
<1>1. q.st = "Start" => Fire(q, "UCT") = AfterCell(q, Down)
  BY DEF Fire, PortTable, UpStates, Down
<1>2. ~(q.st = "Start") => Fire(q, "UCT") = q
  BY DEF Fire, PortTable, UpStates, Down
<1>3. q.st = "Disabled" => Fire(q, "LinkUp") = AfterCell(q, <<"none", "Initializing">>)
  BY DEF Fire, PortTable, UpStates, Down
<1>4. ~(q.st = "Disabled") => Fire(q, "LinkUp") = q
  BY DEF Fire, PortTable, UpStates, Down
<1>5. q.st \in UpStates => Fire(q, "LinkDown") = AfterCell(q, Down)
  BY DEF Fire, PortTable, UpStates, Down
<1>6. ~(q.st \in UpStates) => Fire(q, "LinkDown") = q
  BY DEF Fire, PortTable, UpStates, Down
<1>7. q.st \in UpStates => Fire(q, "AdministrativeDisable") = AfterCell(q, Down)
  BY DEF Fire, PortTable, UpStates, Down
<1>8. ~(q.st \in UpStates) => Fire(q, "AdministrativeDisable") = q
  BY DEF Fire, PortTable, UpStates, Down
<1>9. q.st \in {"Uncalibrated", "Slave"} => Fire(q, "AsCapableLost") = AfterCell(q, <<"drop_as_capable", "Listening">>)
  BY DEF Fire, PortTable, UpStates, Down
<1>10. ~(q.st \in {"Uncalibrated", "Slave"}) => Fire(q, "AsCapableLost") = q
  BY DEF Fire, PortTable, UpStates, Down
<1>11. q.st = "Uncalibrated" => Fire(q, "FirstSyncLocked") = AfterCell(q, <<"sync", "Slave">>)
  BY DEF Fire, PortTable, UpStates, Down
<1>12. ~(q.st = "Uncalibrated") => Fire(q, "FirstSyncLocked") = q
  BY DEF Fire, PortTable, UpStates, Down
<1>13. q.st = "Slave" => Fire(q, "SyncLost") = AfterCell(q, <<"lose_sync", "Uncalibrated">>)
  BY DEF Fire, PortTable, UpStates, Down
<1>14. ~(q.st = "Slave") => Fire(q, "SyncLost") = q
  BY DEF Fire, PortTable, UpStates, Down
<1>15. q.st = "Initializing" => Fire(q, "AsCapableAcquired") = AfterCell(q, <<"none", "Listening">>)
  BY DEF Fire, PortTable, UpStates, Down
<1>16. q.st = "Listening" => Fire(q, "AsCapableAcquired") = AfterCell(q, <<"as_capable", "Uncalibrated">>)
  BY DEF Fire, PortTable, UpStates, Down
<1>17. q.st \notin {"Initializing", "Listening"} => Fire(q, "AsCapableAcquired") = q
  BY DEF Fire, PortTable, UpStates, Down
<1> QED BY <1>1, <1>2, <1>3, <1>4, <1>5, <1>6, <1>7, <1>8, <1>9, <1>10, <1>11, <1>12, <1>13, <1>14, <1>15, <1>16, <1>17

\* Every event keeps the flags in step with the state and the rest as it is.
LEMMA FireKeeps ==
    ASSUME NEW q \in Port, Flags(q), NEW ev \in Events
    PROVE  Fire(q, ev) \in Port /\ Flags(Fire(q, ev)) /\ SameRest(Fire(q, ev), q)
<1> DEFINE Goal(r) == r \in Port /\ Flags(r) /\ SameRest(r, q)
<1>1. q.cap \in BOOLEAN /\ q.synced \in BOOLEAN /\ q.st \in PortState
  BY DEF Port
<1>2. Goal(q)
  BY DEF SameRest
<1>3. ASSUME NEW st \in PortState, NEW cap \in BOOLEAN, NEW synced \in BOOLEAN,
             cap <=> st \in {"Uncalibrated", "Slave"}, synced <=> st = "Slave"
      PROVE  Goal(With(q, st, cap, synced))
  BY <1>3, WithFacts DEF Flags
<1> HIDE DEF Goal
<1>4. Goal(AfterCell(q, Down))
  <2>1. Goal(With(q, "Disabled", FALSE, FALSE))
    BY <1>1, <1>3, ZenonT(30) DEF PortState, Flags
  <2> QED BY <2>1, CellEffect, ZenonT(30)
<1>5. q.st = "Disabled" => Goal(AfterCell(q, <<"none", "Initializing">>))
  <2>1. q.st = "Disabled" => Goal(With(q, "Initializing", q.cap, q.synced))
    BY <1>1, <1>3 DEF PortState, Flags
  <2> QED BY <2>1, CellEffect, ZenonT(30)
<1>6. q.st = "Initializing" => Goal(AfterCell(q, <<"none", "Listening">>))
  <2>1. q.st = "Initializing" => Goal(With(q, "Listening", q.cap, q.synced))
    BY <1>1, <1>3 DEF PortState, Flags
  <2> QED BY <2>1, CellEffect, ZenonT(30)
<1>7. q.st = "Listening" => Goal(AfterCell(q, <<"as_capable", "Uncalibrated">>))
  <2>1. q.st = "Listening" => Goal(With(q, "Uncalibrated", TRUE, q.synced))
    BY <1>1, <1>3, ZenonT(30) DEF PortState, Flags
  <2> QED BY <2>1, CellEffect, ZenonT(30)
<1>8. Goal(AfterCell(q, <<"drop_as_capable", "Listening">>))
  <2>1. Goal(With(q, "Listening", FALSE, FALSE))
    BY <1>1, <1>3, ZenonT(30) DEF PortState, Flags
  <2> QED BY <2>1, CellEffect, ZenonT(30)
<1>9. q.st = "Uncalibrated" => Goal(AfterCell(q, <<"sync", "Slave">>))
  <2>1. q.st = "Uncalibrated" => Goal(With(q, "Slave", q.cap, TRUE))
    BY <1>1, <1>3, ZenonT(30) DEF PortState, Flags
  <2> QED BY <2>1, CellEffect, ZenonT(30)
<1>10. q.st = "Slave" => Goal(AfterCell(q, <<"lose_sync", "Uncalibrated">>))
  <2>1. q.st = "Slave" => Goal(With(q, "Uncalibrated", q.cap, FALSE))
    BY <1>1, <1>3, ZenonT(30) DEF PortState, Flags
  <2> QED BY <2>1, CellEffect, ZenonT(30)
<1>11. Goal(Fire(q, ev))
  <2>1. CASE ev = "UCT"
    BY <1>2, <1>4, <2>1, FireCell
  <2>2. CASE ev = "LinkUp"
    BY <1>2, <1>5, <2>2, FireCell
  <2>3. CASE ev = "LinkDown"
    BY <1>2, <1>4, <2>3, FireCell
  <2>4. CASE ev = "AdministrativeDisable"
    BY <1>2, <1>4, <2>4, FireCell
  <2>5. CASE ev = "AsCapableLost"
    BY <1>2, <1>8, <2>5, FireCell
  <2>6. CASE ev = "FirstSyncLocked"
    BY <1>2, <1>9, <2>6, FireCell
  <2>7. CASE ev = "SyncLost"
    BY <1>2, <1>10, <2>7, FireCell
  <2>8. CASE ev = "AsCapableAcquired"
    BY <1>2, <1>6, <1>7, <2>8, FireCell
  <2> QED BY <2>1, <2>2, <2>3, <2>4, <2>5, <2>6, <2>7, <2>8 DEF Events
<1> QED BY <1>11 DEF Goal

\* The state each event leads to.
LEMMA FireState ==
    ASSUME NEW q \in Port
    PROVE  /\ Fire(q, "UCT").st = IF q.st = "Start" THEN "Disabled" ELSE q.st
           /\ Fire(q, "LinkUp").st = IF q.st = "Disabled" THEN "Initializing" ELSE q.st
           /\ Fire(q, "LinkDown").st = IF q.st = "Start" THEN "Start" ELSE "Disabled"
           /\ Fire(q, "AdministrativeDisable").st =
                 IF q.st = "Start" THEN "Start" ELSE "Disabled"
           /\ Fire(q, "AsCapableAcquired").st =
                 IF q.st = "Initializing" THEN "Listening"
                 ELSE IF q.st = "Listening" THEN "Uncalibrated" ELSE q.st
           /\ Fire(q, "AsCapableLost").st =
                 IF q.st \in {"Uncalibrated", "Slave"} THEN "Listening" ELSE q.st
           /\ Fire(q, "FirstSyncLocked").st =
                 IF q.st = "Uncalibrated" THEN "Slave" ELSE q.st
           /\ Fire(q, "SyncLost").st = IF q.st = "Slave" THEN "Uncalibrated" ELSE q.st
<1>1. q.st \in PortState
  BY DEF Port
<1>2. /\ AfterCell(q, Down).st = "Disabled"
      /\ AfterCell(q, <<"none", "Initializing">>).st = "Initializing"
      /\ AfterCell(q, <<"none", "Listening">>).st = "Listening"
      /\ AfterCell(q, <<"as_capable", "Uncalibrated">>).st = "Uncalibrated"
      /\ AfterCell(q, <<"drop_as_capable", "Listening">>).st = "Listening"
      /\ AfterCell(q, <<"sync", "Slave">>).st = "Slave"
      /\ AfterCell(q, <<"lose_sync", "Uncalibrated">>).st = "Uncalibrated"
  BY DEF AfterCell, Port, Down
<1> USE <1>1, <1>2, FireCell DEF PortState, UpStates
<1>3. Fire(q, "UCT").st = IF q.st = "Start" THEN "Disabled" ELSE q.st
  OBVIOUS
<1>4. Fire(q, "LinkUp").st = IF q.st = "Disabled" THEN "Initializing" ELSE q.st
  OBVIOUS
<1>5. Fire(q, "LinkDown").st = IF q.st = "Start" THEN "Start" ELSE "Disabled"
  OBVIOUS
<1>6. Fire(q, "AdministrativeDisable").st = IF q.st = "Start" THEN "Start" ELSE "Disabled"
  OBVIOUS
<1>7. Fire(q, "AsCapableAcquired").st = IF q.st = "Initializing" THEN "Listening"
         ELSE IF q.st = "Listening" THEN "Uncalibrated" ELSE q.st
  OBVIOUS
<1>8. Fire(q, "AsCapableLost").st = IF q.st \in {"Uncalibrated", "Slave"} THEN "Listening" ELSE q.st
  OBVIOUS
<1>9. Fire(q, "FirstSyncLocked").st = IF q.st = "Uncalibrated" THEN "Slave" ELSE q.st
  OBVIOUS
<1>10. Fire(q, "SyncLost").st = IF q.st = "Slave" THEN "Uncalibrated" ELSE q.st
  OBVIOUS
<1> QED BY <1>3, <1>4, <1>5, <1>6, <1>7, <1>8, <1>9, <1>10

Out(q) == q.st \in {"Start", "Disabled"}

\* The two events of drive_as_capable_acquired make a port that is not Disabled
\* asCapable.
LEMMA AcquireFacts ==
    ASSUME NEW q \in Port, Flags(q)
    PROVE  LET r == AcquireAsCapable(q)
           IN  /\ r \in Port /\ Flags(r) /\ SameRest(r, q)
               /\ r.st = IF q.st \in {"Initializing", "Listening"}
                         THEN "Uncalibrated" ELSE q.st
<1> DEFINE a == Fire(q, "AsCapableAcquired")
           r == Fire(a, "AsCapableAcquired")
<1>1. a \in Port /\ Flags(a) /\ SameRest(a, q)
  BY FireKeeps DEF Events
<1>2. a.st = IF q.st = "Initializing" THEN "Listening"
             ELSE IF q.st = "Listening" THEN "Uncalibrated" ELSE q.st
  BY FireState
<1> HIDE DEF a
<1>3. r \in Port /\ Flags(r) /\ SameRest(r, a)
  BY <1>1, FireKeeps DEF Events
<1>4. r.st = IF a.st = "Initializing" THEN "Listening"
             ELSE IF a.st = "Listening" THEN "Uncalibrated" ELSE a.st
  BY <1>1, FireState
<1> HIDE DEF r
<1>5. AcquireAsCapable(q) = r
  BY DEF AcquireAsCapable, r, a
<1>6. SameRest(r, q)
  BY <1>1, <1>3 DEF SameRest
<1> QED BY <1>2, <1>3, <1>4, <1>5, <1>6

\* sync_as_capable restores the agreement between the port's asCapable and the
\* Pdelay engine's, given that they agreed before the engine's last event.
LEMMA ReconcileFacts ==
    ASSUME NEW q \in Port, Flags(q), NEW was \in BOOLEAN,
           was => q.cap, ~CapInitial => (q.cap => was),
           q.pd.cap /\ ~was => ~Out(q)
    PROVE  LET r == SyncAsCapable(q, was)
           IN  /\ r \in Port /\ Flags(r) /\ SameRest(r, q) /\ Capable(r)
               /\ Out(r) <=> Out(q)
               /\ r.st = "Disabled" <=> q.st = "Disabled"
               /\ r.synced => q.synced
<1> DEFINE r == SyncAsCapable(q, was)
<1>1. q.st \in PortState /\ q.pd.cap \in BOOLEAN /\ q.cap \in BOOLEAN /\ q.synced \in BOOLEAN
  BY DEF Port, Pdelay
<1>2. CASE q.pd.cap = was
  <2>1. r = q
    BY <1>2 DEF SyncAsCapable
  <2> QED BY <2>1, <1>2 DEF SameRest, Capable
<1>3. CASE q.pd.cap # was /\ q.pd.cap
  <2>1. r = AcquireAsCapable(q)
    BY <1>3 DEF SyncAsCapable
  <2> HIDE DEF r
  <2>2. r \in Port /\ Flags(r) /\ SameRest(r, q)
    BY <2>1, AcquireFacts
  <2>3. r.st = IF q.st \in {"Initializing", "Listening"} THEN "Uncalibrated" ELSE q.st
    BY <2>1, AcquireFacts
  <2>4. ~was
    BY <1>1, <1>3, ZenonT(30)
  <2>5. ~Out(q) /\ r.st \in {"Uncalibrated", "Slave"}
    BY <1>1, <1>3, <2>3, <2>4 DEF Out, PortState
  <2>6. r.cap /\ r.pd.cap
    BY <2>2, <2>5, <1>3 DEF Flags, SameRest
  <2>7. r.synced => q.synced
    BY <2>2, <2>3 DEF Flags
  <2>8. Capable(r)
    BY <2>6 DEF Capable
  <2> QED BY <2>2, <2>5, <2>7, <2>8 DEF Out, r
<1>4. CASE q.pd.cap # was /\ ~q.pd.cap
  <2>1. r = Fire(q, "AsCapableLost")
    BY <1>4 DEF SyncAsCapable
  <2> HIDE DEF r
  <2>2. r \in Port /\ Flags(r) /\ SameRest(r, q)
    BY <2>1, FireKeeps DEF Events
  <2>3. r.st = IF q.st \in {"Uncalibrated", "Slave"} THEN "Listening" ELSE q.st
    BY <2>1, FireState
  <2>4. ~r.cap /\ ~r.synced /\ ~r.pd.cap
    BY <2>2, <2>3, <1>4 DEF Flags, SameRest
  <2>5. Capable(r)
    BY <2>4 DEF Capable
  <2> QED BY <2>2, <2>3, <2>4, <2>5 DEF Out, r
<1> QED BY <1>1, <1>2, <1>3, <1>4

\* publish_state_changes brings the observers up to date and changes nothing else.
LEMMA PublishFacts ==
    ASSUME NEW q \in Port
    PROVE  LET r == Publish(q)
           IN  /\ r \in Port /\ Told(r)
               /\ r.st = q.st /\ r.cap = q.cap /\ r.synced = q.synced
               /\ r.sync = q.sync /\ r.app = q.app /\ r.pd = q.pd /\ r.ann = q.ann
               /\ r.timer = q.timer /\ r.told.gm = q.told.gm
BY ZenonT(30) DEF Publish, Port, Told

\* Publishing keeps every part of the invariant.
LEMMA PublishSound ==
    ASSUME NEW q, Sound(q)
    PROVE  /\ Sound(Publish(q)) /\ Told(Publish(q))
           /\ IsUp(q) => IsUp(Publish(q))
           /\ IsDown(q) => IsDown(Publish(q))
           /\ IsNone(q) => IsNone(Publish(q))
           /\ Publish(q).st = q.st
<1>1. q \in Port
  BY DEF Sound
<1> DEFINE r == Publish(q)
<1>2. /\ r \in Port /\ Told(r)
      /\ r.st = q.st /\ r.cap = q.cap /\ r.synced = q.synced
      /\ r.sync = q.sync /\ r.app = q.app /\ r.pd = q.pd /\ r.ann = q.ann
      /\ r.timer = q.timer /\ r.told.gm = q.told.gm
  BY <1>1, PublishFacts
<1> HIDE DEF r
<1> SUFFICES /\ Sound(r) /\ Told(r)
             /\ IsUp(q) => IsUp(r)
             /\ IsDown(q) => IsDown(r)
             /\ IsNone(q) => IsNone(r)
             /\ r.st = q.st
  BY DEF r
<1> QED BY <1>2 DEF Sound, Flags, Capable, IsUp, IsDown, IsNone

-----------------------------------------------------------------------------
(***************************************************************************)
(* The Pdelay engine.                                                      *)
(***************************************************************************)
\* A failed exchange leaves the engine idle and never makes it asCapable.
LEMMA FailedFacts ==
    ASSUME NEW d \in Pdelay
    PROVE  LET f == ExchangeFailed(d)
           IN  f \in Pdelay /\ f.st = "Idle" /\ (f.cap => d.cap)
<1> DEFINE lost == IF d.lost < LostThreshold THEN d.lost + 1 ELSE d.lost
           cap == IF d.lost + 1 >= LostThreshold THEN FALSE ELSE d.cap
<1>1. lost \in 0..LostThreshold
  BY PortAssumption DEF Pdelay
<1>2. cap \in BOOLEAN /\ (cap => d.cap)
  BY ZenonT(30) DEF Pdelay
<1>3. 0 \in SeqId
  BY PortAssumption DEF SeqId
<1>4. ExchangeFailed(d) = [d EXCEPT !.st = "Idle", !.seq = 0, !.t1 = FALSE,
                                    !.lost = lost, !.cap = cap]
  BY DEF ExchangeFailed, Pdelay
<1> HIDE DEF lost, cap
<1> QED BY <1>1, <1>2, <1>3, <1>4, ZenonT(30) DEF Pdelay

\* A request opens an exchange and never makes the engine asCapable.
LEMMA RequestFacts ==
    ASSUME NEW d \in Pdelay, NEW stamped \in BOOLEAN
    PROVE  LET r == Request(d, stamped)
           IN  r \in Pdelay /\ r.st = "WaitResp" /\ (r.cap => d.cap)
<1> DEFINE f == IF Waiting(d) THEN ExchangeFailed(d) ELSE d
<1>1. f \in Pdelay /\ (f.cap => d.cap)
  BY FailedFacts
<1> HIDE DEF f
<1>2. f.next \in SeqId /\ (f.next + 1) % SeqMod \in SeqId
  BY <1>1, PortAssumption DEF Pdelay, SeqId
<1>3. Request(d, stamped) = [f EXCEPT !.st = "WaitResp", !.seq = f.next,
                                      !.next = (f.next + 1) % SeqMod, !.t1 = stamped]
  BY <1>1 DEF Request, f, Pdelay
<1> QED BY <1>1, <1>2, <1>3, ZenonT(30) DEF Pdelay

\* A Pdelay_Resp_Follow_Up makes the engine asCapable only if it was enabled.
LEMMA RespFollowUpFacts ==
    ASSUME NEW d \in Pdelay, NEW seq \in SeqId, NEW delay \in Delays, NEW ratio \in Ratios
    PROVE  LET r == PdRespFollowUp(d, seq, delay, ratio)
           IN  /\ r \in Pdelay
               /\ r.st = "NotEnabled" <=> d.st = "NotEnabled"
               /\ r.cap /\ ~d.cap => d.st = "WaitFollowUp"
<1> DEFINE r == PdRespFollowUp(d, seq, delay, ratio)
           rr == IF d.prev THEN ratio ELSE d.ratio
           cc == ~(DelayThreshold > 0 /\ delay > DelayThreshold)
<1>1. CASE Measures(d, seq)
  <2>1. rr \in Ratios /\ cc \in BOOLEAN /\ 0 \in SeqId /\ 0 \in 0..LostThreshold
    BY PortAssumption DEF Pdelay, SeqId
  <2>2. r = [d EXCEPT !.st = "Idle", !.seq = 0, !.t1 = FALSE, !.lost = 0,
                      !.prev = TRUE, !.ratio = rr, !.cap = cc]
    BY <1>1 DEF PdRespFollowUp, Pdelay
  <2>3. d.st = "WaitFollowUp"
    BY <1>1 DEF Measures
  <2> HIDE DEF rr, cc
  <2> QED BY <2>1, <2>2, <2>3, ZenonT(30) DEF Pdelay
<1>2. CASE ~Measures(d, seq) /\ d.st = "WaitFollowUp" /\ seq = d.seq
  BY <1>2, FailedFacts DEF PdRespFollowUp
<1>3. CASE ~Measures(d, seq) /\ ~(d.st = "WaitFollowUp" /\ seq = d.seq)
  BY <1>3 DEF PdRespFollowUp
<1> QED BY <1>1, <1>2, <1>3

\* Arming a timer changes nothing else.
LEMMA ArmFacts ==
    ASSUME NEW q \in Port, NEW t \in Timer
    PROVE  LET r == Arm(q, t)
           IN  /\ r \in Port
               /\ r.st = q.st /\ r.cap = q.cap /\ r.synced = q.synced
               /\ r.sync = q.sync /\ r.app = q.app /\ r.pd = q.pd /\ r.ann = q.ann
               /\ r.told = q.told
               /\ r.timer[t] /\ \A u \in Timer : q.timer[u] => r.timer[u]
<1> DEFINE u == [q.timer EXCEPT ![t] = TRUE]
<1>1. u \in [Timer -> BOOLEAN] /\ u[t] /\ \A v \in Timer : q.timer[v] => u[v]
  BY DEF Port
<1>2. Arm(q, t) = [q EXCEPT !.timer = u]
  BY DEF Arm, Port
<1> HIDE DEF u
<1> QED BY <1>1, <1>2 DEF Port

\* Arming a timer keeps every part of the invariant of a port that is not "none".
LEMMA ArmSound ==
    ASSUME NEW q, Sound(q), NEW t \in Timer
    PROVE  /\ Sound(Arm(q, t))
           /\ IsUp(q) => IsUp(Arm(q, t))
           /\ IsDown(q) => IsDown(Arm(q, t))
           /\ Told(q) => Told(Arm(q, t))
<1>1. q \in Port
  BY DEF Sound
<1> DEFINE r == Arm(q, t)
<1>2. /\ r \in Port
      /\ r.st = q.st /\ r.cap = q.cap /\ r.synced = q.synced
      /\ r.sync = q.sync /\ r.app = q.app /\ r.pd = q.pd /\ r.ann = q.ann
      /\ r.told = q.told
      /\ r.timer[t] /\ \A u \in Timer : q.timer[u] => r.timer[u]
  BY <1>1, ArmFacts
<1> HIDE DEF r
<1> SUFFICES /\ Sound(r)
             /\ IsUp(q) => IsUp(r)
             /\ IsDown(q) => IsDown(r)
             /\ Told(q) => Told(r)
  BY DEF r
<1> QED BY <1>2 DEF Sound, Flags, Capable, IsUp, IsDown, Told, Timer

-----------------------------------------------------------------------------
(***************************************************************************)
(* The stages of tick() keep the invariant of a port whose link is up, and *)
(* of one whose link went down.                                            *)
(***************************************************************************)
Kept(r, q) == Sound(r) /\ (IsUp(q) => IsUp(r)) /\ (IsDown(q) => IsDown(r))

\* Sending the next request.
LEMMA IntervalKeeps ==
    ASSUME NEW q, Sound(q), IsUp(q) \/ IsDown(q), NEW stamped \in BOOLEAN
    PROVE  Kept(IntervalStage(q, stamped), q)
<1> DEFINE u == [q.timer EXCEPT !["interval"] = FALSE]
           a == [q EXCEPT !.timer = u]
           b == [a EXCEPT !.pd = Request(q.pd, stamped)]
           c == SyncAsCapable(b, q.pd.cap)
<1>1. q \in Port /\ q.pd \in Pdelay /\ q.pd.cap \in BOOLEAN
  BY DEF Sound, Port, Pdelay
<1>2. /\ u \in [Timer -> BOOLEAN]
      /\ \A v \in Timer \ {"interval"} : u[v] = q.timer[v]
  BY <1>1, ZenonT(30) DEF Port
<1>3. /\ a \in Port
      /\ a.st = q.st /\ a.cap = q.cap /\ a.synced = q.synced
      /\ a.sync = q.sync /\ a.app = q.app /\ a.pd = q.pd /\ a.ann = q.ann
      /\ a.told = q.told /\ a.timer = u
  BY <1>1, <1>2, ZenonT(30) DEF Port
<1>4. [q EXCEPT !.timer["interval"] = FALSE] = a
  BY <1>1 DEF Port
<1> HIDE DEF u, a
<1>5. CASE q.pd.st = "NotEnabled"
  <2>1. IntervalStage(q, stamped) = a
    BY <1>4, <1>5 DEF IntervalStage
  <2>2. Kept(a, q)
    BY <1>2, <1>3, <1>5 DEF Kept, Sound, Flags, Capable, IsUp, IsDown, Timer
  <2> QED BY <2>1, <2>2
<1>6. CASE q.pd.st # "NotEnabled"
  <2>1. IsUp(q)
    BY <1>6 DEF IsDown
  <2>2. /\ Request(q.pd, stamped) \in Pdelay
        /\ Request(q.pd, stamped).st = "WaitResp"
        /\ Request(q.pd, stamped).cap => q.pd.cap
    BY <1>1, RequestFacts
  <2>3. /\ b \in Port
        /\ b.st = q.st /\ b.cap = q.cap /\ b.synced = q.synced
        /\ b.sync = q.sync /\ b.app = q.app /\ b.ann = q.ann
        /\ b.told = q.told /\ b.timer = u
        /\ b.pd.st = "WaitResp" /\ (b.pd.cap => q.pd.cap)
    BY <1>3, <2>2 DEF Port
  <2> HIDE DEF b
  <2>4. /\ Flags(b) /\ (q.pd.cap => b.cap) /\ (~CapInitial => (b.cap => q.pd.cap))
        /\ ~(b.pd.cap /\ ~q.pd.cap)
    BY <2>3 DEF Sound, Flags, Capable
  <2>5. /\ c \in Port /\ Flags(c) /\ SameRest(c, b) /\ Capable(c)
        /\ Out(c) <=> Out(b)
        /\ c.synced => b.synced
    BY <1>1, <2>3, <2>4, ReconcileFacts
  <2> HIDE DEF c
  <2>6. /\ c.timer = u /\ c.sync = q.sync /\ c.app = q.app /\ c.ann = q.ann
        /\ c.told = q.told /\ c.pd.st = "WaitResp"
    BY <2>3, <2>5 DEF SameRest
  <2>7. Sound(c) /\ ~Out(c) /\ (c.ann.gm # NoMaster => c.timer["announce"]) /\ c.timer["sync"]
    BY <1>2, <1>6, <2>1, <2>3, <2>5, <2>6 DEF Sound, Out, IsUp, Timer
  <2>8. IntervalStage(q, stamped) = Arm(c, "receipt")
    BY <1>4, <1>3, <1>6, ZenonT(30) DEF IntervalStage, c, b
  <2> DEFINE r == Arm(c, "receipt")
  <2>9. Sound(r)
    BY <2>7, ArmSound DEF Timer
  <2>10. /\ r.st = c.st /\ r.ann = c.ann /\ r.timer["receipt"]
         /\ c.timer["announce"] => r.timer["announce"]
         /\ c.timer["sync"] => r.timer["sync"]
    BY <2>5, ArmFacts DEF Timer
  <2> HIDE DEF r
  <2>11. IsUp(r)
    BY <2>7, <2>10 DEF IsUp, Out
  <2>12. ~IsDown(q)
    BY <2>1 DEF IsUp, IsDown
  <2> QED BY <2>8, <2>9, <2>11, <2>12 DEF Kept, r
<1> QED BY <1>5, <1>6

\* Giving up on a response.
LEMMA ReceiptKeeps ==
    ASSUME NEW q, Sound(q), IsUp(q) \/ IsDown(q)
    PROVE  Kept(ReceiptStage(q), q)
<1> DEFINE d == IF Waiting(q.pd) THEN ExchangeFailed(q.pd) ELSE q.pd
           u == [[q.timer EXCEPT !["receipt"] = FALSE]
                    EXCEPT !["interval"] = q.timer["interval"] \/ PdelayActive]
           b == [q EXCEPT !.pd = d, !.timer = u]
           c == SyncAsCapable(b, q.pd.cap)
<1>1. q \in Port /\ q.pd \in Pdelay /\ q.pd.cap \in BOOLEAN
  BY DEF Sound, Port, Pdelay
<1>2. /\ u \in [Timer -> BOOLEAN]
      /\ PdelayActive => u["interval"]
      /\ u["sync"] = q.timer["sync"] /\ u["announce"] = q.timer["announce"]
  BY <1>1, PortAssumption, ZenonT(30) DEF Port, Timer
<1>3. d \in Pdelay /\ (d.cap => q.pd.cap) /\ (d.st = "NotEnabled" <=> q.pd.st = "NotEnabled")
  BY <1>1, FailedFacts DEF Waiting
<1>4. [q EXCEPT !.pd = IF Waiting(@) THEN ExchangeFailed(@) ELSE @,
                !.timer["receipt"] = FALSE,
                !.timer["interval"] = @ \/ PdelayActive] = b
  BY <1>1, ZenonT(30) DEF Port, Timer
<1> HIDE DEF d, u
<1>5. /\ b \in Port
      /\ b.st = q.st /\ b.cap = q.cap /\ b.synced = q.synced
      /\ b.sync = q.sync /\ b.app = q.app /\ b.ann = q.ann
      /\ b.told = q.told /\ b.timer = u /\ b.pd = d
  BY <1>1, <1>2, <1>3, ZenonT(30) DEF Port
<1>6. ReceiptStage(q) = c
  BY <1>4 DEF ReceiptStage
<1> HIDE DEF b
<1>7. /\ Flags(b) /\ (q.pd.cap => b.cap) /\ (~CapInitial => (b.cap => q.pd.cap))
      /\ ~(b.pd.cap /\ ~q.pd.cap)
  BY <1>3, <1>5 DEF Sound, Flags, Capable
<1>8. /\ c \in Port /\ Flags(c) /\ SameRest(c, b) /\ Capable(c)
      /\ Out(c) <=> Out(b)
      /\ c.st = "Disabled" <=> b.st = "Disabled"
      /\ c.synced => b.synced
  BY <1>1, <1>5, <1>7, ReconcileFacts
<1> HIDE DEF c
<1>9. /\ c.timer = u /\ c.sync = q.sync /\ c.app = q.app /\ c.ann = q.ann
      /\ c.told = q.told /\ c.pd = d
  BY <1>5, <1>8 DEF SameRest
<1>10. Sound(c)
  BY <1>2, <1>3, <1>5, <1>8, <1>9 DEF Sound
<1>11. IsUp(q) => IsUp(c)
  BY <1>2, <1>3, <1>5, <1>8, <1>9, <1>10, ZenonT(30) DEF IsUp, Sound, Out
<1>12. IsDown(q) => IsDown(c)
  BY <1>3, <1>5, <1>8, <1>9 DEF IsDown
<1> QED BY <1>6, <1>10, <1>11, <1>12 DEF Kept

\* The sync receipt timeout.
LEMMA SyncKeeps ==
    ASSUME NEW q, Sound(q)
    PROVE  Kept(SyncStage(q), q)
<1> DEFINE s == IF q.sync.st = "Discard" THEN q.sync ELSE IdleSync(q.sync)
           a == [q EXCEPT !.sync = s]
           f == Fire(a, "SyncLost")
           b == IF a.synced THEN [f EXCEPT !.servo = FreshServo] ELSE a
<1>1. q \in Port
  BY DEF Sound
<1>2. /\ s \in [st : {"Idle", "WaitFollowUp", "Discard"}, seq : SeqId,
                src : Masters \cup {NoMaster}]
      /\ s.st # "WaitFollowUp"
      /\ q.sync.st = "Discard" => s.st = "Discard"
  BY <1>1, PortAssumption DEF Port, IdleSync, SeqId
<1>3. [q EXCEPT !.sync = IF @.st = "Discard" THEN @ ELSE IdleSync(@)] = a
  BY <1>1 DEF Port
<1>4. SyncStage(q) = Arm(b, "sync")
  BY <1>3 DEF SyncStage
<1> HIDE DEF s
<1>5. /\ a \in Port /\ a.sync = s
      /\ a.st = q.st /\ a.cap = q.cap /\ a.synced = q.synced
      /\ a.app = q.app /\ a.pd = q.pd /\ a.ann = q.ann
      /\ a.told = q.told /\ a.timer = q.timer
  BY <1>1, <1>2 DEF Port
<1> HIDE DEF a
<1>6. Flags(a)
  BY <1>5 DEF Flags, Sound
<1>7. f \in Port /\ Flags(f) /\ SameRest(f, a)
  BY <1>5, <1>6, FireKeeps DEF Events
<1>8. f.st = IF a.st = "Slave" THEN "Uncalibrated" ELSE a.st
  BY <1>5, FireState
<1> HIDE DEF f
<1>9. FreshServo \in Servo
  BY ServoAssumption DEF FreshServo, Servo
<1>10. /\ b \in Port /\ Flags(b) /\ b.sync = s
       /\ b.app = q.app /\ b.pd = q.pd /\ b.ann = q.ann
       /\ b.told = q.told /\ b.timer = q.timer /\ ~b.synced
       /\ b.st = IF q.st = "Slave" THEN "Uncalibrated" ELSE q.st
  <2>1. CASE a.synced
    <3>1. b = [f EXCEPT !.servo = FreshServo]
      BY <2>1
    <3>2. /\ b \in Port /\ b.st = f.st /\ b.cap = f.cap /\ b.synced = f.synced
          /\ b.sync = f.sync /\ b.app = f.app /\ b.pd = f.pd /\ b.ann = f.ann
          /\ b.told = f.told /\ b.timer = f.timer
      BY <1>7, <1>9, <3>1 DEF Port
    <3> HIDE DEF b
    <3> QED BY <1>5, <1>7, <1>8, <3>2 DEF Flags, SameRest
  <2>2. CASE ~a.synced
    BY <1>5, <1>6, <2>2 DEF Flags
  <2> QED BY <2>1, <2>2
<1> HIDE DEF b
<1>11. b.cap = q.cap
  BY <1>1, <1>10 DEF Flags, Sound, Port
<1>12. Sound(b)
  BY <1>2, <1>10, <1>11 DEF Sound, Capable
<1>13. (IsUp(q) => IsUp(b)) /\ (IsDown(q) => IsDown(b))
  BY <1>2, <1>10 DEF IsUp, IsDown
<1> QED BY <1>4, <1>12, <1>13, ArmSound DEF Kept, Timer

\* The announce receipt timeout.
LEMMA AnnounceKeeps ==
    ASSUME NEW q, Sound(q)
    PROVE  Kept(AnnounceStage(q), q)
<1> DEFINE n == [q.ann EXCEPT !.gm = NoMaster, !.src = NoMaster]
           g == IF q.ann.gm # NoMaster THEN NoMaster ELSE q.told.gm
           t == [q.told EXCEPT !.gm = g]
           u == [q.timer EXCEPT !["announce"] = TRUE]
           r == [q EXCEPT !.ann = n, !.told = t, !.timer = u]
<1>1. q \in Port
  BY DEF Sound
<1>2. /\ n \in [on : BOOLEAN, gm : Masters \cup {NoMaster}, src : Masters \cup {NoMaster}]
      /\ n.gm = NoMaster
  BY <1>1, ZenonT(30) DEF Port
<1>3. g \in Masters \cup {NoMaster}
  BY <1>1 DEF Port
<1>4. AnnounceStage(q) = r
  BY <1>1, ZenonT(30) DEF AnnounceStage, Port
<1> HIDE DEF g
<1>5. t \in [synced : BOOLEAN, cap : BOOLEAN, gm : Masters \cup {NoMaster},
             link : [delay : Delays, ratio : Ratios]]
  BY <1>1, <1>3 DEF Port
<1>6. u \in [Timer -> BOOLEAN] /\ \A v \in Timer \ {"announce"} : u[v] = q.timer[v]
  BY <1>1, ZenonT(30) DEF Port
<1> HIDE DEF n, t, u
<1>7. /\ r \in Port /\ r.ann = n /\ r.timer = u
      /\ r.st = q.st /\ r.cap = q.cap /\ r.synced = q.synced
      /\ r.app = q.app /\ r.pd = q.pd /\ r.sync = q.sync
  BY <1>1, <1>2, <1>5, <1>6, ZenonT(30) DEF Port
<1> HIDE DEF r
<1>8. Kept(r, q)
  BY <1>2, <1>6, <1>7 DEF Kept, Sound, Flags, Capable, IsUp, IsDown, Timer
<1> QED BY <1>4, <1>8

\* A whole tick.
LEMMA TickKeeps ==
    ASSUME Sound(p), IsUp(p) \/ IsDown(p), NEW due, NEW stamped \in BOOLEAN
    PROVE  Kept(Ticked(due, stamped), p) /\ Told(Ticked(due, stamped))
<1> DEFINE a == IF "interval" \in due THEN IntervalStage(p, stamped) ELSE p
           sent == "interval" \in due /\ p.pd.st # "NotEnabled"
           b == IF "receipt" \in due /\ ~sent THEN ReceiptStage(a) ELSE a
           c == IF "sync" \in due THEN SyncStage(b) ELSE b
           d == IF "announce" \in due THEN AnnounceStage(c) ELSE c
<1>0. Ticked(due, stamped) = Publish(d)
  BY DEF Ticked
<1>1. Kept(a, p)
  BY IntervalKeeps DEF Kept
<1> HIDE DEF a, sent
<1>2. Kept(b, p)
  BY <1>1, ReceiptKeeps DEF Kept
<1> HIDE DEF b
<1>3. Kept(c, p)
  BY <1>2, SyncKeeps DEF Kept
<1> HIDE DEF c
<1>4. Kept(d, p)
  BY <1>3, AnnounceKeeps DEF Kept
<1> HIDE DEF d
<1> QED BY <1>0, <1>4, PublishSound DEF Kept

-----------------------------------------------------------------------------
(***************************************************************************)
(* Starting, stopping and link changes.                                    *)
(***************************************************************************)
\* on_link_up brings a Disabled port into the invariant of an up link.
LEMMA LinkUpFacts ==
    ASSUME NEW q, Sound(q), q.st = "Disabled"
    PROVE  Sound(LinkUpOf(q)) /\ IsUp(LinkUpOf(q)) /\ Told(LinkUpOf(q))
<1> DEFINE a == Fire(q, "LinkUp")
           b == IF CapInitial THEN AcquireAsCapable(a) ELSE a
           u == [t \in Timer |-> CASE t = "receipt" -> b.timer[t]
                                   [] t = "interval" -> PdelayActive \/ b.timer[t]
                                   [] OTHER -> TRUE]
           c == [b EXCEPT !.timer = u]
<1>1. q \in Port /\ Flags(q)
  BY DEF Sound
<1>2. a \in Port /\ Flags(a) /\ SameRest(a, q) /\ a.st = "Initializing"
  BY <1>1, FireKeeps, FireState, ZenonT(30) DEF Events
<1> HIDE DEF a
<1>3. /\ b \in Port /\ Flags(b) /\ SameRest(b, a)
      /\ b.st = IF CapInitial THEN "Uncalibrated" ELSE "Initializing"
  <2>1. CASE CapInitial
    BY <2>1, <1>2, AcquireFacts
  <2>2. CASE ~CapInitial
    BY <2>2, <1>2 DEF SameRest
  <2> QED BY <2>1, <2>2
<1> HIDE DEF b
<1>4. SameRest(b, q)
  BY <1>2, <1>3 DEF SameRest
<1>5. /\ u \in [Timer -> BOOLEAN] /\ u["sync"] /\ u["announce"]
      /\ PdelayActive => u["interval"]
  <2>1. b.timer \in [Timer -> BOOLEAN]
    BY <1>3 DEF Port
  <2>2. \A t \in Timer : u[t] \in BOOLEAN
    BY <2>1, PortAssumption, ZenonT(30) DEF Timer
  <2> QED BY <2>2, PortAssumption DEF Timer
<1>6. LinkUpOf(q) = Publish(c)
  BY DEF LinkUpOf, c, u, b, a
<1> HIDE DEF u
<1>7. /\ c \in Port /\ c.timer = u
      /\ c.st = b.st /\ c.cap = b.cap /\ c.synced = b.synced
      /\ c.app = b.app /\ c.pd = b.pd /\ c.sync = b.sync /\ c.ann = b.ann
      /\ c.told = b.told
  BY <1>3, <1>5 DEF Port
<1> HIDE DEF c
<1>8. ~q.pd.cap
  BY DEF Sound, Flags, Capable
<1>9. Flags(c) /\ Capable(c)
  BY <1>3, <1>4, <1>7, <1>8 DEF Flags, Capable, SameRest
<1>10. Sound(c)
  BY <1>4, <1>5, <1>7, <1>9 DEF Sound, SameRest
<1>11. IsUp(c)
  BY <1>3, <1>4, <1>5, <1>7, <1>10 DEF IsUp, SameRest, Sound
<1> QED BY <1>6, <1>10, <1>11, PublishSound

\* start() before the link is looked at.
LEMMA StartedFacts ==
    ASSUME NEW q, Sound(q), IsNone(q)
    PROVE  Sound(Started(q)) /\ IsNone(Started(q)) /\ Started(q).st = "Disabled"
<1> DEFINE a == Fire(q, "UCT")
           d == IF PdelayActive THEN EnablePd(a.pd) ELSE a.pd
           s == IdleSync(a.sync)
           n == [a.ann EXCEPT !.on = TRUE]
           r == [a EXCEPT !.sync = s, !.ann = n, !.pd = d]
<1>1. q \in Port /\ Flags(q) /\ q.st \in {"Start", "Disabled"}
  BY DEF Sound, IsNone
<1>2. a \in Port /\ Flags(a) /\ SameRest(a, q) /\ a.st = "Disabled"
  BY <1>1, FireKeeps, FireState, ZenonT(30) DEF Events
<1>3. Started(q) = r
  BY <1>2 DEF Started, Port
<1> HIDE DEF a
<1>4. InitPd \in Pdelay
  BY PortAssumption DEF InitPd, Pdelay, SeqId
<1>5. /\ d \in Pdelay /\ d.st \in {"NotEnabled", "Initial"} /\ ~d.cap
      /\ d.st # "NotEnabled" => PdelayActive
  <2>1. CASE PdelayActive
    <3>1. EnablePd(a.pd) \in Pdelay /\ EnablePd(a.pd).st = "Initial" /\ ~EnablePd(a.pd).cap
      BY <1>4, ZenonT(30) DEF EnablePd, Pdelay, InitPd
    <3> QED BY <2>1, <3>1
  <2>2. CASE ~PdelayActive
    <3>1. d = q.pd /\ q.pd \in Pdelay
      BY <1>1, <1>2, <2>2 DEF SameRest, Port
    <3> QED BY <3>1, <1>1 DEF Sound, IsNone, Capable, Flags
  <2> QED BY <2>1, <2>2
<1>6. /\ s \in [st : {"Idle", "WaitFollowUp", "Discard"}, seq : SeqId,
                src : Masters \cup {NoMaster}]
      /\ s.st # "WaitFollowUp"
  BY PortAssumption DEF IdleSync, SeqId
<1>7. /\ n \in [on : BOOLEAN, gm : Masters \cup {NoMaster}, src : Masters \cup {NoMaster}]
      /\ n.gm = a.ann.gm
  BY <1>2, ZenonT(30) DEF Port
<1> HIDE DEF d, s, n
<1>8. /\ r \in Port /\ r.sync = s /\ r.ann = n /\ r.pd = d
      /\ r.st = a.st /\ r.cap = a.cap /\ r.synced = a.synced
      /\ r.told = a.told /\ r.timer = a.timer
  BY <1>2, <1>5, <1>6, <1>7, ZenonT(30) DEF Port
<1> HIDE DEF r
<1>9. Flags(r) /\ Capable(r) /\ ~r.synced
  BY <1>2, <1>5, <1>8 DEF Flags, Capable
<1>10. Sound(r)
  BY <1>2, <1>5, <1>6, <1>7, <1>8, <1>9 DEF Sound, SameRest
<1>11. IsNone(r)
  BY <1>2, <1>5, <1>8 DEF IsNone, SameRest
<1> QED BY <1>2, <1>3, <1>8, <1>10, <1>11

Quieted(q, ev, n, v) ==
    [Fire(q, ev) EXCEPT !.sync = DiscardSync(q.sync), !.pd = DisablePd(q.pd),
                        !.ann = n, !.servo = v, !.timer = Unarmed]

\* The port after a link down or a stop: Disabled, with nothing pending.
LEMMA QuietFacts ==
    ASSUME NEW q, Sound(q), NEW ev \in {"LinkDown", "AdministrativeDisable"},
           NEW n \in [on : BOOLEAN, gm : Masters \cup {NoMaster},
                      src : Masters \cup {NoMaster}],
           n = q.ann \/ n.gm = NoMaster,
           NEW v \in Servo
    PROVE  /\ Sound(Quieted(q, ev, n, v))
           /\ Quieted(q, ev, n, v).st = IF q.st = "Start" THEN "Start" ELSE "Disabled"
           /\ Quieted(q, ev, n, v).pd.st = "NotEnabled"
           /\ Quieted(q, ev, n, v).sync.st = "Discard"
           /\ \A t \in Timer : ~Quieted(q, ev, n, v).timer[t]
<1> DEFINE a == Fire(q, ev)
           d == DisablePd(q.pd)
           s == DiscardSync(q.sync)
           r == [a EXCEPT !.sync = s, !.pd = d, !.ann = n, !.servo = v, !.timer = Unarmed]
<1>1. q \in Port /\ Flags(q)
  BY DEF Sound
<1>2. a \in Port /\ Flags(a) /\ SameRest(a, q)
  BY <1>1, FireKeeps DEF Events
<1>3. a.st = IF q.st = "Start" THEN "Start" ELSE "Disabled"
  BY <1>1, FireState
<1> HIDE DEF a
<1>4. d \in Pdelay /\ d.st = "NotEnabled" /\ ~d.cap
  <2>1. q.pd \in Pdelay /\ 0 \in SeqId
    BY <1>1, PortAssumption DEF Port, SeqId
  <2> QED BY <2>1, ZenonT(30) DEF DisablePd, Pdelay
<1>5. /\ s \in [st : {"Idle", "WaitFollowUp", "Discard"}, seq : SeqId,
                src : Masters \cup {NoMaster}]
      /\ s.st = "Discard"
  BY PortAssumption DEF DiscardSync, SeqId
<1>6. Unarmed \in [Timer -> BOOLEAN] /\ \A t \in Timer : ~Unarmed[t]
  BY DEF Unarmed
<1> HIDE DEF d, s
<1>7. /\ r \in Port /\ r.sync = s /\ r.ann = n /\ r.pd = d
      /\ r.st = a.st /\ r.cap = a.cap /\ r.synced = a.synced
      /\ r.told = a.told /\ r.timer = Unarmed
  BY <1>2, <1>4, <1>5, <1>6, ZenonT(30) DEF Port
<1> HIDE DEF r
<1>8. Flags(r) /\ Capable(r) /\ ~r.synced
  BY <1>2, <1>3, <1>4, <1>7 DEF Flags, Capable
<1>9. Sound(r)
  BY <1>2, <1>4, <1>5, <1>7, <1>8 DEF Sound, SameRest
<1>10. Quieted(q, ev, n, v) = r
  BY DEF Quieted, r, a, d, s
<1> QED BY <1>3, <1>4, <1>5, <1>6, <1>7, <1>9, <1>10

-----------------------------------------------------------------------------
(***************************************************************************)
(* Received frames.                                                        *)
(***************************************************************************)
KeptAll(r, q) == Kept(r, q) /\ (Told(q) => Told(r))

\* A Sync replaces the pending one, with its application time.
LEMMA SyncFrameKeeps ==
    ASSUME NEW q, Sound(q), NEW seq \in SeqId, NEW src \in Masters
    PROVE  KeptAll(Arm([q EXCEPT !.sync = OnSync(@, seq, src), !.app = src], "sync"), q)
<1> DEFINE s == OnSync(q.sync, seq, src)
           a == [q EXCEPT !.sync = s, !.app = src]
<1>1. q \in Port
  BY DEF Sound
<1>2. /\ s \in [st : {"Idle", "WaitFollowUp", "Discard"}, seq : SeqId,
                src : Masters \cup {NoMaster}]
      /\ s.st = "WaitFollowUp" => s.src = src
      /\ q.sync.st = "Discard" => s.st = "Discard"
  BY <1>1 DEF OnSync, Port
<1>3. [q EXCEPT !.sync = OnSync(@, seq, src), !.app = src] = a
  BY <1>1 DEF Port
<1> HIDE DEF s
<1>4. /\ a \in Port /\ a.sync = s /\ a.app = src
      /\ a.st = q.st /\ a.cap = q.cap /\ a.synced = q.synced
      /\ a.pd = q.pd /\ a.ann = q.ann /\ a.told = q.told /\ a.timer = q.timer
  BY <1>1, <1>2, ZenonT(30) DEF Port
<1> HIDE DEF a
<1>5. KeptAll(a, q)
  BY <1>2, <1>4 DEF KeptAll, Kept, Sound, Flags, Capable, IsUp, IsDown, Told
<1> QED BY <1>3, <1>5, ArmSound DEF KeptAll, Kept, Timer

\* The servo keeps its type.
LEMMA ServoType ==
    ASSUME NEW v \in Servo, NEW e \in Errors
    PROVE  Process(v, e) \in Servo
<1>1. CASE Backward(v, e)
  BY <1>1 DEF Process, Servo
<1>2. CASE ~Backward(v, e) /\ Large(e) /\ v.jumps + 1 >= JumpSamples
  BY <1>2, ServoAssumption DEF Process, Servo, FreshServo
<1>3. CASE ~Backward(v, e) /\ Large(e) /\ ~(v.jumps + 1 >= JumpSamples)
  <2>1. v.jumps + 1 \in 0..JumpSamples
    BY <1>3, ServoAssumption DEF Servo
  <2> QED BY <1>3, <2>1, ZenonT(30) DEF Process, Servo
<1>4. CASE ~Backward(v, e) /\ ~Large(e)
  BY <1>4, ServoAssumption DEF Process, Servo
<1> QED BY <1>1, <1>2, <1>3, <1>4

\* A FollowUp completes the pending pair and may lock the port.
LEMMA FollowUpFrameKeeps ==
    ASSUME NEW q, Sound(q), IsUp(q), NEW e \in Errors
    PROVE  LET a == [q EXCEPT !.sync = IdleSync(@), !.servo = Process(@, e)]
               r == IF ~a.synced /\ a.st = "Uncalibrated" THEN Fire(a, "FirstSyncLocked") ELSE a
           IN  Sound(Publish(r)) /\ IsUp(Publish(r)) /\ Told(Publish(r))
<1> DEFINE s == IdleSync(q.sync)
           v == Process(q.servo, e)
           a == [q EXCEPT !.sync = s, !.servo = v]
           f == Fire(a, "FirstSyncLocked")
           r == IF ~a.synced /\ a.st = "Uncalibrated" THEN f ELSE a
<1>1. q \in Port
  BY DEF Sound
<1>2. /\ s \in [st : {"Idle", "WaitFollowUp", "Discard"}, seq : SeqId,
                src : Masters \cup {NoMaster}]
      /\ s.st # "WaitFollowUp"
  BY PortAssumption DEF IdleSync, SeqId
<1>3. v \in Servo
  BY <1>1, ServoType DEF Port
<1>4. [q EXCEPT !.sync = IdleSync(@), !.servo = Process(@, e)] = a
  BY <1>1 DEF Port
<1> HIDE DEF s, v
<1>5. /\ a \in Port /\ a.sync = s
      /\ a.st = q.st /\ a.cap = q.cap /\ a.synced = q.synced
      /\ a.app = q.app /\ a.pd = q.pd /\ a.ann = q.ann
      /\ a.told = q.told /\ a.timer = q.timer
  BY <1>1, <1>2, <1>3, ZenonT(30) DEF Port
<1> HIDE DEF a
<1>6. Flags(a)
  BY <1>5 DEF Flags, Sound
<1>7. f \in Port /\ Flags(f) /\ SameRest(f, a)
  BY <1>5, <1>6, FireKeeps DEF Events
<1>8. f.st = IF a.st = "Uncalibrated" THEN "Slave" ELSE a.st
  BY <1>5, FireState
<1> HIDE DEF f
<1>9. /\ r \in Port /\ Flags(r) /\ SameRest(r, a) /\ (Out(r) <=> Out(a))
      /\ r.cap = a.cap
  <2>1. CASE ~a.synced /\ a.st = "Uncalibrated"
    <3>1. r = f /\ f.cap = a.cap
      BY <1>5, <1>6, <1>7, <1>8, <2>1 DEF Flags, Port
    <3> QED BY <1>7, <1>8, <2>1, <3>1 DEF Out
  <2>2. CASE ~(~a.synced /\ a.st = "Uncalibrated")
    BY <1>5, <1>6, <2>2 DEF SameRest
  <2> QED BY <2>1, <2>2
<1> HIDE DEF r
<1>10. Sound(r)
  BY <1>2, <1>5, <1>9 DEF Sound, SameRest, Capable, IsUp
<1>11. IsUp(r)
  BY <1>5, <1>9 DEF IsUp, Out, SameRest
<1>12. Sound(Publish(r)) /\ IsUp(Publish(r)) /\ Told(Publish(r))
  BY <1>10, <1>11, PublishSound
<1> QED BY <1>4, <1>12, ZenonT(30) DEF r, f

\* A Pdelay_Resp advances the open exchange.
LEMMA RespFrameKeeps ==
    ASSUME NEW q, Sound(q), NEW seq \in SeqId
    PROVE  KeptAll(Arm([q EXCEPT !.pd = PdResp(@, seq)], "receipt"), q)
<1> DEFINE d == PdResp(q.pd, seq)
           a == [q EXCEPT !.pd = d]
<1>1. q \in Port /\ q.pd \in Pdelay
  BY DEF Sound, Port
<1>2. d \in Pdelay /\ d.cap = q.pd.cap /\ (d.st = "NotEnabled" <=> q.pd.st = "NotEnabled")
  BY <1>1 DEF PdResp, Pdelay
<1>3. [q EXCEPT !.pd = PdResp(@, seq)] = a
  BY <1>1 DEF Port
<1> HIDE DEF d
<1>4. /\ a \in Port /\ a.pd = d
      /\ a.st = q.st /\ a.cap = q.cap /\ a.synced = q.synced
      /\ a.sync = q.sync /\ a.app = q.app
      /\ a.ann = q.ann /\ a.told = q.told /\ a.timer = q.timer
  BY <1>1, <1>2 DEF Port
<1> HIDE DEF a
<1>5. KeptAll(a, q)
  BY <1>2, <1>4 DEF KeptAll, Kept, Sound, Flags, Capable, IsUp, IsDown, Told
<1> QED BY <1>3, <1>5, ArmSound DEF KeptAll, Kept, Timer

\* A Pdelay_Resp_Follow_Up ends the exchange and reconciles asCapable.
LEMMA RespFollowUpFrameKeeps ==
    ASSUME NEW q, Sound(q), IsUp(q) \/ IsDown(q), NEW seq \in SeqId,
           NEW delay \in Delays, NEW ratio \in Ratios,
           NEW now \in [delay : Delays, ratio : Ratios],
           NEW told \in [delay : Delays, ratio : Ratios]
    PROVE  LET a == [q EXCEPT !.pd = PdRespFollowUp(q.pd, seq, delay, ratio),
                              !.link = now, !.told.link = told,
                              !.timer["receipt"] = FALSE, !.timer["interval"] = TRUE]
           IN  /\ Kept(Publish(SyncAsCapable(a, q.pd.cap)), q)
               /\ Told(Publish(SyncAsCapable(a, q.pd.cap)))
<1> DEFINE d == PdRespFollowUp(q.pd, seq, delay, ratio)
           t == [q.told EXCEPT !.link = told]
           u == [[q.timer EXCEPT !["receipt"] = FALSE] EXCEPT !["interval"] = TRUE]
           b == [q EXCEPT !.pd = d, !.link = now, !.told = t, !.timer = u]
           c == SyncAsCapable(b, q.pd.cap)
<1>1. q \in Port /\ q.pd \in Pdelay /\ q.pd.cap \in BOOLEAN
  BY DEF Sound, Port, Pdelay
<1>2. /\ d \in Pdelay
      /\ d.st = "NotEnabled" <=> q.pd.st = "NotEnabled"
      /\ d.cap /\ ~q.pd.cap => q.pd.st = "WaitFollowUp"
  BY <1>1, RespFollowUpFacts
<1>3. /\ t \in [synced : BOOLEAN, cap : BOOLEAN, gm : Masters \cup {NoMaster},
                link : [delay : Delays, ratio : Ratios]]
      /\ t.gm = q.told.gm
  BY <1>1 DEF Port
<1>4. /\ u \in [Timer -> BOOLEAN] /\ u["interval"]
      /\ u["sync"] = q.timer["sync"] /\ u["announce"] = q.timer["announce"]
  BY <1>1, ZenonT(30) DEF Port, Timer
<1>5. [q EXCEPT !.pd = d, !.link = now, !.told.link = told,
                !.timer["receipt"] = FALSE, !.timer["interval"] = TRUE] = b
  BY <1>1, ZenonT(30) DEF Port, Timer
<1> HIDE DEF d, t, u
<1>6. /\ b \in Port
      /\ b.st = q.st /\ b.cap = q.cap /\ b.synced = q.synced
      /\ b.sync = q.sync /\ b.app = q.app /\ b.ann = q.ann
      /\ b.told = t /\ b.timer = u /\ b.pd = d
  BY <1>1, <1>2, <1>3, <1>4, ZenonT(30) DEF Port
<1> HIDE DEF b
<1>7. /\ Flags(b) /\ (q.pd.cap => b.cap) /\ (~CapInitial => (b.cap => q.pd.cap))
      /\ b.pd.cap /\ ~q.pd.cap => ~Out(b)
  BY <1>2, <1>6 DEF Sound, Flags, Capable, Out, IsUp, IsDown
<1>8. /\ c \in Port /\ Flags(c) /\ SameRest(c, b) /\ Capable(c)
      /\ Out(c) <=> Out(b)
      /\ c.st = "Disabled" <=> b.st = "Disabled"
      /\ c.synced => b.synced
  BY <1>1, <1>6, <1>7, ReconcileFacts
<1> HIDE DEF c
<1>9. /\ c.timer = u /\ c.sync = q.sync /\ c.app = q.app /\ c.ann = q.ann
      /\ c.told = t /\ c.pd = d
  BY <1>6, <1>8 DEF SameRest
<1>10. Sound(c)
  BY <1>2, <1>3, <1>4, <1>6, <1>8, <1>9 DEF Sound
<1>11. IsUp(q) => IsUp(c)
  BY <1>4, <1>6, <1>8, <1>9, ZenonT(30) DEF IsUp, Out
<1>12. IsDown(q) => IsDown(c)
  BY <1>2, <1>6, <1>8, <1>9 DEF IsDown
<1>13. Kept(Publish(c), q) /\ Told(Publish(c))
  BY <1>10, <1>11, <1>12, PublishSound DEF Kept
<1> QED BY <1>5, <1>13 DEF c, d

\* An Announce latches its grandmaster and tells the observers of a change.
LEMMA AnnounceFrameKeeps ==
    ASSUME NEW q, Sound(q), NEW gm \in Masters, NEW src \in Masters
    PROVE  LET a == IF q.ann.on
                    THEN [q EXCEPT !.ann = [on |-> TRUE, gm |-> gm, src |-> src],
                                   !.told.gm = IF q.ann.gm # gm THEN gm ELSE @]
                    ELSE q
               r == Arm(a, "announce")
           IN  KeptAll(r, q)
<1> DEFINE n == [on |-> TRUE, gm |-> gm, src |-> src]
           g == IF q.ann.gm # gm THEN gm ELSE q.told.gm
           t == [q.told EXCEPT !.gm = g]
           a == IF q.ann.on THEN [q EXCEPT !.ann = n, !.told = t] ELSE q
           r == Arm(a, "announce")
<1>1. q \in Port
  BY DEF Sound
<1>2. g = gm \/ ~(q.ann.gm # gm)
  OBVIOUS
<1>3. g = gm
  <2>1. CASE q.ann.gm # gm
    BY <2>1
  <2>2. CASE q.ann.gm = gm
    BY <2>2, PortAssumption DEF Sound
  <2> QED BY <2>1, <2>2
<1>4. [q EXCEPT !.ann = [on |-> TRUE, gm |-> gm, src |-> src],
                !.told.gm = IF q.ann.gm # gm THEN gm ELSE @] = [q EXCEPT !.ann = n, !.told = t]
  BY <1>1 DEF Port
<1> HIDE DEF g
<1>5. /\ t \in [synced : BOOLEAN, cap : BOOLEAN, gm : Masters \cup {NoMaster},
                link : [delay : Delays, ratio : Ratios]]
      /\ t.gm = gm /\ t.synced = q.told.synced /\ t.cap = q.told.cap
  BY <1>1, <1>3 DEF Port
<1>6. /\ n \in [on : BOOLEAN, gm : Masters \cup {NoMaster}, src : Masters \cup {NoMaster}]
      /\ n.gm = gm
  OBVIOUS
<1> HIDE DEF n, t
<1>7. /\ a \in Port
      /\ a.st = q.st /\ a.cap = q.cap /\ a.synced = q.synced
      /\ a.sync = q.sync /\ a.app = q.app /\ a.pd = q.pd /\ a.timer = q.timer
      /\ a.ann.gm # NoMaster => a.told.gm = a.ann.gm
      /\ a.told.synced = q.told.synced /\ a.told.cap = q.told.cap
  <2>1. CASE q.ann.on
    BY <1>1, <1>5, <1>6, <2>1, ZenonT(30) DEF Port
  <2>2. CASE ~q.ann.on
    BY <1>1, <2>2 DEF Sound
  <2> QED BY <2>1, <2>2
<1>8. Sound(a) /\ (IsDown(q) => IsDown(a)) /\ (Told(q) => Told(a))
  <2> HIDE DEF a
  <2> QED BY <1>7 DEF Sound, Flags, Capable, IsDown, Told
<1> HIDE DEF a
<1>9. Sound(r) /\ (IsDown(q) => IsDown(r)) /\ (Told(q) => Told(r))
  BY <1>8, ArmSound DEF Timer
<1>10. /\ r.st = a.st /\ r.pd = a.pd /\ r.timer["announce"]
       /\ \A v \in Timer : a.timer[v] => r.timer[v]
  BY <1>7, ArmFacts DEF Timer
<1> HIDE DEF r
<1>11. IsUp(q) => IsUp(r)
  BY <1>7, <1>10 DEF IsUp, Timer
<1>12. KeptAll(r, q)
  BY <1>9, <1>11 DEF KeptAll, Kept
<1> QED BY <1>4, <1>12 DEF r, a

-----------------------------------------------------------------------------
(***************************************************************************)
(* The inductive invariant.                                                *)
(***************************************************************************)
\* A freshly constructed port satisfies the invariant.
LEMMA InitInvariant == Init => IInv
<1> SUFFICES ASSUME Init PROVE IInv
  OBVIOUS
<1>1. InitPd \in Pdelay /\ FreshServo \in Servo /\ NoLink \in [delay : Delays, ratio : Ratios]
  BY PortAssumption, ServoAssumption
  DEF InitPd, Pdelay, SeqId, FreshServo, Servo, NoLink
<1>2. 0 \in SeqId
  BY PortAssumption DEF SeqId
<1>3. InitPort \in Port
  BY <1>1, <1>2 DEF InitPort, Port, PortState
<1>4. Sound(InitPort) /\ IsNone(InitPort)
  BY <1>3, ZenonT(30) DEF Sound, Flags, Capable, IsNone, InitPort, InitPd
<1>5. sample \in SampleType /\ OneMaster
  BY DEF Init, NoSample, SampleType, OneMaster
<1> QED BY <1>4, <1>5, ZenonT(30) DEF Init, IInv

\* Every step of the port keeps the invariant.
LEMMA NextInvariant == IInv /\ [Next]_vars => IInv'
<1> SUFFICES ASSUME IInv, [Next]_vars PROVE IInv'
  OBVIOUS
<1>1. Sound(p) /\ p \in Port
  BY ZenonT(30) DEF IInv, Sound
<1>2. ASSUME running, link # "none" PROVE IsUp(p) \/ IsDown(p)
  BY <1>2 DEF IInv
<1>3. ASSUME UNCHANGED <<running, link, sample>>, running,
             Sound(p'), link = "up" => IsUp(p') /\ Told(p'),
             link = "down" => IsDown(p'),
             link = "none" => IsNone(p') /\ p'.st = "Disabled"
      PROVE  IInv'
  BY <1>3 DEF IInv, OneMaster
<1>4. ASSUME NEW up \in BOOLEAN, Start(up) PROVE IInv'
  <2>1. link = "none" /\ IsNone(p)
    BY <1>4 DEF Start, IInv
  <2>2. Sound(Started(p)) /\ IsNone(Started(p)) /\ Started(p).st = "Disabled"
    BY <1>1, <2>1, StartedFacts
  <2>3. /\ Sound(LinkUpOf(Started(p))) /\ IsUp(LinkUpOf(Started(p)))
        /\ Told(LinkUpOf(Started(p)))
    BY <2>2, LinkUpFacts
  <2> QED BY <1>4, <2>2, <2>3 DEF Start, IInv, OneMaster
<1>5. CASE Stop
  <2> DEFINE n == [on |-> FALSE, gm |-> NoMaster, src |-> NoMaster]
             a == Fire(p, "AdministrativeDisable")
             r == Quieted(p, "AdministrativeDisable", n, p.servo)
  <2>1. n \in [on : BOOLEAN, gm : Masters \cup {NoMaster}, src : Masters \cup {NoMaster}]
    OBVIOUS
  <2>2. p.servo \in Servo
    BY <1>1 DEF Port
  <2>3. a \in Port /\ SameRest(a, p)
    BY <1>1, FireKeeps DEF Events, Sound
  <2>4. /\ Sound(r) /\ r.pd.st = "NotEnabled"
        /\ r.st = IF p.st = "Start" THEN "Start" ELSE "Disabled"
        /\ \A t \in Timer : ~r.timer[t]
    <3>1. n.gm = NoMaster
      OBVIOUS
    <3> HIDE DEF n
    <3> QED BY <1>1, <2>1, <2>2, <3>1, QuietFacts
  <2>5. p' = r
    <3> HIDE DEF a
    <3>1. p' = [a EXCEPT !.sync = DiscardSync(@), !.pd = DisablePd(@),
                         !.ann = n, !.timer = Unarmed]
      BY <1>5 DEF Stop, a
    <3>2. r = [a EXCEPT !.sync = DiscardSync(p.sync), !.pd = DisablePd(p.pd),
                        !.ann = n, !.servo = p.servo, !.timer = Unarmed]
      BY DEF Quieted, a
    <3> HIDE DEF n, r
    <3> QED BY <3>1, <3>2, <2>3, ZenonT(30) DEF Port, SameRest
  <2> HIDE DEF r
  <2>6. Sound(p') /\ IsNone(p')
    BY <2>4, <2>5 DEF IsNone
  <2> QED BY <1>5, <2>6, ZenonT(30) DEF Stop, IInv, OneMaster
<1>6. CASE LinkUp
  <2>1. p.st = "Disabled"
    BY <1>6 DEF LinkUp, IInv, IsDown
  <2>2. Sound(LinkUpOf(p)) /\ IsUp(LinkUpOf(p)) /\ Told(LinkUpOf(p))
    BY <1>1, <2>1, LinkUpFacts
  <2> QED BY <1>6, <2>2 DEF LinkUp, IInv, OneMaster
<1>7. CASE LinkDown
  <2> DEFINE a == Fire(p, "LinkDown")
             r == Quieted(p, "LinkDown", p.ann, FreshServo)
  <2>1. FreshServo \in Servo
    BY ServoAssumption DEF FreshServo, Servo
  <2>2. p.ann \in [on : BOOLEAN, gm : Masters \cup {NoMaster}, src : Masters \cup {NoMaster}]
    BY <1>1 DEF Port
  <2>3. a \in Port /\ SameRest(a, p)
    BY <1>1, FireKeeps DEF Events, Sound
  <2>4. /\ Sound(r) /\ r.pd.st = "NotEnabled" /\ r.sync.st = "Discard"
        /\ r.st = IF p.st = "Start" THEN "Start" ELSE "Disabled"
    BY <1>1, <2>1, <2>2, QuietFacts
  <2>5. p' = Publish(r)
    <3> HIDE DEF a
    <3>1. p' = Publish([a EXCEPT !.sync = DiscardSync(@), !.pd = DisablePd(@),
                                 !.servo = FreshServo, !.timer = Unarmed])
      BY <1>7 DEF LinkDown, a
    <3>2. r = [a EXCEPT !.sync = DiscardSync(p.sync), !.pd = DisablePd(p.pd),
                        !.ann = p.ann, !.servo = FreshServo, !.timer = Unarmed]
      BY DEF Quieted, a
    <3> HIDE DEF r
    <3> QED BY <3>1, <3>2, <2>3, ZenonT(30) DEF Port, SameRest
  <2> HIDE DEF r
  <2>6. IsDown(r)
    BY <1>7, <2>4 DEF IsDown, LinkDown, IInv, IsUp
  <2>7. Sound(p') /\ IsDown(p')
    BY <2>4, <2>5, <2>6, PublishSound
  <2> QED BY <1>7, <2>7 DEF LinkDown, IInv, OneMaster
<1>8. ASSUME NEW seq \in SeqId, NEW src \in Masters, RxSync(seq, src) PROVE IInv'
  BY <1>1, <1>3, <1>8, SyncFrameKeeps, ZenonT(30) DEF RxSync, Receiving, KeptAll, Kept, IInv
<1>9. ASSUME NEW seq \in SeqId, NEW src \in Masters, NEW e \in Errors,
             RxFollowUp(seq, src, e)
      PROVE  IInv'
  <2>1. link = "up" /\ IsUp(p) /\ running
    BY <1>9 DEF RxFollowUp, Receiving, Pairs, IInv, IsDown
  <2>2. Sound(p') /\ IsUp(p') /\ Told(p')
    BY <1>1, <1>9, <2>1, FollowUpFrameKeeps, ZenonT(30) DEF RxFollowUp
  <2>3. /\ p.sync.src = src /\ p.app = src
        /\ ~Verify \/ p.ann.src = NoMaster \/ src = p.ann.src
    BY <1>1, <1>9 DEF RxFollowUp, Pairs, SourceIsGrandmaster, Sound
  <2>4. sample' = [fu |-> src, sync |-> src, app |-> src, gm |-> p.ann.src]
    BY <1>9, <2>3 DEF RxFollowUp
  <2>5. p.ann.src \in Masters \cup {NoMaster}
    BY <1>1 DEF Port
  <2>6. sample' \in SampleType /\ OneMaster'
    BY <2>3, <2>4, <2>5 DEF SampleType, OneMaster
  <2> QED BY <1>9, <2>1, <2>2, <2>6 DEF RxFollowUp, IInv
<1>10. ASSUME NEW seq \in SeqId, RxPdelayResp(seq) PROVE IInv'
  BY <1>1, <1>3, <1>10, RespFrameKeeps DEF RxPdelayResp, Receiving, KeptAll, Kept, IInv
<1>11. ASSUME NEW seq \in SeqId, NEW delay \in Delays, NEW ratio \in Ratios,
              RxPdelayRespFollowUp(seq, delay, ratio)
       PROVE  IInv'
  <2> DEFINE d == PdRespFollowUp(p.pd, seq, delay, ratio)
             now == IF Measures(p.pd, seq) THEN [delay |-> delay, ratio |-> d.ratio]
                    ELSE p.link
             told == IF now.delay # p.link.delay THEN now ELSE p.told.link
  <2>1. d \in Pdelay
    BY <1>1, RespFollowUpFacts DEF Port
  <2> HIDE DEF d
  <2>2. now \in [delay : Delays, ratio : Ratios]
    BY <1>1, <2>1 DEF Port, Pdelay
  <2>3. told \in [delay : Delays, ratio : Ratios]
    <3> HIDE DEF now
    <3> QED BY <1>1, <2>2 DEF Port
  <2>4. running /\ link # "none" /\ UNCHANGED <<running, link, sample>>
    BY <1>11 DEF RxPdelayRespFollowUp, Receiving
  <2>5. p' = Publish(SyncAsCapable([p EXCEPT !.pd = d, !.link = now, !.told.link = told,
                           !.timer["receipt"] = FALSE, !.timer["interval"] = TRUE], p.pd.cap))
    BY <1>11 DEF RxPdelayRespFollowUp, d
  <2> HIDE DEF now, told
  <2>6. Kept(p', p) /\ Told(p')
    BY <1>1, <1>2, <2>2, <2>3, <2>4, <2>5, RespFollowUpFrameKeeps, ZenonT(30) DEF d
  <2> QED BY <1>3, <2>4, <2>6 DEF Kept, IInv
<1>12. ASSUME NEW gm \in Masters, NEW src \in Masters, RxAnnounce(gm, src) PROVE IInv'
  <2>1. KeptAll(p', p)
    BY <1>1, <1>12, AnnounceFrameKeeps, ZenonT(30) DEF RxAnnounce
  <2> QED BY <1>3, <1>12, <2>1 DEF RxAnnounce, Receiving, KeptAll, Kept, IInv
<1>13. ASSUME NEW seq \in SeqId, ReportTx(seq) PROVE IInv'
  <2>1. p.pd \in Pdelay
    BY <1>1 DEF Port
  <2> DEFINE d == [p.pd EXCEPT !.t1 = TRUE]
  <2>2. d \in Pdelay /\ d.st = p.pd.st /\ d.cap = p.pd.cap
    BY <2>1, ZenonT(30) DEF Pdelay
  <2>3. p' = [p EXCEPT !.pd = d]
    BY <1>1, <1>13 DEF ReportTx, Port
  <2> HIDE DEF d
  <2>4. /\ p' \in Port /\ p'.pd = d
        /\ p'.st = p.st /\ p'.cap = p.cap /\ p'.synced = p.synced
        /\ p'.sync = p.sync /\ p'.app = p.app
        /\ p'.ann = p.ann /\ p'.told = p.told /\ p'.timer = p.timer
    BY <1>1, <2>2, <2>3 DEF Port
  <2>5. Sound(p')
    BY <1>1, <2>2, <2>4 DEF Sound, Flags, Capable
  <2>6. /\ IsUp(p) => IsUp(p')
        /\ IsDown(p) => IsDown(p')
        /\ IsNone(p) => IsNone(p')
        /\ Told(p) => Told(p')
    BY <2>2, <2>4 DEF IsUp, IsDown, IsNone, Told
  <2> QED BY <1>3, <1>13, <2>4, <2>5, <2>6 DEF ReportTx, IInv
<1>14. ASSUME NEW due \in SUBSET Timer, NEW stamped \in BOOLEAN, Tick(due, stamped)
       PROVE  IInv'
  <2>1. running /\ UNCHANGED <<running, link, sample>> /\ p' = Ticked(due, stamped)
    BY <1>14 DEF Tick
  <2>2. CASE link = "none"
    <3>1. \A t \in Timer : t \notin due
      BY <1>14, <2>2, ZenonT(30) DEF Tick, IInv, IsNone
    <3>2. p' = Publish(p)
      BY <2>1, <3>1 DEF Ticked, Timer
    <3> QED BY <1>1, <1>3, <2>1, <2>2, <3>2, PublishSound DEF IInv
  <2>3. CASE link # "none"
    <3>1. Kept(p', p) /\ Told(p')
      BY <1>1, <1>2, <2>1, <2>3, TickKeeps
    <3> QED BY <1>3, <2>1, <2>3, <3>1 DEF Kept, IInv
  <2> QED BY <2>2, <2>3
<1>15. CASE UNCHANGED vars
  BY <1>15 DEF vars, IInv, OneMaster
<1> QED
  BY <1>4, <1>5, <1>6, <1>7, <1>8, <1>9, <1>10, <1>11, <1>12, <1>13, <1>14, <1>15
  DEF Next

\* The inductive invariant holds in every behaviour.
THEOREM InvariantCorrect == Spec => []IInv
BY InitInvariant, NextInvariant, PTL DEF Spec

\* The port keeps its type whatever frames arrive and in whatever order.
THEOREM TypeCorrect == Spec => []TypeOK
<1>1. IInv => TypeOK
  BY DEF IInv, TypeOK, Sound, SampleType
<1> QED BY <1>1, InvariantCorrect, PTL

\* as_capable and synced are those of the lifecycle state.
THEOREM FlagsCorrect == Spec => []FlagsFollowState
<1>1. IInv => FlagsFollowState
  BY DEF IInv, Sound, Flags, FlagsFollowState
<1> QED BY <1>1, InvariantCorrect, PTL

\* publish_state_changes and the announce handlers leave no observer behind.
THEOREM ObserversCorrect == Spec => []ObserversTold
<1>1. IInv => ObserversTold
  BY DEF IInv, Sound, Told, ObserversTold
<1> QED BY <1>1, InvariantCorrect, PTL

\* sync_as_capable keeps the port and its Pdelay engine in agreement.
THEOREM CapableCorrect == Spec => []CapableAgrees
<1>1. IInv => CapableAgrees
  BY DEF IInv, Sound, Capable, CapableAgrees
<1> QED BY <1>1, InvariantCorrect, PTL

\* No sample given to the servo mixes two masters.
THEOREM OneMasterCorrect == Spec => []OneMasterPerSample
<1>1. IInv => OneMasterPerSample
  BY DEF IInv, OneMaster, OneMasterPerSample
<1> QED BY <1>1, InvariantCorrect, PTL

\* An enabled Pdelay engine on an up link always has a timer armed.
THEOREM PdelayCorrect == Spec => []PdelayNeverStalls
<1>1. IInv => PdelayNeverStalls
  BY DEF IInv, IsUp, PdelayNeverStalls
<1> QED BY <1>1, InvariantCorrect, PTL

\* The timeouts that detect the loss of sync and of the grandmaster are armed.
THEOREM WatchCorrect == Spec => []LossIsWatched
<1>1. IInv => LossIsWatched
  BY DEF IInv, Sound, IsUp, LossIsWatched
<1> QED BY <1>1, InvariantCorrect, PTL

\* Flags, observers, Pdelay engine and timers of a port agree after every step.
THEOREM PortCorrect == Spec => []PortAgrees
BY TypeCorrect, FlagsCorrect, ObserversCorrect, CapableCorrect, WatchCorrect, PTL
   DEF PortAgrees
=============================================================================
