----------------------------- MODULE HostProofs -----------------------------
(***************************************************************************)
(* Proofs about the host of an entity and about the ACMP listener it runs. *)
(*                                                                         *)
(* EntityHost: for every set of talker streams and grandmasters, every     *)
(* number of MAAP blocks and of changes of the world.                      *)
(*                                                                         *)
(* Acmp: for any talkers, sinks, controllers, table sizes and number of    *)
(* faults.  Sound(x) is what holds of the listener between two handlers;   *)
(* it is inductive together with the types of the messages that can reach  *)
(* it.  Serves(x, y) relates the listener before and after a handler or a  *)
(* part of one: y is sound, what x had to send is still sent, and a        *)
(* command that left the slot is answered.  It is transitive, so a tick is *)
(* proved from check_timeout and fast_connect_tick.                        *)
(***************************************************************************)
EXTENDS EntityHost, Acmp, TLAPS

\* A leaf goes to the SMT solver, again if its translation ran out of time.
USE SMTT(60), SMTT(50), SMTT(40)

-----------------------------------------------------------------------------
(***************************************************************************)
(* What ties the machines of one entity together, whatever the loop and    *)
(* the world do.                                                           *)
(***************************************************************************)
MachinesAgree(h) ==
    /\ h.sup = "Ready" <=> h.gptp = "Locked"
    /\ h.sup = "Init" <=> h.gptp = "Acquiring"
    /\ h.sup = "Init" => ~h.locked
    /\ h.sup \in {"Down", "Init"} => h.tkr \in {"Start", "Idle"}
    /\ h.sup = "Ready" => h.tkr \in {"Advertising", "Ready"}
    /\ h.sup = "Down" => ~h.adp /\ ~h.send /\ h.eng = "Off"

Declares(h) ==
    h.sup = "Ready" =>
        h.dom /\ (h.maap => \A s \in TalkerStreams : h.adv[s] = h.dest)

\* An entity whose machines have left Start.
Running(h) == h \in Host /\ h.sup # "Start" /\ MachinesAgree(h) /\ Declares(h)

HostIInv ==
    /\ HostTypeOK
    /\ runner.last = "Start" <=> host.sup = "Start"
    /\ host.sup = "Start" => ~runner.on /\ host.gptp = "Start"
    /\ host.sup # "Start" => MachinesAgree(host)
    /\ runner.on => Declares(host)
    /\ ~runner.on =>
         ~host.adp /\ ~host.dom /\ \A s \in TalkerStreams : host.adv[s] = Unset

-----------------------------------------------------------------------------
\* The advertisement changes what is declared and nothing else.
LEMMA AdvertiseFields ==
    ASSUME NEW h \in Host
    PROVE  LET q == MsrpTalkerAdvertise(h)
           IN  /\ q \in Host
               /\ q.sup = h.sup /\ q.gptp = h.gptp /\ q.tkr = h.tkr
               /\ q.eng = h.eng /\ q.locked = h.locked /\ q.send = h.send
               /\ q.adp = h.adp /\ q.maap = h.maap /\ q.dest = h.dest
               /\ q.dom
               /\ h.maap => \A s \in TalkerStreams : q.adv[s] = h.dest
BY ZenonT(30) DEF MsrpTalkerAdvertise, AdvertiseTalkerStreams, Host

\* The Down entry hook leaves the entity silent and its machines reset.
LEMMA StopAllFields ==
    ASSUME NEW h \in Host
    PROVE  LET q == StopAll(h)
           IN  /\ q \in Host
               /\ q.sup = h.sup /\ q.locked = h.locked
               /\ q.gptp = "Start" /\ q.tkr = "Start" /\ q.eng = "Off"
               /\ ~q.adp /\ ~q.send
BY ZenonT(30) DEF StopAll, EngineEvent, Host

\* init_iface and the entry hook of Down.
LEMMA BeginAgrees ==
    ASSUME NEW h \in Host, h.sup = "Start"
    PROVE  LET q == SupervisorBegin(h)
           IN  q \in Host /\ q.sup = "Down" /\ MachinesAgree(q)
<1> DEFINE g == [h EXCEPT !.gptp = "Start", !.mvrp = "Start", !.sup = "Down"]
<1>1. g \in Host /\ g.sup = "Down"
  BY ZenonT(30) DEF Host
<1>2. SupervisorBegin(h) = StopAll(g)
  BY <1>1 DEF SupervisorBegin
<1> QED BY <1>1, <1>2, StopAllFields, ZenonT(30) DEF MachinesAgree

\* Ready after Init: every talker stream is declared where ACMP says it is.
LEMMA EnterReadyDeclares ==
    ASSUME NEW h \in Host, h.sup = "Ready", h.tkr \in {"Start", "Idle"}
    PROVE  LET q == EnterReady(h)
           IN  /\ q \in Host
               /\ q.sup = "Ready" /\ q.gptp = h.gptp /\ q.tkr = "Advertising"
               /\ q.locked = h.locked
               /\ Declares(q)
<1> DEFINE m == MvrpAcquire(h)
           b == TalkerBegin(m)
           a == [b EXCEPT !.tkr = "Advertising"]
           q == EnterReady(h)
<1>1. m \in Host /\ m.sup = "Ready" /\ m.tkr = h.tkr /\ m.gptp = h.gptp
      /\ m.locked = h.locked
  BY DEF MvrpAcquire, Host
<1> HIDE DEF m
<1>2. b \in Host /\ b.sup = "Ready" /\ b.tkr = "Idle" /\ b.gptp = h.gptp
      /\ b.locked = h.locked
  BY <1>1 DEF TalkerBegin, Host
<1> HIDE DEF b
<1>3. a \in Host /\ a.sup = "Ready" /\ a.tkr = "Advertising" /\ a.gptp = h.gptp
      /\ a.locked = h.locked
  BY <1>2 DEF Host
<1>4. TalkerEvent(m, "StartAdvertise") = MsrpTalkerAdvertise(a)
  BY <1>2 DEF TalkerEvent, b
<1> HIDE DEF a
<1> DEFINE t == MsrpTalkerAdvertise(a)
<1>5. /\ t \in Host /\ t.sup = "Ready" /\ t.tkr = "Advertising"
      /\ t.gptp = h.gptp /\ t.locked = h.locked /\ Declares(t)
  BY <1>3, AdvertiseFields DEF Declares
<1>6. q = [t EXCEPT !.send = TRUE]
  BY <1>4, ZenonT(30) DEF EnterReady, m
<1> HIDE DEF t, q
<1>7. /\ q \in Host /\ q.sup = t.sup /\ q.tkr = t.tkr /\ q.gptp = t.gptp
      /\ q.locked = t.locked /\ q.dom = t.dom /\ q.maap = t.maap
      /\ q.adv = t.adv /\ q.dest = t.dest
  BY <1>5, <1>6, ZenonT(30) DEF Host
<1>8. Declares(q)
  BY <1>5, <1>7 DEF Declares
<1> QED BY <1>5, <1>7, <1>8 DEF q

\* LinkUp in Down starts the protocols.
LEMMA StartProtocolsFields ==
    ASSUME NEW h \in Host
    PROVE  LET q == [StartProtocols(h) EXCEPT !.sup = "Init"]
           IN  /\ q \in Host
               /\ q.sup = "Init" /\ q.tkr = h.tkr
               /\ h.gptp \in {"Start", "Unlocked"} =>
                      q.gptp = "Acquiring" /\ ~q.locked
BY ZenonT(30) DEF StartProtocols, GptpAsCapableUp, Host

\* The supervisor leaves the machines of a started entity in agreement, also
\* when gPTP has just locked and it is told so.
LEMMA SupervisorKeeps ==
    ASSUME NEW h, Running(h), NEW e \in {"LinkUp", "LinkDown", "Timeout"}
    PROVE  Running(SupervisorEvent(h, e))
<1>0. h \in Host /\ SupervisorBegin(h) = h
  BY DEF Running, SupervisorBegin
<1>1. CASE h.sup = "Down" /\ e = "LinkUp"
  <2>1. SupervisorEvent(h, e) = [StartProtocols(h) EXCEPT !.sup = "Init"]
    BY <1>0, <1>1 DEF SupervisorEvent
  <2>2. h.gptp \in {"Start", "Unlocked"} /\ h.tkr \in {"Start", "Idle"}
    BY <1>0, <1>1 DEF Running, MachinesAgree, Host
  <2> QED BY <1>0, <2>1, <2>2, StartProtocolsFields
          DEF Running, MachinesAgree, Declares
<1>2. CASE \/ h.sup \in {"Init", "Ready"} /\ e = "LinkDown"
           \/ h.sup = "Init" /\ e = "Timeout"
  <2> DEFINE d == [h EXCEPT !.sup = "Down"]
  <2>1. SupervisorEvent(h, e) = StopAll(d)
    BY <1>0, <1>2 DEF SupervisorEvent
  <2>2. d \in Host /\ d.sup = "Down"
    BY <1>0 DEF Host
  <2> HIDE DEF d
  <2> QED BY <2>1, <2>2, StopAllFields DEF Running, MachinesAgree, Declares
<1>3. CASE /\ ~(h.sup = "Down" /\ e = "LinkUp")
           /\ ~(h.sup \in {"Init", "Ready"} /\ e = "LinkDown")
           /\ ~(h.sup = "Init" /\ e = "Timeout")
  <2>1. SupervisorEvent(h, e) = h
    BY <1>0, <1>3 DEF SupervisorEvent
  <2> QED BY <2>1
<1> QED BY <1>1, <1>2, <1>3

\* The first LinkUp takes an entity from Start to Init.
LEMMA SupervisorStarts ==
    ASSUME NEW h \in Host, h.sup = "Start"
    PROVE  Running(SupervisorEvent(h, "LinkUp"))
<1> DEFINE b == SupervisorBegin(h)
<1>1. b \in Host /\ b.sup = "Down" /\ MachinesAgree(b)
  BY BeginAgrees
<1>2. SupervisorEvent(h, "LinkUp") = [StartProtocols(b) EXCEPT !.sup = "Init"]
  BY <1>1 DEF SupervisorEvent
<1>3. b.gptp \in {"Start", "Unlocked"} /\ b.tkr \in {"Start", "Idle"}
  BY <1>1 DEF MachinesAgree, Host
<1> HIDE DEF b
<1> QED BY <1>1, <1>2, <1>3, StartProtocolsFields, ZenonT(30)
        DEF Running, MachinesAgree, Declares

\* The announce handler, with the report to the supervisor when gPTP locks.
LEMMA AnnounceKeeps ==
    ASSUME NEW h, Running(h)
    PROVE  Running(OnGptpAnnounce(h))
<1>0. h \in Host
  BY DEF Running
<1>1. CASE h.locked
  BY <1>1 DEF OnGptpAnnounce
<1>2. CASE ~h.locked /\ h.gptp = "Acquiring"
  <2> DEFINE l == [h EXCEPT !.gptp = "Locked", !.locked = TRUE]
             r == [l EXCEPT !.sup = "Ready"]
  <2>1. h.sup = "Init" /\ h.tkr \in {"Start", "Idle"}
    BY <1>0, <1>2 DEF Running, MachinesAgree
  <2>2. l \in Host /\ l.sup = "Init" /\ l.gptp = "Locked"
    BY <1>0, <2>1, ZenonT(30) DEF Host
  <2>3. r \in Host /\ r.sup = "Ready" /\ r.gptp = "Locked"
        /\ r.tkr \in {"Start", "Idle"}
    BY <1>0, <2>1, ZenonT(30) DEF Host
  <2>4. OnGptpAnnounce(h) = SupervisorEvent(l, "GptpLocked")
    BY <1>2 DEF OnGptpAnnounce, GptpLockedStable
  <2>5. SupervisorBegin(l) = l
    BY <2>2 DEF SupervisorBegin
  <2> HIDE DEF l
  <2>6. SupervisorEvent(l, "GptpLocked") = EnterReady(r)
    BY <2>2, <2>5 DEF SupervisorEvent
  <2> HIDE DEF r
  <2> QED BY <2>3, <2>4, <2>6, EnterReadyDeclares DEF Running, MachinesAgree
<1>3. CASE ~h.locked /\ h.gptp # "Acquiring"
  <2>1. OnGptpAnnounce(h) =
          IF h.gptp = "Start" THEN [h EXCEPT !.gptp = "Unlocked"] ELSE h
    BY <1>3 DEF OnGptpAnnounce, GptpLockedStable
  <2> QED BY <1>0, <1>3, <2>1 DEF Running, MachinesAgree, Declares, Host
<1> QED BY <1>1, <1>2, <1>3

\* A Listener's report moves the talker machine only within what the
\* supervisor's state allows.
LEMMA TalkerKeeps ==
    ASSUME NEW h, Running(h), NEW e \in {"Ready", "Lost"}
    PROVE  Running(TalkerEvent(h, e))
<1> DEFINE b == TalkerBegin(h)
<1>1. /\ Running(b)
      /\ b.tkr \in {"Idle", "Advertising", "Ready"}
      /\ b \in Host
  BY DEF TalkerBegin, Running, MachinesAgree, Declares, Host
<1>2. CASE b.tkr = "Advertising" /\ e = "Ready"
  <2> DEFINE r == [b EXCEPT !.tkr = "Ready"]
  <2>1. b.sup = "Ready"
    BY <1>1, <1>2 DEF Running, MachinesAgree, Host
  <2>2. TalkerEvent(h, e) = EngineEvent(r, "AudioReady")
    BY <1>2, <2>1, <1>1 DEF TalkerEvent, Host
  <2> HIDE DEF b
  <2>3. r \in Host /\ Running(r) /\ r.sup = "Ready"
    BY <1>1, <2>1 DEF Running, MachinesAgree, Declares, Host
  <2> HIDE DEF r
  <2> QED BY <2>2, <2>3 DEF EngineEvent, Running, MachinesAgree, Declares, Host
<1>3. CASE b.tkr = "Ready" /\ e = "Lost"
  <2> DEFINE a == [b EXCEPT !.tkr = "Advertising"]
  <2>1. TalkerEvent(h, e) = MsrpTalkerAdvertise(a)
    BY <1>3 DEF TalkerEvent
  <2> HIDE DEF b
  <2>2. /\ a \in Host /\ a.sup = "Ready" /\ a.tkr = "Advertising"
        /\ a.gptp = "Locked"
    BY <1>1, <1>3 DEF Running, MachinesAgree, Host
  <2> HIDE DEF a
  <2> QED BY <2>1, <2>2, AdvertiseFields DEF Running, MachinesAgree, Declares
<1>4. CASE ~(b.tkr = "Advertising" /\ e = "Ready") /\ ~(b.tkr = "Ready" /\ e = "Lost")
  <2>1. TalkerEvent(h, e) = b
    BY <1>4 DEF TalkerEvent
  <2> QED BY <1>1, <2>1
<1> QED BY <1>2, <1>3, <1>4


-----------------------------------------------------------------------------
RunningLoop == [on : BOOLEAN, last : {"Down", "Init", "Ready"}, aged : BOOLEAN,
                gm : Masters \cup {NoMaster}, had : BOOLEAN]

World == [link : {"up", "down"}, seen : {"up", "down"},
          gm : Masters \cup {NoMaster}, heard : BOOLEAN, left : 0..MaxChanges]

LEMMA HostInitInv == HostInit => HostIInv
<1> SUFFICES ASSUME HostInit PROVE HostIInv
  OBVIOUS
<1>1. host \in Host
  BY HostAssumption DEF HostInit, FreshHost, Host
<1>2. lan \in World
  <2>1. lan \in [link : {"up", "down"}, seen : {"up"}, gm : {NoMaster},
                 heard : {FALSE}, left : {MaxChanges}]
    BY ZenonT(30) DEF HostInit
  <2>2. MaxChanges \in 0..MaxChanges
    BY HostAssumption
  <2> QED BY <2>1, <2>2, ZenonT(30) DEF World
<1>3. host.sup = "Start" /\ host.gptp = "Start" /\ ~host.adp /\ ~host.dom
      /\ \A s \in TalkerStreams : host.adv[s] = Unset
  BY DEF HostInit, FreshHost
<1> QED BY <1>1, <1>2, <1>3 DEF HostInit, HostIInv, HostTypeOK, World

\* A step that leaves the loop running.
LEMMA RunningStep ==
    ASSUME Running(host'), runner' \in RunningLoop, runner'.on, lan' \in World
    PROVE  HostIInv'
BY DEF HostIInv, HostTypeOK, Running, RunningLoop, World

\* While the loop runs the entity has started.
LEMMA OnIsRunning ==
    ASSUME HostIInv, runner.on
    PROVE  Running(host) /\ runner \in RunningLoop
BY DEF HostIInv, HostTypeOK, Running, RunningLoop

LEMMA WorldType ==
    ASSUME HostIInv
    PROVE  lan \in World
BY DEF HostIInv, HostTypeOK, World

\* Every reactor callback and every pass of the loop keeps the invariant.
LEMMA HostStep ==
    ASSUME HostIInv, [HostNext]_hostVars
    PROVE  HostIInv'
<1>0. lan \in World
  BY WorldType
<1>1. ASSUME NEW maapMode \in BOOLEAN, Start(maapMode) PROVE HostIInv'
  <2> DEFINE f == [host EXCEPT !.maap = ~maapMode]
             h == SupervisorEvent(f, "LinkUp")
  <2>1. f \in Host /\ f.sup = "Start"
    BY <1>1, ZenonT(30) DEF Start, HostIInv, HostTypeOK, Host
  <2>2. Running(h)
    BY <2>1, SupervisorStarts, ZenonT(30)
  <2>3. host' = h /\ runner' = [runner EXCEPT !.on = TRUE, !.last = h.sup]
    BY <1>1 DEF Start
  <2> HIDE DEF h
  <2>4. runner' \in RunningLoop /\ runner'.on
    BY <2>2, <2>3, ZenonT(30) DEF HostIInv, HostTypeOK, RunningLoop, Running, Host
  <2>5. lan' \in World
    BY <1>0, <1>1 DEF Start, World
  <2> QED BY <2>2, <2>3, <2>4, <2>5, RunningStep
<1>2. ASSUME Stop PROVE HostIInv'
  <2>1. Running(host) /\ runner \in RunningLoop
    BY <1>2, OnIsRunning DEF Stop
  <2>2. /\ host' \in Host /\ host'.sup = host.sup /\ MachinesAgree(host')
        /\ ~host'.adp /\ ~host'.dom
        /\ \A s \in TalkerStreams : host'.adv[s] = Unset
    BY <1>2, <2>1, ZenonT(30) DEF Stop, WithdrawFromTheNetwork, Running, MachinesAgree, Host
  <2>3. runner' \in RunningLoop /\ ~runner'.on
    BY <1>2, <2>1, ZenonT(30) DEF Stop, RunningLoop
  <2>4. lan' \in World
    BY <1>0, <1>2 DEF Stop
  <2> QED BY <2>1, <2>2, <2>3, <2>4
          DEF HostIInv, HostTypeOK, Running, RunningLoop, World
<1>3. ASSUME LinkReport PROVE HostIInv'
  <2>1. Running(host) /\ runner' \in RunningLoop /\ runner'.on
    BY <1>3, OnIsRunning DEF LinkReport
  <2>2. Running(host')
    BY <1>3, <2>1, SupervisorKeeps DEF LinkReport
  <2>3. lan' \in World
    BY <1>0, <1>3 DEF LinkReport, World
  <2> QED BY <2>1, <2>2, <2>3, RunningStep
<1>4. ASSUME RxAnnounce PROVE HostIInv'
  <2>1. Running(host) /\ runner \in RunningLoop
    BY <1>4, OnIsRunning DEF RxAnnounce
  <2>2. Running(host')
    BY <1>4, <2>1, AnnounceKeeps DEF RxAnnounce
  <2>3. runner' \in RunningLoop /\ runner'.on /\ lan' \in World
    BY <1>0, <1>4, <2>1, ZenonT(30) DEF RxAnnounce, RunningLoop, World
  <2> QED BY <2>2, <2>3, RunningStep
<1>5. ASSUME NEW ready \in BOOLEAN, NoteListener(ready) PROVE HostIInv'
  <2>1. Running(host) /\ runner' \in RunningLoop /\ runner'.on
    BY <1>5, OnIsRunning DEF NoteListener
  <2>2. Running(host')
    BY <1>5, <2>1, TalkerKeeps DEF NoteListener
  <2>3. lan' \in World
    BY <1>0, <1>5, HostAssumption DEF NoteListener, World
  <2> QED BY <2>1, <2>2, <2>3, RunningStep
<1>6. ASSUME MaapAcquired PROVE HostIInv'
  <2> DEFINE h == [host EXCEPT !.dest = @ + 1, !.maap = TRUE]
  <2>1. /\ Running(host) /\ runner' \in RunningLoop /\ runner'.on
        /\ lan' \in World
    BY <1>0, <1>6, OnIsRunning DEF MaapAcquired
  <2>7. host \in Host /\ host.dest + 1 \in 0..MaxAcquired
    BY <1>6, <2>1, HostAssumption DEF MaapAcquired, Running, Host
  <2>8. h \in Host
    BY <2>7, ZenonT(30) DEF Host
  <2>2. /\ h.sup = host.sup /\ h.dom = host.dom /\ h.sup # "Start"
        /\ MachinesAgree(h) /\ h.maap
    BY <2>1, <2>7 DEF Running, MachinesAgree, Host
  <2>3. host' = IF h.sup = "Ready" THEN AdvertiseTalkerStreams(h) ELSE h
    BY <1>6 DEF MaapAcquired
  <2>4. h.sup = "Ready" => h.dom
    BY <2>1, <2>2 DEF Running, Declares
  <2> HIDE DEF h
  <2>5. Running(host')
    BY <2>8, <2>2, <2>3, <2>4
       DEF AdvertiseTalkerStreams, Running, MachinesAgree, Declares, Host
  <2> QED BY <2>1, <2>5, RunningStep
<1>7. ASSUME MaapLost PROVE HostIInv'
  <2>1. /\ Running(host) /\ runner' \in RunningLoop /\ runner'.on
        /\ lan' \in World
    BY <1>0, <1>7, OnIsRunning DEF MaapLost
  <2>2. Running(host')
    BY <1>7, <2>1, ZenonT(30) DEF MaapLost, Running, MachinesAgree, Declares, Host
  <2> QED BY <2>1, <2>2, RunningStep
<1>8. ASSUME LoopCheck PROVE HostIInv'
  <2> DEFINE edge == runner.gm # NoMaster /\ ~runner.had
             h == IF edge THEN OnGptpAnnounce(host) ELSE host
             changed == host.sup # runner.last
             fired == host.sup = "Init" /\ ~changed /\ runner.aged
  <2>1. Running(host) /\ runner \in RunningLoop /\ runner.on
    BY <1>8, OnIsRunning DEF LoopCheck
  <2>2. Running(h)
    BY <2>1, AnnounceKeeps
  <2>3. Running(OnTimeout(h))
    BY <2>2, SupervisorKeeps DEF OnTimeout
  <2>4. /\ host' = IF fired THEN OnTimeout(h) ELSE h
        /\ runner' = [runner EXCEPT !.last = host.sup,
                                    !.aged = @ /\ ~changed /\ ~fired,
                                    !.had = runner.gm # NoMaster]
        /\ lan' = IF changed \/ fired THEN [lan EXCEPT !.heard = FALSE] ELSE lan
    BY <1>8 DEF LoopCheck
  <2>5. runner' \in RunningLoop /\ runner'.on
    <3>1. host.sup \in {"Down", "Init", "Ready"}
      BY <2>1 DEF Running, Host
    <3> QED BY <2>1, <2>4, <3>1, ZenonT(30) DEF RunningLoop
  <2>6. lan' \in World
    BY <1>0, <2>4, ZenonT(30) DEF World
  <2> HIDE DEF h, fired
  <2> QED BY <2>2, <2>3, <2>4, <2>5, <2>6, RunningStep
<1>9. ASSUME Elapse PROVE HostIInv'
  <2>1. Running(host') /\ runner' \in RunningLoop /\ runner'.on /\ lan' \in World
    BY <1>0, <1>9, OnIsRunning, ZenonT(30) DEF Elapse, RunningLoop
  <2> QED BY <2>1, RunningStep
<1>10. ASSUME lan' \in World, UNCHANGED <<host, runner>> PROVE HostIInv'
  BY <1>10 DEF HostIInv, HostTypeOK, World, MachinesAgree, Declares
<1>11. ASSUME LinkChanges PROVE HostIInv'
  <2>1. lan.left - 1 \in 0..MaxChanges
    BY <1>0, <1>11, HostAssumption DEF LinkChanges, World
  <2>2. lan' \in World
    BY <1>0, <1>11, <2>1, ZenonT(30) DEF LinkChanges, World
  <2> QED BY <1>10, <1>11, <2>2 DEF LinkChanges
<1>12. ASSUME NEW m \in Masters \cup {NoMaster}, MasterChanges(m) PROVE HostIInv'
  <2>1. lan.left - 1 \in 0..MaxChanges
    BY <1>0, <1>12, HostAssumption DEF MasterChanges, World
  <2>2. lan' \in World
    BY <1>0, <1>12, <2>1, ZenonT(30) DEF MasterChanges, World
  <2> QED BY <1>10, <1>12, <2>2 DEF MasterChanges
<1>13. ASSUME UNCHANGED hostVars PROVE HostIInv'
  BY <1>0, <1>10, <1>13 DEF hostVars
<1> QED BY <1>1, <1>2, <1>3, <1>4, <1>5, <1>6, <1>7, <1>8, <1>9, <1>11, <1>12,
           <1>13 DEF HostNext

\* Whatever the link, the grandmasters, the listeners and MAAP do, and
\* whenever the watchdog fires: the supervisor is Ready exactly while gPTP is
\* locked, a Ready entity declares its streams at the addresses ACMP hands
\* out, and an entity that is down or stopped is silent.
THEOREM HostCorrect == HostSpec => []HostAgrees
<1>1. HostIInv => HostAgrees
  <2> SUFFICES ASSUME HostIInv PROVE HostAgrees
    OBVIOUS
  <2>1. HostTypeOK
    BY DEF HostIInv
  <2>2. ReadyIffLocked
    <3>1. CASE host.sup = "Start"
      BY <3>1 DEF HostIInv, ReadyIffLocked
    <3>2. CASE host.sup # "Start"
      BY <3>2 DEF HostIInv, MachinesAgree, ReadyIffLocked
    <3> QED BY <3>1, <3>2
  <2>3. AdvertisesAcmpAddress
    BY DEF HostIInv, Declares, AdvertisesAcmpAddress
  <2>4. DownIsSilent
    BY DEF HostIInv, MachinesAgree, DownIsSilent
  <2> QED BY <2>1, <2>2, <2>3, <2>4 DEF HostAgrees
<1> QED BY <1>1, HostInitInv, HostStep, PTL DEF HostSpec

-----------------------------------------------------------------------------
(***************************************************************************)
(* The ACMP listener.                                                      *)
(***************************************************************************)
Taken == {m \in Message : m.kind \in RxCommands /\ m.sink \in Sinks}

\* The listener sends to talkers for its own sinks only.
Sent == {m \in Message : m.kind \in TxCommands => m.sink \in Sinks}

Listener == [sinks   : [Sinks -> Talkers \cup {NoTalker}],
             pending : SUBSET Taken,
             retried : BOOLEAN,
             goals   : Seq(Goal),
             disk    : Seq(Goal),
             fcSeq   : 0..(SeqSpace - 1),
             srp     : SUBSET Talkers,
             out     : SUBSET Sent]

OneGoalPerSink(goals) ==
    \A i, j \in 1..Len(goals) : goals[i].sink = goals[j].sink => i = j

\* The goals of the sinks other than those of S name the talkers they have.
GoalsAgree(goals, sinks, S) ==
    \A i \in 1..Len(goals) :
        goals[i].sink \notin S => sinks[goals[i].sink] \in {NoTalker, goals[i].talker}

Reserved(x, S) ==
    \A s \in Sinks \ S : x.sinks[s] # NoTalker => x.sinks[s] \in x.srp

OnePending(x) == \A a, b \in x.pending : a = b

Sound(x) ==
    /\ x \in Listener
    /\ OnePending(x)
    /\ x.disk = x.goals
    /\ OneGoalPerSink(x.goals)
    /\ GoalsAgree(x.goals, x.sinks, {})
    /\ Reserved(x, {})

Answered(cmd, out) ==
    \/ cmd.ctl = Self
    \/ \E r \in out : r.kind \in RxResponses /\ r.ctl = cmd.ctl /\ r.seq = cmd.seq

Serves(x, y) ==
    /\ Sound(y)
    /\ x.out \subseteq y.out
    /\ \A cmd \in x.pending : cmd \in y.pending \/ Answered(cmd, y.out)

LEMMA ServesRefl == ASSUME NEW x, Sound(x) PROVE Serves(x, x)
BY DEF Serves

LEMMA ServesTrans ==
    ASSUME NEW x, NEW y, NEW z, Serves(x, y), Serves(y, z)
    PROVE  Serves(x, z)
BY DEF Serves, Answered

-----------------------------------------------------------------------------
(* The goals.                                                              *)

LEMMA GoalSinks ==
    ASSUME NEW goals \in Seq(Goal)
    PROVE  \A i \in 1..Len(goals) : goals[i].sink \in Sinks /\ goals[i].talker \in Talkers
<1>1. \A i \in 1..Len(goals) : goals[i] \in Goal
  OBVIOUS
<1> QED BY <1>1 DEF Goal

\* set_fast_connect_goal: the sink has exactly the new goal, the others keep
\* theirs.
LEMMA WithGoalCorrect ==
    ASSUME NEW goals \in Seq(Goal), NEW s \in Sinks, NEW t \in Talkers,
           OneGoalPerSink(goals)
    PROVE  /\ WithGoal(goals, s, t) \in Seq(Goal)
           /\ OneGoalPerSink(WithGoal(goals, s, t))
           /\ \A i \in 1..Len(WithGoal(goals, s, t)) :
                \/ WithGoal(goals, s, t)[i] = [sink |-> s, talker |-> t]
                \/ /\ i \in 1..Len(goals)
                   /\ WithGoal(goals, s, t)[i] = goals[i]
                   /\ goals[i].sink # s
<1> DEFINE new == [sink |-> s, talker |-> t]
<1>0. new \in Goal /\ new.sink = s
  BY DEF Goal
<1>1. CASE GoalsOf(goals, s) # {}
  <2> DEFINE w == [i \in 1..Len(goals) |-> IF goals[i].sink = s THEN new ELSE goals[i]]
  <2>1. WithGoal(goals, s, t) = w
    BY <1>1 DEF WithGoal
  <2>2. \A i \in 1..Len(goals) : goals[i] \in Goal
    OBVIOUS
  <2>3. w \in Seq(Goal) /\ Len(w) = Len(goals)
    BY <1>0, <2>2
  <2>4. \A i \in 1..Len(goals) : w[i].sink = goals[i].sink
    BY <1>0
  <2>5. OneGoalPerSink(w)
    BY <2>3, <2>4 DEF OneGoalPerSink
  <2> QED BY <2>1, <2>3, <2>5
<1>2. CASE GoalsOf(goals, s) = {}
  <2> DEFINE w == Append(goals, new)
  <2>1. WithGoal(goals, s, t) = w
    BY <1>2 DEF WithGoal
  <2>2. \A i \in 1..Len(goals) : goals[i].sink # s
    BY <1>2 DEF GoalsOf
  <2>3. w \in Seq(Goal) /\ Len(w) = Len(goals) + 1
    BY <1>0
  <2>4. /\ \A i \in 1..Len(goals) : w[i] = goals[i]
        /\ w[Len(goals) + 1] = new
    OBVIOUS
  <2>5. OneGoalPerSink(w)
    BY <1>0, <2>2, <2>3, <2>4 DEF OneGoalPerSink
  <2> QED BY <2>1, <2>2, <2>3, <2>4, <2>5
<1> QED BY <1>1, <1>2

\* clear_fast_connect_goal: the remaining goals are goals that were there.
LEMMA WithoutGoalCorrect ==
    ASSUME NEW goals \in Seq(Goal), NEW s, OneGoalPerSink(goals)
    PROVE  /\ WithoutGoal(goals, s) \in Seq(Goal)
           /\ OneGoalPerSink(WithoutGoal(goals, s))
           /\ \A i \in 1..Len(WithoutGoal(goals, s)) :
                \E j \in 1..Len(goals) : WithoutGoal(goals, s)[i] = goals[j]
<1>1. CASE GoalsOf(goals, s) = {}
  BY <1>1 DEF WithoutGoal
<1>2. CASE GoalsOf(goals, s) # {}
  <2> DEFINE first == CHOOSE j \in GoalsOf(goals, s) : \A k \in GoalsOf(goals, s) : j <= k
             w == [j \in 1..(Len(goals) - 1) |->
                     IF j < first THEN goals[j] ELSE goals[j + 1]]
  <2>1. WithoutGoal(goals, s) = w
    BY <1>2 DEF WithoutGoal
  <2>2. PICK i \in 1..Len(goals) : goals[i].sink = s
    BY <1>2 DEF GoalsOf
  <2>3. GoalsOf(goals, s) = {i}
    BY <2>2 DEF GoalsOf, OneGoalPerSink
  <2>4. first = i
    BY <2>3
  <2> HIDE DEF first
  <2>5. Len(goals) \in Nat /\ \A j \in 1..Len(goals) : goals[j] \in Goal
    OBVIOUS
  <2>6. w \in Seq(Goal) /\ Len(w) = Len(goals) - 1
    BY <2>2, <2>4, <2>5
  <2>7. \A j \in 1..(Len(goals) - 1) : w[j] = goals[IF j < i THEN j ELSE j + 1]
    BY <2>4
  <2>8. OneGoalPerSink(w)
    BY <2>2, <2>5, <2>6, <2>7 DEF OneGoalPerSink
  <2>9. \A j \in 1..Len(w) : \E k \in 1..Len(goals) : w[j] = goals[k]
    BY <2>5, <2>6, <2>7
  <2> QED BY <2>1, <2>6, <2>8, <2>9
<1> QED BY <1>1, <1>2

-----------------------------------------------------------------------------
(* What the listener's handlers are made of.                               *)

LEMMA ReplyCorrect ==
    ASSUME NEW cmd \in Message, NEW kind \in RxResponses, NEW status \in Statuses
    PROVE  /\ Reply(cmd, kind, status) \in Sent
           /\ Reply(cmd, kind, status).kind = kind
           /\ Reply(cmd, kind, status).status = status
           /\ Reply(cmd, kind, status).ctl = cmd.ctl
           /\ Reply(cmd, kind, status).seq = cmd.seq
           /\ Reply(cmd, kind, status).sink = cmd.sink
BY ZenonT(30) DEF Reply, Message, Sent, RxResponses, TxCommands

\* A step that touches nothing but out.
LEMMA SentServes ==
    ASSUME NEW x, Sound(x), NEW out \in SUBSET Sent, x.out \subseteq out
    PROVE  /\ Serves(x, [x EXCEPT !.out = out])
           /\ [x EXCEPT !.out = out].pending = x.pending
           /\ [x EXCEPT !.out = out].out = out
BY DEF Serves, Sound, Listener, OnePending, Reserved

\* An error tells the originator and changes nothing.
LEMMA RefusalServes ==
    ASSUME NEW x, Sound(x), NEW cmd \in Message, NEW kind \in RxResponses,
           NEW status \in Statuses, status # "SUCCESS"
    PROVE  /\ Serves(x, TxResponse(x, Reply(cmd, kind, status)))
           /\ TxResponse(x, Reply(cmd, kind, status)).pending = x.pending
           /\ Answered(cmd, TxResponse(x, Reply(cmd, kind, status)).out)
<1> DEFINE r == Reply(cmd, kind, status)
<1>1. r \in Sent /\ r.status # "SUCCESS" /\ r.kind \in RxResponses
      /\ r.ctl = cmd.ctl /\ r.seq = cmd.seq
  BY ReplyCorrect
<1> HIDE DEF r
<1> DEFINE out == IF r.ctl = Self THEN x.out ELSE x.out \cup {r}
<1>2. TxResponse(x, r) = [x EXCEPT !.out = out]
  <2>1. Told(x, r) = x
    BY <1>1 DEF Told
  <2> QED BY <2>1 DEF TxResponse
<1>3. out \in SUBSET Sent /\ x.out \subseteq out
  BY <1>1 DEF Sound, Listener
<1>4. Answered(cmd, out)
  BY <1>1 DEF Answered
<1> HIDE DEF out
<1> QED BY <1>2, <1>3, <1>4, SentServes DEF r

\* The answer to a connect: the goal is recorded and the stream attached, after
\* which the listener is sound even if the sink had neither before.
LEMMA ConnectedSound ==
    ASSUME NEW x \in Listener, NEW cmd \in Message, cmd.sink \in Sinks,
           x.sinks[cmd.sink] \in Talkers, OnePending(x),
           OneGoalPerSink(x.goals),
           GoalsAgree(x.goals, x.sinks, {cmd.sink}), Reserved(x, {cmd.sink})
    PROVE  /\ Sound(TxResponse(x, Reply(cmd, "CONNECT_RX_RESPONSE", "SUCCESS")))
           /\ TxResponse(x, Reply(cmd, "CONNECT_RX_RESPONSE", "SUCCESS")).pending = x.pending
           /\ x.out \subseteq TxResponse(x, Reply(cmd, "CONNECT_RX_RESPONSE", "SUCCESS")).out
           /\ Answered(cmd, TxResponse(x, Reply(cmd, "CONNECT_RX_RESPONSE", "SUCCESS")).out)
<1> DEFINE r == Reply(cmd, "CONNECT_RX_RESPONSE", "SUCCESS")
           s == cmd.sink
           w == WithGoal(x.goals, s, x.sinks[s])
           out == IF r.ctl = Self THEN x.out ELSE x.out \cup {r}
           y == TxResponse(x, r)
<1>1. /\ r \in Sent /\ r.status = "SUCCESS" /\ r.kind = "CONNECT_RX_RESPONSE"
      /\ r.ctl = cmd.ctl /\ r.seq = cmd.seq /\ r.sink = s
  BY ReplyCorrect DEF RxResponses, Statuses
<1> HIDE DEF r
<1>2. /\ w \in Seq(Goal)
      /\ OneGoalPerSink(w)
      /\ \A i \in 1..Len(w) : \/ w[i] = [sink |-> s, talker |-> x.sinks[s]]
                              \/ /\ i \in 1..Len(x.goals)
                                 /\ w[i] = x.goals[i]
                                 /\ x.goals[i].sink # s
  BY WithGoalCorrect DEF Listener
<1>3. GoalsAgree(w, x.sinks, {})
  <2> HIDE DEF w
  <2> SUFFICES ASSUME NEW i \in 1..Len(w)
               PROVE  x.sinks[w[i].sink] \in {NoTalker, w[i].talker}
    BY DEF GoalsAgree
  <2> QED BY <1>2 DEF GoalsAgree
<1> HIDE DEF w
<1>4. y = [x EXCEPT !.goals = w, !.disk = w, !.srp = x.srp \cup {x.sinks[s]}, !.out = out]
  <2>1. on_connect(set_fast_connect_goal(x, s, x.sinks[s]), s)
          = [x EXCEPT !.goals = w, !.disk = w, !.srp = x.srp \cup {x.sinks[s]}]
    BY DEF on_connect, set_fast_connect_goal, GoalsChanged, w, Listener
  <2>2. Told(x, r) = [x EXCEPT !.goals = w, !.disk = w, !.srp = x.srp \cup {x.sinks[s]}]
    BY <1>1, <2>1 DEF Told
  <2> QED BY <2>2 DEF TxResponse, Listener
<1>5. out \in SUBSET Sent /\ x.out \subseteq out
  BY <1>1 DEF Listener
<1>6. Answered(cmd, out)
  BY <1>1 DEF Answered, RxResponses
<1> HIDE DEF out, y
<1>7. /\ y \in Listener /\ y.goals = w /\ y.disk = w /\ y.sinks = x.sinks
      /\ y.srp = x.srp \cup {x.sinks[s]} /\ y.out = out /\ y.pending = x.pending
  BY <1>2, <1>4, <1>5, ZenonT(30) DEF Listener
<1>8. Reserved(y, {}) /\ OnePending(y)
  BY <1>7 DEF Reserved, OnePending
<1> QED BY <1>2, <1>3, <1>5, <1>6, <1>7, <1>8 DEF Sound, y, r

\* The answer to a disconnect comes when the sink is already cleared: the
\* callback finds no stream to withdraw.
LEMMA DisconnectedServes ==
    ASSUME NEW x, Sound(x), NEW cmd \in Message, cmd.sink \in Sinks,
           x.sinks[cmd.sink] = NoTalker
    PROVE  /\ Serves(x, TxResponse(x, Reply(cmd, "DISCONNECT_RX_RESPONSE", "SUCCESS")))
           /\ TxResponse(x, Reply(cmd, "DISCONNECT_RX_RESPONSE", "SUCCESS")).pending = x.pending
           /\ Answered(cmd, TxResponse(x, Reply(cmd, "DISCONNECT_RX_RESPONSE", "SUCCESS")).out)
<1> DEFINE r == Reply(cmd, "DISCONNECT_RX_RESPONSE", "SUCCESS")
           out == IF r.ctl = Self THEN x.out ELSE x.out \cup {r}
<1>1. /\ r \in Sent /\ r.status = "SUCCESS" /\ r.kind = "DISCONNECT_RX_RESPONSE"
      /\ r.ctl = cmd.ctl /\ r.seq = cmd.seq /\ r.sink = cmd.sink
  BY ReplyCorrect DEF RxResponses, Statuses
<1> HIDE DEF r
<1>2. x \in Listener
  BY DEF Sound
<1>3. x.srp \ {NoTalker} = x.srp
  BY <1>2, AcmpAssumption DEF Listener
<1>4. on_disconnect(x, cmd.sink) = x
  BY <1>2, <1>3 DEF on_disconnect, Listener
<1>5. TxResponse(x, r) = [x EXCEPT !.out = out]
  <2>1. Told(x, r) = x
    BY <1>1, <1>4 DEF Told
  <2> QED BY <2>1 DEF TxResponse
<1>6. out \in SUBSET Sent /\ x.out \subseteq out
  BY <1>1, <1>2 DEF Listener
<1>7. Answered(cmd, out)
  BY <1>1 DEF Answered, RxResponses
<1> HIDE DEF out
<1>8. /\ Serves(x, TxResponse(x, r))
      /\ TxResponse(x, r).pending = x.pending
      /\ TxResponse(x, r).out = out
  BY <1>5, <1>6, SentServes
<1> QED BY <1>7, <1>8 DEF r

LEMMA ClearServes ==
    ASSUME NEW x, Sound(x), \A cmd \in x.pending : Answered(cmd, x.out)
    PROVE  Serves(x, ClearPending(x))
BY ZenonT(30) DEF ClearPending, Serves, Sound, Listener, OnePending, Reserved

LEMMA TxCommandServes ==
    ASSUME NEW x, Sound(x), NEW cmd \in Taken
    PROVE  Serves(x, TxCommand(x, cmd))
<1>1. ToTalker(cmd) \in Sent
  BY DEF Taken, Message, ToTalker, TxCommands, Sent
<1>2. x.out \cup {ToTalker(cmd)} \in SUBSET Sent
  BY <1>1 DEF Sound, Listener
<1> QED BY <1>2, SentServes DEF TxCommand

LEMMA StoreServes ==
    ASSUME NEW x, Sound(x), x.pending = {}, NEW cmd \in Taken
    PROVE  Serves(x, StorePending(x, cmd))
<1> DEFINE y == [x EXCEPT !.pending = {cmd}, !.retried = FALSE]
<1>1. Serves(x, y)
  BY ZenonT(30) DEF Serves, Sound, Listener, OnePending, Reserved
<1> HIDE DEF y
<1>2. Serves(y, TxCommand(y, cmd))
  BY <1>1, TxCommandServes DEF Serves
<1>3. StorePending(x, cmd) = TxCommand(y, cmd)
  BY DEF StorePending, y
<1> QED BY <1>1, <1>2, <1>3, ServesTrans

-----------------------------------------------------------------------------
(* The handlers.                                                           *)

LEMMA StatusesOK ==
    /\ {"SUCCESS", "LISTENER_UNKNOWN_ID", "LISTENER_TALKER_TIMEOUT",
        "LISTENER_EXCLUSIVE", "NO_SUCH_CONNECTION"} \subseteq Statuses
    /\ "CONNECT_RX_RESPONSE" \in RxResponses
    /\ "DISCONNECT_RX_RESPONSE" \in RxResponses
BY DEF Statuses, RxResponses

LEMMA ConnectServes ==
    ASSUME NEW x, Sound(x), NEW cmd \in Message, cmd.kind = "CONNECT_RX"
    PROVE  Serves(x, send_connect_tx(x, cmd))
<1>1. CASE x.pending # {}
  BY <1>1, ServesRefl DEF send_connect_tx
<1>2. CASE x.pending = {} /\ cmd.sink \notin Sinks
  BY <1>2, RefusalServes, StatusesOK DEF send_connect_tx
<1>3. CASE x.pending = {} /\ cmd.sink \in Sinks
  <2>0. cmd.talker \in Talkers /\ cmd.talker # NoTalker
    BY AcmpAssumption DEF Message
  <2>1. CASE x.sinks[cmd.sink] = NoTalker
    <3>1. cmd \in Taken
      BY <1>3 DEF Taken, RxCommands
    <3> QED BY <1>3, <2>0, <2>1, <3>1, StoreServes DEF send_connect_tx
  <2>2. CASE x.sinks[cmd.sink] = cmd.talker
    <3>1. send_connect_tx(x, cmd) = TxResponse(x, Reply(cmd, "CONNECT_RX_RESPONSE", "SUCCESS"))
      BY <1>3, <2>0, <2>2 DEF send_connect_tx
    <3>2. GoalsAgree(x.goals, x.sinks, {cmd.sink}) /\ Reserved(x, {cmd.sink})
      BY ZenonT(30) DEF Sound, GoalsAgree, Reserved
    <3>3. Sound(send_connect_tx(x, cmd)) /\ x.out \subseteq send_connect_tx(x, cmd).out
      BY <1>3, <2>0, <2>2, <3>1, <3>2, ConnectedSound DEF Sound
    <3> QED BY <1>3, <3>3 DEF Serves
  <2>3. CASE x.sinks[cmd.sink] \notin {NoTalker, cmd.talker}
    BY <1>3, <2>3, RefusalServes, StatusesOK DEF send_connect_tx
  <2> QED BY <2>1, <2>2, <2>3
<1> QED BY <1>1, <1>2, <1>3

LEMMA DisconnectServes ==
    ASSUME NEW x, Sound(x), NEW cmd \in Message, cmd.kind = "DISCONNECT_RX"
    PROVE  Serves(x, send_disconnect_tx(x, cmd))
<1>1. CASE x.pending # {}
  BY <1>1, ServesRefl DEF send_disconnect_tx
<1>2. CASE x.pending = {} /\ cmd.sink \notin Sinks
  BY <1>2, RefusalServes, StatusesOK DEF send_disconnect_tx
<1>3. CASE x.pending = {} /\ cmd.sink \in Sinks
  <2>0. cmd.talker \in Talkers /\ cmd.talker # NoTalker
    BY AcmpAssumption DEF Message
  <2>1. CASE x.sinks[cmd.sink] = NoTalker
    BY <1>3, <2>0, <2>1, DisconnectedServes DEF send_disconnect_tx
  <2>2. CASE x.sinks[cmd.sink] = cmd.talker
    <3>1. cmd \in Taken
      BY <1>3 DEF Taken, RxCommands
    <3> QED BY <1>3, <2>0, <2>2, <3>1, StoreServes DEF send_disconnect_tx
  <2>3. CASE x.sinks[cmd.sink] \notin {NoTalker, cmd.talker}
    BY <1>3, <2>3, RefusalServes, StatusesOK DEF send_disconnect_tx
  <2> QED BY <2>1, <2>2, <2>3
<1> QED BY <1>1, <1>2, <1>3

LEMMA ForgetServes ==
    ASSUME NEW x, Sound(x), NEW s
    PROVE  Serves(x, clear_fast_connect_goal(x, s))
<1> DEFINE w == WithoutGoal(x.goals, s)
<1>1. /\ w \in Seq(Goal)
      /\ OneGoalPerSink(w)
      /\ \A i \in 1..Len(w) : \E j \in 1..Len(x.goals) : w[i] = x.goals[j]
  BY WithoutGoalCorrect DEF Sound, Listener
<1> HIDE DEF w
<1>2. GoalsAgree(w, x.sinks, {})
  BY <1>1 DEF GoalsAgree, Sound
<1>3. clear_fast_connect_goal(x, s) = [x EXCEPT !.goals = w, !.disk = w]
  BY DEF clear_fast_connect_goal, GoalsChanged, w
<1> QED BY <1>1, <1>2, <1>3, ZenonT(30) DEF Serves, Sound, Listener, OnePending, Reserved

LEMMA CommandServes ==
    ASSUME NEW x, Sound(x), NEW cmd \in Message, cmd.kind \in RxCommands
    PROVE  Serves(x, receive_controller_command(x, cmd))
<1>1. CASE cmd.kind = "CONNECT_RX"
  BY <1>1, ConnectServes DEF receive_controller_command
<1>2. CASE cmd.kind = "DISCONNECT_RX"
  <2> DEFINE y == clear_fast_connect_goal(x, cmd.sink)
  <2>1. Serves(x, y)
    BY ForgetServes
  <2> HIDE DEF y
  <2>2. Serves(y, send_disconnect_tx(y, cmd))
    BY <1>2, <2>1, DisconnectServes DEF Serves
  <2>3. receive_controller_command(x, cmd) = send_disconnect_tx(y, cmd)
    BY <1>2 DEF receive_controller_command, y
  <2> QED BY <2>1, <2>2, <2>3, ServesTrans
<1> QED BY <1>1, <1>2 DEF RxCommands

\* The slot is freed by the answer to the one command in it.
LEMMA AnswerServes ==
    ASSUME NEW x, Sound(x), NEW cmd \in x.pending, NEW y, Sound(y),
           y.pending = x.pending, x.out \subseteq y.out, Answered(cmd, y.out)
    PROVE  Serves(x, ClearPending(y))
<1>1. \A c \in y.pending : Answered(c, y.out)
  BY DEF Sound, OnePending
<1>2. Serves(y, ClearPending(y))
  BY <1>1, ClearServes
<1>3. Serves(x, y)
  BY DEF Serves
<1> QED BY <1>2, <1>3, ServesTrans

LEMMA ConnectResponseServes ==
    ASSUME NEW x, Sound(x), NEW cmd \in x.pending, NEW resp \in Message
    PROVE  Serves(x, handle_connect_tx_response(x, cmd, resp))
<1>1. /\ cmd \in Message /\ cmd.sink \in Sinks
      /\ resp.status \in Statuses /\ resp.talker \in Talkers
  BY DEF Sound, Listener, Taken, Message
<1>2. CASE resp.status # "SUCCESS"
  <2> DEFINE y == TxResponse(x, Reply(cmd, "CONNECT_RX_RESPONSE", resp.status))
  <2>1. Serves(x, y) /\ y.pending = x.pending /\ Answered(cmd, y.out)
    BY <1>1, <1>2, RefusalServes, StatusesOK
  <2>2. handle_connect_tx_response(x, cmd, resp) = ClearPending(y)
    BY <1>2 DEF handle_connect_tx_response
  <2> HIDE DEF y
  <2> QED BY <2>1, <2>2, AnswerServes DEF Serves
<1>3. CASE resp.status = "SUCCESS"
  <2> DEFINE z == [x EXCEPT !.sinks[cmd.sink] = resp.talker]
             y == TxResponse(z, Reply(cmd, "CONNECT_RX_RESPONSE", "SUCCESS"))
  <2>1. /\ z \in Listener /\ z.pending = x.pending /\ z.goals = x.goals
        /\ z.srp = x.srp /\ z.out = x.out
        /\ z.sinks = [x.sinks EXCEPT ![cmd.sink] = resp.talker]
    BY <1>1, ZenonT(30) DEF Sound, Listener
  <2>2. handle_connect_tx_response(x, cmd, resp) = ClearPending(y)
    BY <1>3 DEF handle_connect_tx_response
  <2> HIDE DEF z
  <2>3. x.sinks \in [Sinks -> Talkers \cup {NoTalker}] /\ x.goals \in Seq(Goal)
    BY DEF Sound, Listener
  <2>4. z.sinks[cmd.sink] \in Talkers
    BY <1>1, <2>1, <2>3
  <2>5. \A s \in Sinks \ {cmd.sink} : z.sinks[s] = x.sinks[s]
    BY <1>1, <2>1, <2>3
  <2>6. Reserved(z, {cmd.sink})
    BY <2>1, <2>5 DEF Reserved, Sound
  <2>7. GoalsAgree(z.goals, z.sinks, {cmd.sink})
    <3>1. \A i \in 1..Len(x.goals) : x.goals[i].sink \in Sinks
      BY <2>3, GoalSinks
    <3> QED BY <2>1, <2>5, <3>1 DEF GoalsAgree, Sound
  <2>8. OnePending(z) /\ OneGoalPerSink(z.goals)
    BY <2>1 DEF Sound, OnePending
  <2>9. Sound(y) /\ y.pending = z.pending /\ z.out \subseteq y.out /\ Answered(cmd, y.out)
    BY <1>1, <2>1, <2>4, <2>6, <2>7, <2>8, ConnectedSound, ZenonT(30)
  <2> HIDE DEF y
  <2> QED BY <2>1, <2>2, <2>9, AnswerServes
<1> QED BY <1>2, <1>3

LEMMA DisconnectResponseServes ==
    ASSUME NEW x, Sound(x), NEW cmd \in x.pending, NEW resp \in Message
    PROVE  Serves(x, handle_disconnect_tx_response(x, cmd, resp))
<1>1. /\ cmd \in Message /\ cmd.sink \in Sinks /\ resp.status \in Statuses
  BY DEF Sound, Listener, Taken, Message
<1>2. CASE resp.status # "SUCCESS"
  <2> DEFINE y == TxResponse(x, Reply(cmd, "DISCONNECT_RX_RESPONSE", resp.status))
  <2>1. Serves(x, y) /\ y.pending = x.pending /\ Answered(cmd, y.out)
    BY <1>1, <1>2, RefusalServes, StatusesOK
  <2>2. handle_disconnect_tx_response(x, cmd, resp) = ClearPending(y)
    BY <1>2 DEF handle_disconnect_tx_response
  <2> HIDE DEF y
  <2> QED BY <2>1, <2>2, AnswerServes DEF Serves
<1>3. CASE resp.status = "SUCCESS"
  <2> DEFINE z == [x EXCEPT !.sinks[cmd.sink] = NoTalker]
             y == TxResponse(z, Reply(cmd, "DISCONNECT_RX_RESPONSE", "SUCCESS"))
  <2>1. /\ z \in Listener /\ z.pending = x.pending /\ z.goals = x.goals
        /\ z.disk = x.disk /\ z.srp = x.srp /\ z.out = x.out
        /\ z.sinks = [x.sinks EXCEPT ![cmd.sink] = NoTalker]
    BY <1>1, ZenonT(30) DEF Sound, Listener
  <2>2. handle_disconnect_tx_response(x, cmd, resp) = ClearPending(y)
    BY <1>3 DEF handle_disconnect_tx_response
  <2> HIDE DEF z
  <2>3. x.sinks \in [Sinks -> Talkers \cup {NoTalker}] /\ x.goals \in Seq(Goal)
    BY DEF Sound, Listener
  <2>4. \A s \in Sinks : z.sinks[s] \in {x.sinks[s], NoTalker}
    BY <1>1, <2>1, <2>3
  <2>5. z.sinks[cmd.sink] = NoTalker
    BY <1>1, <2>1, <2>3
  <2>6. Reserved(z, {})
    BY <2>1, <2>4 DEF Reserved, Sound
  <2>7. GoalsAgree(z.goals, z.sinks, {})
    <3>1. \A i \in 1..Len(x.goals) : x.goals[i].sink \in Sinks
      BY <2>3, GoalSinks
    <3> QED BY <2>1, <2>4, <3>1 DEF GoalsAgree, Sound
  <2>8. Sound(z)
    BY <2>1, <2>6, <2>7 DEF Sound, OnePending
  <2>9. Serves(z, y) /\ y.pending = z.pending /\ Answered(cmd, y.out)
    BY <1>1, <2>5, <2>8, DisconnectedServes
  <2> HIDE DEF y
  <2> QED BY <2>1, <2>2, <2>9, AnswerServes DEF Serves
<1> QED BY <1>2, <1>3

LEMMA ResponseServes ==
    ASSUME NEW x, Sound(x), NEW resp \in Message
    PROVE  Serves(x, receive_talker_response(x, resp))
<1> DEFINE mine == {cmd \in x.pending : cmd.seq = resp.seq}
           cmd == CHOOSE c \in mine : TRUE
<1>1. CASE mine = {}
  BY <1>1, ServesRefl DEF receive_talker_response
<1>2. CASE mine # {}
  <2>1. cmd \in x.pending
    BY <1>2
  <2>2. receive_talker_response(x, resp) =
          IF resp.kind = "CONNECT_TX_RESPONSE"
          THEN handle_connect_tx_response(x, cmd, resp)
          ELSE handle_disconnect_tx_response(x, cmd, resp)
    BY <1>2 DEF receive_talker_response
  <2> HIDE DEF cmd
  <2> QED BY <2>1, <2>2, ConnectResponseServes, DisconnectResponseServes
<1> QED BY <1>1, <1>2

LEMMA TimeoutServes ==
    ASSUME NEW x, Sound(x), NEW cmd \in x.pending
    PROVE  Serves(x, handle_timeout(x, cmd))
<1>1. cmd \in Taken /\ cmd \in Message /\ ResponseTo(cmd.kind) \in RxResponses
  BY DEF Sound, Listener, Taken, RxCommands, RxResponses, ResponseTo
<1>2. CASE cmd.kind = "CONNECT_RX" /\ ~x.retried
  <2> DEFINE y == [x EXCEPT !.retried = TRUE]
  <2>1. Serves(x, y)
    BY ZenonT(30) DEF Serves, Sound, Listener, OnePending, Reserved
  <2> HIDE DEF y
  <2>2. Serves(y, TxCommand(y, cmd))
    BY <1>1, <2>1, TxCommandServes DEF Serves
  <2>3. handle_timeout(x, cmd) = TxCommand(y, cmd)
    BY <1>2 DEF handle_timeout, y
  <2> QED BY <2>1, <2>2, <2>3, ServesTrans
<1>3. CASE ~(cmd.kind = "CONNECT_RX" /\ ~x.retried)
  <2> DEFINE y == TxResponse(x, Reply(cmd, ResponseTo(cmd.kind), "LISTENER_TALKER_TIMEOUT"))
  <2>1. Serves(x, y) /\ y.pending = x.pending /\ Answered(cmd, y.out)
    BY <1>1, RefusalServes, StatusesOK
  <2>2. handle_timeout(x, cmd) = ClearPending(y)
    BY <1>3 DEF handle_timeout
  <2> HIDE DEF y
  <2> QED BY <2>1, <2>2, AnswerServes DEF Serves
<1> QED BY <1>2, <1>3

LEMMA CheckTimeoutServes ==
    ASSUME NEW x, Sound(x), NEW due
    PROVE  Serves(x, check_timeout(x, due))
<1>1. CASE ~due \/ x.pending = {}
  BY <1>1, ServesRefl DEF check_timeout
<1>2. CASE ~(~due \/ x.pending = {})
  <2>1. PICK cmd \in x.pending : check_timeout(x, due) = handle_timeout(x, cmd)
    BY <1>2, ZenonT(30) DEF check_timeout
  <2> QED BY <2>1, TimeoutServes
<1> QED BY <1>1, <1>2

LEMMA FastConnectServes ==
    ASSUME NEW x, Sound(x), NEW s \in Sinks, NEW t \in Talkers
    PROVE  Serves(x, fast_connect(x, s, t))
<1> DEFINE cmd == Command("CONNECT_RX", Self, x.fcSeq, t, s)
           y == [x EXCEPT !.fcSeq = (x.fcSeq + 1) % SeqSpace]
<1>1. x.fcSeq \in 0..(SeqSpace - 1) /\ x.fcSeq \in SeqIds
  BY AcmpAssumption DEF Sound, Listener, SeqIds
<1>2. (x.fcSeq + 1) % SeqSpace \in 0..(SeqSpace - 1)
  BY <1>1, AcmpAssumption
<1>3. cmd \in Message /\ cmd.kind \in RxCommands
  BY <1>1, AcmpAssumption DEF Command, Message, RxCommands, Statuses
<1>4. Serves(x, y)
  BY <1>2, ZenonT(30) DEF Serves, Sound, Listener, OnePending, Reserved
<1>5. fast_connect(x, s, t) = receive_controller_command(y, cmd)
  BY DEF fast_connect
<1> HIDE DEF cmd, y
<1>6. Serves(y, receive_controller_command(y, cmd))
  BY <1>3, <1>4, CommandServes DEF Serves
<1> QED BY <1>4, <1>5, <1>6, ServesTrans

INSTANCE FiniteSetTheorems

\* A minimum of a set of positions exists: the first disconnected goal.
LEMMA FirstExists ==
    ASSUME NEW n \in Nat, NEW S \in SUBSET (1..n), S # {}
    PROVE  \E j \in S : \A k \in S : j <= k
<1> DEFINE Less == OpToRel(<, Nat)
<1>1. PICK j \in S : \A k \in S : <<k, j>> \notin Less
  <2>1. S \subseteq Nat
    OBVIOUS
  <2>2. IsWellFoundedOn(Less, Nat)
    BY NatLessThanWellFounded, ZenonT(30)
  <2> HIDE DEF Less
  <2> QED BY <2>1, <2>2, WFMin, ZenonT(30)
<1>2. \A k \in S : ~(k < j)
  <2> SUFFICES ASSUME NEW k \in S, k < j PROVE FALSE
    OBVIOUS
  <2>1. <<k, j>> \in Nat \X Nat /\ <<k, j>>[1] = k /\ <<k, j>>[2] = j
    OBVIOUS
  <2>2. <<k, j>> \in Less
    BY <2>1, ZenonT(30) DEF OpToRel
  <2> QED BY <1>1, <2>2, ZenonT(30)
<1> QED BY <1>2

LEMMA GoalsTickServes ==
    ASSUME NEW x, Sound(x), NEW due
    PROVE  Serves(x, fast_connect_tick(x, due))
<1>1. CASE Disconnected(x) = {} \/ x.pending # {} \/ ~due
  BY <1>1, ServesRefl DEF fast_connect_tick
<1>2. CASE ~(Disconnected(x) = {} \/ x.pending # {} \/ ~due)
  <2>1. x.goals \in Seq(Goal)
    BY DEF Sound, Listener
  <2>2. Disconnected(x) \in SUBSET (1..Len(x.goals)) /\ Len(x.goals) \in Nat
    BY <2>1 DEF Disconnected
  <2>3. \E j \in Disconnected(x) : \A k \in Disconnected(x) : j <= k
    BY <1>2, <2>2, FirstExists, ZenonT(30)
  <2>4. PICK i \in Disconnected(x) :
          fast_connect_tick(x, due) = fast_connect(x, x.goals[i].sink, x.goals[i].talker)
    BY <1>2, <2>3, ZenonT(30) DEF fast_connect_tick
  <2>5. x.goals[i].sink \in Sinks /\ x.goals[i].talker \in Talkers
    BY <2>1, <2>2, GoalSinks
  <2> QED BY <2>4, <2>5, FastConnectServes
<1> QED BY <1>1, <1>2

LEMMA DepartureServes ==
    ASSUME NEW x, Sound(x), NEW t \in Talkers
    PROVE  Serves(x, on_talker_departed(x, t))
<1>1. CASE \A s \in Sinks : x.sinks[s] # t
  BY <1>1, ServesRefl, ZenonT(30) DEF on_talker_departed
<1>2. CASE ~(\A s \in Sinks : x.sinks[s] # t)
  <2> DEFINE f == [s \in Sinks |-> IF x.sinks[s] = t THEN NoTalker ELSE x.sinks[s]]
             y == [x EXCEPT !.srp = x.srp \ {t}, !.sinks = f]
  <2>1. x \in Listener /\ x.sinks \in [Sinks -> Talkers \cup {NoTalker}] /\ x.goals \in Seq(Goal)
    BY DEF Sound, Listener
  <2>2. on_talker_departed(x, t) = y
    BY <1>2, <2>1 DEF on_talker_departed
  <2>3. f \in [Sinks -> Talkers \cup {NoTalker}]
    BY <2>1
  <2>4. \A s \in Sinks : f[s] # t /\ f[s] \in {x.sinks[s], NoTalker}
    BY AcmpAssumption
  <2> HIDE DEF f
  <2>5. /\ y \in Listener /\ y.sinks = f /\ y.srp = x.srp \ {t}
        /\ y.goals = x.goals /\ y.disk = x.disk /\ y.pending = x.pending /\ y.out = x.out
    BY <2>1, <2>3, ZenonT(30) DEF Listener
  <2> HIDE DEF y
  <2>6. Reserved(y, {})
    BY <2>4, <2>5, ZenonT(30) DEF Reserved, Sound
  <2>7. GoalsAgree(y.goals, y.sinks, {})
    BY <2>1, <2>4, <2>5, GoalSinks, ZenonT(30) DEF GoalsAgree, Sound
  <2> QED BY <2>2, <2>5, <2>6, <2>7, ZenonT(30) DEF Serves, Sound, OnePending
<1> QED BY <1>1, <1>2

-----------------------------------------------------------------------------
(* The inductive invariant.                                                *)

\* A controller orders the listener only.
Ordered == {e \in Exchange : e.cmd.kind \in RxCommands}

IInv ==
    /\ Sound(listener)
    /\ net \subseteq Sent
    /\ conns \in [Talkers -> SUBSET Sinks]
    /\ inflight \in [Controllers -> SUBSET Ordered]
    /\ nextSeq \in [Controllers -> Nat]

LEMMA StartedSound == ASSUME NEW b \in Seq(Goal), OneGoalPerSink(b) PROVE Sound(Started(b))
<1>1. Started(b) \in Listener
  BY AcmpAssumption DEF Started, Listener
<1>2. OnePending(Started(b)) /\ Reserved(Started(b), {})
  BY DEF Started, OnePending, Reserved
<1>3. Started(b).disk = b /\ Started(b).goals = b
  BY DEF Started
<1>4. GoalsAgree(b, Started(b).sinks, {})
  BY GoalSinks DEF Started, GoalsAgree
<1> HIDE DEF Started
<1> QED BY <1>1, <1>2, <1>3, <1>4 DEF Sound

\* What a handler of the listener leaves behind.
LEMMA StepServes ==
    ASSUME IInv, NEW x, Serves(listener, x), NEW gone, ListenerStep(x, gone)
    PROVE  /\ Sound(listener') /\ net' \subseteq Sent
           /\ \A cmd \in listener.pending :
                cmd \in listener'.pending \/ Answered(cmd, net')
<1>1. x \in Listener /\ listener' = [x EXCEPT !.out = {}] /\ net' = (net \ gone) \cup x.out
  BY DEF Serves, Sound, ListenerStep
<1>2. /\ listener' \in Listener /\ listener'.pending = x.pending
      /\ listener'.sinks = x.sinks /\ listener'.srp = x.srp
      /\ listener'.goals = x.goals /\ listener'.disk = x.disk
  BY <1>1, ZenonT(30) DEF Listener
<1>3. Sound(listener')
  BY <1>2 DEF Serves, Sound, OnePending, Reserved
<1>4. x.out \subseteq Sent
  BY <1>1 DEF Listener
<1>5. \A cmd \in listener.pending : cmd \in x.pending \/ Answered(cmd, x.out)
  BY DEF Serves
<1> QED BY <1>1, <1>2, <1>3, <1>4, <1>5 DEF IInv, Answered

LEMMA InitInv == Init => IInv
<1> SUFFICES ASSUME Init PROVE IInv
  OBVIOUS
<1>1. OneGoalPerSink(<<>>) /\ <<>> \in Seq(Goal)
  BY DEF OneGoalPerSink
<1>2. Sound(listener)
  BY <1>1, StartedSound, ZenonT(30) DEF Init
<1> QED BY <1>2 DEF Init, IInv

\* The invariant, and the fate of the command in the slot, for one step.
LEMMA NextInv ==
    ASSUME IInv, [Next]_vars
    PROVE  /\ IInv'
           /\ \A cmd \in listener.pending :
                \/ cmd \in listener'.pending
                \/ Answered(cmd, net')
                \/ listener' = Started(listener.disk)
<1>0. /\ Sound(listener) /\ net \subseteq Sent
      /\ conns \in [Talkers -> SUBSET Sinks]
      /\ nextSeq \in [Controllers -> Nat]
      /\ inflight \in [Controllers -> SUBSET Ordered]
  BY ZenonT(30) DEF IInv
<1>1. ASSUME NEW x, Serves(listener, x), NEW gone, ListenerStep(x, gone)
      PROVE  /\ IInv'
             /\ \A cmd \in listener.pending :
                  cmd \in listener'.pending \/ Answered(cmd, net')
  <2>1. UNCHANGED <<conns, inflight, nextSeq>>
    BY <1>1 DEF ListenerStep
  <2> QED BY <1>0, <1>1, <2>1, StepServes DEF IInv
<1>2. CASE ListenerReceive
  <2>1. PICK m \in net :
          \/ /\ m.kind \in RxCommands
             /\ ListenerStep(receive_controller_command(listener, m), {m})
          \/ /\ m.kind \in TxResponses
             /\ ListenerStep(receive_talker_response(listener, m), {m})
    BY <1>2 DEF ListenerReceive
  <2>2. m \in Message
    BY <1>0 DEF Sent
  <2> QED BY <1>0, <1>1, <2>1, <2>2, CommandServes, ResponseServes
<1>3. ASSUME NEW timeoutDue \in BOOLEAN, NEW retryDue \in BOOLEAN, Tick(timeoutDue, retryDue)
      PROVE  /\ IInv'
             /\ \A cmd \in listener.pending :
                  cmd \in listener'.pending \/ Answered(cmd, net')
  <2> DEFINE x == check_timeout(listener, timeoutDue)
             y == fast_connect_tick(x, retryDue)
  <2>1. ListenerStep(y, {})
    BY <1>3 DEF Tick
  <2>2. Serves(listener, x)
    BY <1>0, CheckTimeoutServes
  <2> HIDE DEF x
  <2>3. Serves(x, y)
    BY <2>2, GoalsTickServes DEF Serves
  <2> HIDE DEF y
  <2>4. Serves(listener, y)
    BY <2>2, <2>3, ServesTrans
  <2> QED BY <1>1, <2>1, <2>4
<1>4. ASSUME NEW t \in Talkers, TalkerDeparted(t)
      PROVE  /\ IInv'
             /\ \A cmd \in listener.pending :
                  cmd \in listener'.pending \/ Answered(cmd, net')
  BY <1>0, <1>1, <1>4, DepartureServes DEF TalkerDeparted
<1>5. CASE ListenerRestart
  <2>1. listener.disk \in Seq(Goal) /\ OneGoalPerSink(listener.disk)
    BY <1>0 DEF Sound, Listener
  <2>2. /\ listener' = Started(listener.disk) /\ net' = net
        /\ inflight' = inflight /\ nextSeq' = nextSeq /\ conns' = conns
    BY <1>5 DEF ListenerRestart
  <2>3. Sound(listener')
    BY <2>1, <2>2, StartedSound
  <2> QED BY <1>0, <2>2, <2>3 DEF IInv
<1>6. ASSUME NEW t \in Talkers, TalkerReceive(t)
      PROVE  IInv' /\ listener' = listener
  <2>1. PICK m \in net, status \in {"TALKER_NO_STREAM_INDEX", "SUCCESS"} :
          /\ m.kind \in TxCommands
          /\ net' = (net \ {m}) \cup {Reply(m, ResponseTo(m.kind), status)}
          /\ \E after \in SUBSET (conns[t] \cup {m.sink}) : conns' = [conns EXCEPT ![t] = after]
          /\ UNCHANGED <<listener, inflight, nextSeq, faults>>
    <3>1. PICK m \in net : m.kind \in TxCommands /\ \E after, status :
            /\ after = IF m.kind = "CONNECT_TX" THEN add_listener(t, m.sink) ELSE conns[t] \ {m.sink}
            /\ status \in {"TALKER_NO_STREAM_INDEX", "SUCCESS"}
            /\ conns' = [conns EXCEPT ![t] = after]
            /\ net' = (net \ {m}) \cup {Reply(m, ResponseTo(m.kind), status)}
            /\ UNCHANGED <<listener, inflight, nextSeq, faults>>
      BY <1>6, ZenonT(30) DEF TalkerReceive
    <3>2. \A x : x = (IF m.kind = "CONNECT_TX" THEN add_listener(t, m.sink)
                    ELSE conns[t] \ {m.sink}) => x \in SUBSET (conns[t] \cup {m.sink})
      BY DEF add_listener
    <3> QED BY <3>1, <3>2, ZenonT(30)
  <2>2. m \in Message /\ m.sink \in Sinks
    BY <1>0, <2>1 DEF Sent
  <2>3. ResponseTo(m.kind) \in TxResponses /\ status \in Statuses
    BY <2>1 DEF TxCommands, TxResponses, ResponseTo, Statuses
  <2>4. Reply(m, ResponseTo(m.kind), status) \in Sent
    BY <2>2, <2>3, ZenonT(30) DEF Reply, Message, Sent
  <2>5. conns' \in [Talkers -> SUBSET Sinks]
    BY <1>0, <2>1, <2>2
  <2> QED BY <1>0, <2>1, <2>4, <2>5 DEF IInv
<1>7. ASSUME NEW t \in Talkers, TalkerRestart(t)
      PROVE  IInv' /\ listener' = listener
  <2>1. conns' \in [Talkers -> SUBSET Sinks]
    BY <1>0, <1>7 DEF TalkerRestart
  <2> QED BY <1>0, <1>7, <2>1 DEF TalkerRestart, IInv
<1>8. ASSUME NEW c \in Controllers, NEW kind \in RxCommands, NEW t \in Talkers,
             NEW s \in Indices, NEW sent \in BOOLEAN, DoCommand(c, kind, t, s, sent)
      PROVE  IInv' /\ listener' = listener
  <2> DEFINE cmd == Command(kind, c, nextSeq[c], t, s)
  <2>1. nextSeq[c] \in SeqIds
    BY <1>0, <1>8, AcmpAssumption DEF DoCommand, SeqIds
  <2>2. cmd \in Message /\ cmd.kind = kind
    BY <2>1 DEF Command, Message, Statuses
  <2>3. kind \notin TxCommands
    BY DEF RxCommands, TxCommands
  <2>4. /\ listener' = listener /\ conns' = conns
        /\ nextSeq' = [nextSeq EXCEPT ![c] = @ + 1]
        /\ \/ net' = net /\ inflight' = inflight
           \/ /\ net' = net \cup {cmd}
              /\ inflight' = [inflight EXCEPT ![c] = @ \cup {[cmd |-> cmd, retried |-> FALSE]}]
    BY <1>8 DEF DoCommand
  <2> HIDE DEF cmd
  <2>5. cmd \in Sent /\ [cmd |-> cmd, retried |-> FALSE] \in Ordered
    BY <2>2, <2>3 DEF Sent, Exchange, Ordered
  <2>6. nextSeq' \in [Controllers -> Nat] /\ net' \subseteq Sent
    BY <1>0, <2>5, <2>4
  <2>7. inflight' \in [Controllers -> SUBSET Ordered]
    BY <1>0, <2>5, <2>4, ZenonT(30)
  <2> QED BY <1>0, <2>4, <2>6, <2>7 DEF IInv
<1>9. ASSUME NEW c \in Controllers, ControllerReceive(c)
      PROVE  IInv' /\ listener' = listener
  <2>1. /\ listener' = listener /\ nextSeq' = nextSeq /\ net' \subseteq net /\ conns' = conns
        /\ inflight' \in [Controllers -> SUBSET Ordered]
    BY <1>0, <1>9 DEF ControllerReceive
  <2> QED BY <1>0, <2>1 DEF IInv
<1>10. ASSUME NEW c \in Controllers, ControllerTick(c)
       PROVE  IInv' /\ listener' = listener
  <2>1. PICK due \in SUBSET inflight[c] :
          /\ inflight' = [inflight EXCEPT ![c] =
               (@ \ due) \cup {[e EXCEPT !.retried = TRUE] : e \in {f \in due : ~f.retried}}]
          /\ net' = net \cup {e.cmd : e \in {f \in due : ~f.retried}}
          /\ UNCHANGED <<listener, conns, nextSeq, faults>>
    BY <1>10, ZenonT(30) DEF ControllerTick
  <2>2. \A e \in due : e \in Ordered
    BY <1>0
  <2>3. \A e \in Ordered : e.cmd \in Sent /\ [e EXCEPT !.retried = TRUE] \in Ordered
    BY ZenonT(30) DEF Exchange, Ordered, Sent, RxCommands, TxCommands
  <2>4. net' \subseteq Sent
    BY <1>0, <2>1, <2>2, <2>3, ZenonT(30)
  <2>5. inflight' \in [Controllers -> SUBSET Ordered]
    BY <1>0, <2>1, <2>2, <2>3
  <2> QED BY <1>0, <2>1, <2>4, <2>5 DEF IInv
<1>11. CASE Lose
  BY <1>0, <1>11 DEF Lose, IInv
<1>12. CASE UNCHANGED vars
  BY <1>0, <1>12 DEF vars, IInv
<1>13. ASSUME IInv' /\ listener' = listener
       PROVE  \A cmd \in listener.pending : cmd \in listener'.pending
  BY <1>13
<1> QED
  BY <1>2, <1>3, <1>4, <1>5, <1>6, <1>7, <1>8, <1>9, <1>10, <1>11, <1>12, <1>13, ZenonT(30)
  DEF Next, ListenerRestart, Lose, vars

-----------------------------------------------------------------------------
\* Whatever is lost, late or restarted, and however many talkers and
\* controllers there are, a connected sink has its stream's Listener declared
\* (on_listener_connected, clear_talker_connections).
THEOREM ReservedCorrect == Spec => []SinkReserved
<1>1. IInv => SinkReserved
  BY DEF IInv, Sound, Reserved, SinkReserved
<1>2. IInv /\ [Next]_vars => IInv'
  BY NextInv, ZenonT(30)
<1> QED BY <1>1, <1>2, InitInv, PTL DEF Spec

\* The bindings file is the goals, a sink has one goal at most, and the goal of
\* a connected sink is its talker (set_fast_connect_goal).
THEOREM BindingsCorrect == Spec => []BindingsRemembered
<1>1. IInv => BindingsRemembered
  <2> SUFFICES ASSUME IInv PROVE BindingsRemembered
    OBVIOUS
  <2>1. listener.goals \in Seq(Goal)
    BY DEF IInv, Sound, Listener
  <2>2. DOMAIN listener.goals = 1..Len(listener.goals)
    BY <2>1
  <2> QED BY <2>2 DEF IInv, Sound, OneGoalPerSink, GoalsAgree, BindingsRemembered
<1>2. IInv /\ [Next]_vars => IInv'
  BY NextInv
<1> QED BY <1>1, <1>2, InitInv, PTL DEF Spec

\* A controller's command that the listener has taken up is answered with its
\* own sequence id before the slot is used again, unless the listener restarts
\* (send_connect_tx, handle_timeout).
THEOREM AnsweredCorrect == Spec => TakenUpIsAnswered
<1>1. IInv /\ [Next]_vars => IInv'
  BY NextInv
<1>2. IInv /\ [Next]_vars =>
        [\A cmd \in listener.pending :
           cmd.ctl # Self /\ cmd \notin listener'.pending
           => \/ \E r \in net' : r.kind \in RxResponses /\ r.ctl = cmd.ctl /\ r.seq = cmd.seq
              \/ listener' = Started(listener.disk)]_vars
  BY NextInv DEF Answered
<1> QED BY <1>1, <1>2, InitInv, PTL DEF Spec, TakenUpIsAnswered

-----------------------------------------------------------------------------
(* The tables of the talkers and of the controllers.                       *)

WithinCapacity ==
    /\ \A t \in Talkers : IsFiniteSet(conns[t]) /\ Cardinality(conns[t]) <= MaxListeners
    /\ \A c \in Controllers : IsFiniteSet(inflight[c]) /\ Cardinality(inflight[c]) <= MaxInflight

\* A retransmission marks the entries in place.
LEMMA RetriedFit ==
    ASSUME NEW S, IsFiniteSet(S), NEW due \in SUBSET S
    PROVE  LET T == (S \ due) \cup {[e EXCEPT !.retried = TRUE] : e \in {f \in due : ~f.retried}}
           IN  IsFiniteSet(T) /\ Cardinality(T) <= Cardinality(S)
<1> DEFINE kept == (S \ due) \cup {f \in due : ~f.retried}
           mark == [e \in kept |-> IF e \in due THEN [e EXCEPT !.retried = TRUE] ELSE e]
           T == (S \ due) \cup {[e EXCEPT !.retried = TRUE] : e \in {f \in due : ~f.retried}}
<1>1. kept \in SUBSET S /\ IsFiniteSet(kept) /\ Cardinality(kept) <= Cardinality(S)
  <2>1. kept \in SUBSET S
    OBVIOUS
  <2> HIDE DEF kept
  <2> QED BY <2>1, FS_Subset
<1>2. mark \in [kept -> T] /\ \A y \in T : \E x \in kept : mark[x] = y
  BY ZenonT(30)
<1> HIDE DEF mark, T
<1>3. mark \in Surjection(kept, T)
  BY <1>2 DEF Surjection
<1>4. IsFiniteSet(T) /\ Cardinality(T) <= Cardinality(kept)
  BY <1>1, <1>3, FS_Surjection
<1>5. Cardinality(T) \in Nat /\ Cardinality(kept) \in Nat /\ Cardinality(S) \in Nat
  BY <1>1, <1>4, FS_CardinalityType
<1>6. IsFiniteSet(T) /\ Cardinality(T) <= Cardinality(S)
  BY <1>1, <1>4, <1>5
<1> QED BY <1>6 DEF T

\* A set that gains one element where there is room for it.
LEMMA OneMoreFits ==
    ASSUME NEW S, IsFiniteSet(S), NEW x, NEW n \in Nat, Cardinality(S) < n
    PROVE  IsFiniteSet(S \cup {x}) /\ Cardinality(S \cup {x}) <= n
<1>1. Cardinality(S) \in Nat
  BY FS_CardinalityType
<1> QED BY <1>1, FS_AddElement

LEMMA FewerFit ==
    ASSUME NEW S, IsFiniteSet(S), NEW n \in Nat, Cardinality(S) <= n, NEW T \in SUBSET S
    PROVE  IsFiniteSet(T) /\ Cardinality(T) <= n
<1>1. IsFiniteSet(T) /\ Cardinality(T) <= Cardinality(S)
  BY FS_Subset
<1>2. Cardinality(T) \in Nat /\ Cardinality(S) \in Nat
  BY <1>1, FS_CardinalityType
<1> QED BY <1>1, <1>2

LEMMA CapacityKept ==
    ASSUME IInv, WithinCapacity, [Next]_vars
    PROVE  WithinCapacity'
<1>0. /\ conns \in [Talkers -> SUBSET Sinks]
      /\ inflight \in [Controllers -> SUBSET Ordered]
      /\ MaxListeners \in Nat /\ MaxInflight \in Nat
  BY AcmpAssumption DEF IInv
<1>1. CASE conns' = conns /\ inflight' = inflight
  BY <1>1 DEF WithinCapacity
<1>2. ASSUME NEW t \in Talkers, NEW after, inflight' = inflight,
             conns' = [conns EXCEPT ![t] = after],
             IsFiniteSet(after), Cardinality(after) <= MaxListeners
      PROVE  WithinCapacity'
  BY <1>0, <1>2 DEF WithinCapacity
<1>3. ASSUME NEW c \in Controllers, NEW after, conns' = conns,
             inflight' = [inflight EXCEPT ![c] = after],
             IsFiniteSet(after), Cardinality(after) <= MaxInflight
      PROVE  WithinCapacity'
  BY <1>0, <1>3 DEF WithinCapacity
<1>4. ASSUME NEW t \in Talkers, TalkerReceive(t) \/ TalkerRestart(t)
      PROVE  WithinCapacity'
  <2>1. IsFiniteSet(conns[t]) /\ Cardinality(conns[t]) <= MaxListeners
    BY DEF WithinCapacity
  <2>2. CASE TalkerRestart(t)
    <3>1. IsFiniteSet({}) /\ Cardinality({}) <= MaxListeners
      BY <1>0, FS_EmptySet
    <3> QED BY <1>2, <2>2, <3>1, ZenonT(30) DEF TalkerRestart
  <2>3. CASE TalkerReceive(t)
    <3> DEFINE Left(m) == IF m.kind = "CONNECT_TX" THEN add_listener(t, m.sink)
                          ELSE conns[t] \ {m.sink}
    <3>1. PICK m \in net :
            /\ conns' = [conns EXCEPT ![t] = Left(m)]
            /\ inflight' = inflight
      BY <2>3, ZenonT(30) DEF TalkerReceive
    <3>2. PICK after :
            /\ after = Left(m)
            /\ conns' = [conns EXCEPT ![t] = after]
            /\ inflight' = inflight
      BY <3>1, ZenonT(30)
    <3>3. CASE after = conns[t] \cup {m.sink} /\ Cardinality(conns[t]) < MaxListeners
      <4>1. IsFiniteSet(after) /\ Cardinality(after) <= MaxListeners
        BY <1>0, <2>1, <3>3, OneMoreFits, ZenonT(30)
      <4> QED BY <1>2, <3>2, <4>1, ZenonT(30)
    <3>4. CASE after \in SUBSET conns[t]
      <4>1. IsFiniteSet(after) /\ Cardinality(after) <= MaxListeners
        BY <1>0, <2>1, <3>4, FewerFit
      <4> QED BY <1>2, <3>2, <4>1, ZenonT(30)
    <3>5. \/ after = conns[t] \cup {m.sink} /\ Cardinality(conns[t]) < MaxListeners
          \/ after \in SUBSET conns[t]
      BY <3>2 DEF add_listener
    <3> QED BY <3>3, <3>4, <3>5
  <2> QED BY <1>4, <2>2, <2>3
<1>5. ASSUME NEW c \in Controllers,
             \/ \E kind \in RxCommands, t \in Talkers, s \in Indices, sent \in BOOLEAN :
                  DoCommand(c, kind, t, s, sent)
             \/ ControllerReceive(c)
             \/ ControllerTick(c)
      PROVE  WithinCapacity'
  <2>1. IsFiniteSet(inflight[c]) /\ Cardinality(inflight[c]) <= MaxInflight
    BY DEF WithinCapacity
  <2>2. ASSUME NEW kind \in RxCommands, NEW t \in Talkers, NEW s \in Indices,
               NEW sent \in BOOLEAN, DoCommand(c, kind, t, s, sent)
        PROVE  WithinCapacity'
    <3>1. PICK e :
            /\ Cardinality(inflight[c]) < MaxInflight /\ conns' = conns
            /\ \/ inflight' = inflight
               \/ inflight' = [inflight EXCEPT ![c] = inflight[c] \cup {e}]
      BY <2>2, ZenonT(30) DEF DoCommand
    <3>2. IsFiniteSet(inflight[c] \cup {e}) /\ Cardinality(inflight[c] \cup {e}) <= MaxInflight
      BY <1>0, <2>1, <3>1, OneMoreFits, ZenonT(30)
    <3> QED BY <1>1, <1>3, <3>1, <3>2
  <2>3. CASE ControllerReceive(c)
    <3>1. PICK after \in SUBSET inflight[c] :
            conns' = conns /\ inflight' = [inflight EXCEPT ![c] = after]
      BY <2>3, ZenonT(30) DEF ControllerReceive
    <3>2. IsFiniteSet(after) /\ Cardinality(after) <= MaxInflight
      BY <1>0, <2>1, FewerFit
    <3> QED BY <1>3, <3>1, <3>2, ZenonT(30)
  <2>4. CASE ControllerTick(c)
    <3>1. PICK due \in SUBSET inflight[c] :
            /\ conns' = conns
            /\ inflight' = [inflight EXCEPT ![c] =
                 (inflight[c] \ due)
                   \cup {[e EXCEPT !.retried = TRUE] : e \in {f \in due : ~f.retried}}]
      BY <2>4, ZenonT(30) DEF ControllerTick
    <3> DEFINE T == (inflight[c] \ due)
                      \cup {[e EXCEPT !.retried = TRUE] : e \in {f \in due : ~f.retried}}
    <3>2. IsFiniteSet(T) /\ Cardinality(T) <= Cardinality(inflight[c])
      BY <2>1, RetriedFit, ZenonT(30)
    <3>3. inflight' = [inflight EXCEPT ![c] = T]
      BY <3>1
    <3> HIDE DEF T
    <3>4. Cardinality(T) \in Nat /\ Cardinality(inflight[c]) \in Nat
      BY <2>1, <3>2, FS_CardinalityType
    <3>5. Cardinality(T) <= MaxInflight
      BY <1>0, <2>1, <3>2, <3>4
    <3> QED BY <1>3, <3>1, <3>2, <3>3, <3>5
  <2> QED BY <1>5, <2>2, <2>3, <2>4, ZenonT(30)
<1>6. ASSUME NEW x, NEW gone, ListenerStep(x, gone)
      PROVE  WithinCapacity'
  BY <1>1, <1>6 DEF ListenerStep
<1>7. CASE ListenerReceive \/ \E timeoutDue, retryDue \in BOOLEAN : Tick(timeoutDue, retryDue)
  BY <1>6, <1>7, ZenonT(30) DEF ListenerReceive, Tick
<1>8. ASSUME NEW t \in Talkers, TalkerDeparted(t)
      PROVE  WithinCapacity'
  BY <1>6, <1>8 DEF TalkerDeparted
<1>9. CASE ListenerRestart \/ Lose \/ UNCHANGED vars
  BY <1>1, <1>9 DEF ListenerRestart, Lose, vars
<1> QED BY <1>4, <1>5, <1>7, <1>8, <1>9 DEF Next

\* Every message, table and record has its type, and no table of a talker or a
\* controller exceeds its capacity, however many are ordered and retransmitted
\* (add_listener, send_command).
THEOREM TablesFit == Spec => []TypeOK
<1>1. Init => WithinCapacity
  <2>1. IsFiniteSet({}) /\ Cardinality({}) <= MaxListeners /\ Cardinality({}) <= MaxInflight
    BY FS_EmptySet, AcmpAssumption
  <2> QED BY <2>1 DEF Init, WithinCapacity
<1>2. IInv /\ WithinCapacity /\ [Next]_vars => (IInv /\ WithinCapacity)'
  BY NextInv, CapacityKept, ZenonT(30)
<1>3. IInv /\ WithinCapacity => TypeOK
  <2> SUFFICES ASSUME IInv, WithinCapacity PROVE TypeOK
    OBVIOUS
  <2>1. /\ listener \in Listener /\ OnePending(listener) /\ net \subseteq Message
    BY DEF IInv, Sound, Sent
  <2>2. Cardinality(listener.pending) <= 1
    <3>1. CASE listener.pending = {}
      BY <3>1, FS_EmptySet
    <3>2. CASE listener.pending # {}
      <4>1. PICK m : listener.pending = {m}
        BY <2>1, <3>2 DEF OnePending
      <4> QED BY <4>1, FS_Singleton
    <3> QED BY <3>1, <3>2
  <2>3. \A c \in Controllers : inflight[c] \subseteq Exchange
    BY DEF IInv, Ordered
  <2>4. \A t \in Talkers : conns[t] \subseteq Sinks
    BY DEF IInv
  <2> QED BY <2>1, <2>2, <2>3, <2>4 DEF TypeOK, WithinCapacity, Listener, Taken
<1> QED BY <1>1, <1>2, <1>3, InitInv, PTL DEF Spec

\* Sinks, reservations and bindings of a listener agree after every step, and
\* every table is within its capacity.
THEOREM ListenerCorrect == Spec => []ListenerAgrees
BY TablesFit, ReservedCorrect, BindingsCorrect, PTL DEF ListenerAgrees

=============================================================================
