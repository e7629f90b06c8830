------------------------------ MODULE GptpPort ------------------------------
(***************************************************************************)
(* ServoLoop of src/statusbar/gptp/gptp_servo.cpp as a function on its     *)
(* state.  A Sync sample is its phase error e (master minus local).        *)
(* Samples are SyncStep apart on the local clock, so master time moves by  *)
(* SyncStep + e - previous e between two of them.  The frequency itself is *)
(* abstracted to whether the PI controller has contributed to it.          *)
(***************************************************************************)
EXTENDS Integers

CONSTANTS Errors,          \* the phase errors a sample may have
          NoError,         \* no previous sample
          SyncStep,        \* local time between two samples
          JumpThreshold,   \* servo_phase_jump_threshold_ns
          JumpSamples      \* servo_phase_jump_consecutive_samples

ASSUME ServoAssumption ==
    /\ Errors \subseteq Int
    /\ NoError \notin Int
    /\ SyncStep \in Nat \ {0}
    /\ JumpThreshold \in Nat
    /\ JumpSamples \in Nat \ {0}

Servo == [jumps : 0..JumpSamples, prev : Errors \cup {NoError}, tuned : BOOLEAN]

FreshServo == [jumps |-> 0, prev |-> NoError, tuned |-> FALSE]

Large(e) == e > JumpThreshold \/ -e > JumpThreshold

\* The master went backwards between two samples.
Backward(s, e) == s.prev # NoError /\ SyncStep + e - s.prev < 0

Process_mutResetOnBackward(s, e) ==
    IF Backward(s, e) THEN [s EXCEPT !.prev = e, !.jumps = 0]
    ELSE IF Large(e)
         THEN IF s.jumps + 1 >= JumpSamples THEN FreshServo
              ELSE [s EXCEPT !.prev = e, !.jumps = @ + 1]
         ELSE [jumps |-> 0, prev |-> e, tuned |-> TRUE]

\* process(): a backward sample is only remembered; an out-of-band one is
\* counted, and steps the clock once enough of them have been seen; an
\* in-band one drives the PI controller.
Process(s, e) ==
    IF Backward(s, e) THEN [s EXCEPT !.prev = e]
    ELSE IF Large(e)
         THEN IF s.jumps + 1 >= JumpSamples THEN FreshServo
              ELSE [s EXCEPT !.prev = e, !.jumps = @ + 1]
         ELSE [jumps |-> 0, prev |-> e, tuned |-> TRUE]

\* adjust_phase_ns is called.
Steps(s, e) == ~Backward(s, e) /\ Large(e) /\ s.jumps + 1 >= JumpSamples

-----------------------------------------------------------------------------
(***************************************************************************)
(* The protocol components of one gPTP slave port (src/statusbar/gptp) as  *)
(* functions on the port's state: the PortState machine, MDSyncReceive,    *)
(* MDPdelayReq, PortAnnounceReceive and the timers.  Timestamps are        *)
(* abstracted to whether the port has them and to the delay and rate they  *)
(* yield; a timer is armed or not.                                         *)
(***************************************************************************)
CONSTANTS Masters,         \* source port identities seen on the link
          NoMaster,
          SeqMod,          \* sequence ids are modulo this (65536 in the code)
          LostThreshold,   \* lost_pdelay_resp_threshold
          Delays,          \* the link delays an exchange may measure
          DelayThreshold,  \* neighbor_prop_delay_threshold_ns, 0 to disable
          Ratios,          \* the neighbour rate ratios it may measure
          UnitRatio,       \* 1.0
          PdelayActive,    \* pdelay_mode is Active
          CapInitial,      \* as_capable_initial
          Verify           \* verify_source_port_identity

ASSUME PortAssumption ==
    /\ NoMaster \notin Masters
    /\ SeqMod \in Nat \ {0, 1}
    /\ LostThreshold \in Nat \ {0}
    /\ Delays \subseteq Int /\ 0 \in Delays
    /\ DelayThreshold \in Nat
    /\ UnitRatio \in Ratios
    /\ {PdelayActive, CapInitial, Verify} \subseteq BOOLEAN

SeqId == 0..(SeqMod - 1)
Timer == {"interval", "receipt", "sync", "announce"}

PortState == {"Start", "Disabled", "Initializing", "Listening",
              "Uncalibrated", "Slave"}

Pdelay == [st    : {"NotEnabled", "Initial", "WaitResp", "WaitFollowUp", "Idle"},
           next  : SeqId,     \* next_sequence_id_
           seq   : SeqId,     \* in_flight_.sequence_id
           t1    : BOOLEAN,   \* in_flight_.have_t1
           prev  : BOOLEAN,   \* previous_completed_ has a value
           ratio : Ratios,
           lost  : 0..LostThreshold,
           cap   : BOOLEAN]

Port == [st     : PortState,
         cap    : BOOLEAN,     \* port_state_ctx_.as_capable
         synced : BOOLEAN,     \* port_state_ctx_.synced
         sync   : [st  : {"Idle", "WaitFollowUp", "Discard"},
                   seq : SeqId, src : Masters \cup {NoMaster}],
         app    : Masters \cup {NoMaster},   \* whose Sync pending_sync_rx_app_ns_ is
         pd     : Pdelay,
         ann    : [on : BOOLEAN, gm : Masters \cup {NoMaster},
                   src : Masters \cup {NoMaster}],
         servo  : Servo,
         link   : [delay : Delays, ratio : Ratios],
         timer  : [Timer -> BOOLEAN],
         told   : [synced : BOOLEAN, cap : BOOLEAN,   \* the observers' view
                   gm : Masters \cup {NoMaster},
                   link : [delay : Delays, ratio : Ratios]]]

NoLink == [delay |-> 0, ratio |-> UnitRatio]

InitPd == [st |-> "NotEnabled", next |-> 1, seq |-> 0, t1 |-> FALSE,
           prev |-> FALSE, ratio |-> UnitRatio, lost |-> 0, cap |-> FALSE]

InitPort ==
    [st |-> "Start", cap |-> FALSE, synced |-> FALSE,
     sync |-> [st |-> "Idle", seq |-> 0, src |-> NoMaster],
     app |-> NoMaster, pd |-> InitPd,
     ann |-> [on |-> TRUE, gm |-> NoMaster, src |-> NoMaster],
     servo |-> FreshServo, link |-> NoLink,
     timer |-> [t \in Timer |-> FALSE],
     told |-> [synced |-> FALSE, cap |-> FALSE, gm |-> NoMaster, link |-> NoLink]]

-----------------------------------------------------------------------------
(***************************************************************************)
(* PortState machine.  A cell is the action and the target; a state        *)
(* without a cell ignores the event.                                       *)
(***************************************************************************)
Down == <<"none", "Disabled">>

PortTable ==
    [UCT               |-> [Start |-> <<"none", "Disabled">>],
     LinkUp            |-> [Disabled |-> <<"none", "Initializing">>],
     LinkDown          |-> [Initializing |-> Down, Listening |-> Down,
                            Uncalibrated |-> Down, Slave |-> Down],
     AsCapableAcquired |-> [Initializing |-> <<"none", "Listening">>,
                            Listening |-> <<"as_capable", "Uncalibrated">>],
     AsCapableLost     |-> [Uncalibrated |-> <<"drop_as_capable", "Listening">>,
                            Slave |-> <<"drop_as_capable", "Listening">>],
     FirstSyncLocked   |-> [Uncalibrated |-> <<"sync", "Slave">>],
     SyncLost          |-> [Slave |-> <<"lose_sync", "Uncalibrated">>],
     AdministrativeDisable |-> [Initializing |-> Down, Listening |-> Down,
                                Uncalibrated |-> Down, Slave |-> Down]]

\* The action of the cell, then the entry hook of Disabled.

AfterCell(p, cell) ==
    [p EXCEPT !.st = cell[2],
              !.cap = CASE cell[2] = "Disabled" -> FALSE
                        [] cell[1] = "drop_as_capable" -> FALSE
                        [] cell[1] = "as_capable" -> TRUE
                        [] OTHER -> @,
              !.synced = CASE cell[2] = "Disabled" -> FALSE
                           [] cell[1] \in {"drop_as_capable", "lose_sync"} -> FALSE
                           [] cell[1] = "sync" -> TRUE
                           [] OTHER -> @]

Fire(p, ev) ==
    IF p.st \in DOMAIN PortTable[ev] THEN AfterCell(p, PortTable[ev][p.st]) ELSE p

\* drive_as_capable_acquired: one event to leave Initializing, one to leave
\* Listening.
AcquireAsCapable(p) == Fire(Fire(p, "AsCapableAcquired"), "AsCapableAcquired")

\* sync_as_capable: was is MDPdelayReq's flag before the event.
SyncAsCapable(p, was) ==
    IF p.pd.cap = was THEN p
    ELSE IF p.pd.cap THEN AcquireAsCapable(p) ELSE Fire(p, "AsCapableLost")

\* publish_state_changes.
Publish(p) == [p EXCEPT !.told.synced = p.synced, !.told.cap = p.cap]

Arm(p, t) == [p EXCEPT !.timer[t] = TRUE]
-----------------------------------------------------------------------------
(***************************************************************************)
(* MDPdelayReq.  have_t2 and have_t4 are set together with the state       *)
(* WaitFollowUp, so only have_t1 is kept.  lost saturates at its           *)
(* threshold, beyond which its value makes no difference.                  *)
(***************************************************************************)
EnablePd(d) == [InitPd EXCEPT !.st = "Initial"]

DisablePd(d) == [d EXCEPT !.st = "NotEnabled", !.seq = 0, !.t1 = FALSE, !.cap = FALSE]

ExchangeFailed(d) ==
    [d EXCEPT !.st = "Idle", !.seq = 0, !.t1 = FALSE,
              !.lost = IF @ < LostThreshold THEN @ + 1 ELSE @,
              !.cap = IF d.lost + 1 >= LostThreshold THEN FALSE ELSE @]

Waiting(d) == d.st \in {"WaitResp", "WaitFollowUp"}

\* pdelay_interval_timer_expired, then the transmit timestamp of the request
\* if send_frame returned one.
Request(d, stamped) ==
    LET f == IF Waiting(d) THEN ExchangeFailed(d) ELSE d
    IN  [f EXCEPT !.st = "WaitResp", !.seq = f.next,
                  !.next = (@ + 1) % SeqMod, !.t1 = stamped]

PdResp(d, seq) ==
    IF d.st = "WaitResp" /\ seq = d.seq
    THEN [d EXCEPT !.st = "WaitFollowUp"] ELSE d

\* The exchange that this Pdelay_Resp_Follow_Up completes yields a measurement.
Measures(d, seq) == d.st = "WaitFollowUp" /\ seq = d.seq /\ d.t1

PdRespFollowUp(d, seq, delay, ratio) ==
    IF Measures(d, seq)
    THEN [d EXCEPT !.st = "Idle", !.seq = 0, !.t1 = FALSE, !.lost = 0,
                   !.prev = TRUE,
                   !.ratio = IF d.prev THEN ratio ELSE @,
                   !.cap = ~(DelayThreshold > 0 /\ delay > DelayThreshold)]
    ELSE IF d.st = "WaitFollowUp" /\ seq = d.seq THEN ExchangeFailed(d) ELSE d

-----------------------------------------------------------------------------
(***************************************************************************)
(* MDSyncReceive and the port's use of the announced grandmaster.          *)
(***************************************************************************)
DiscardSync(s) == [st |-> "Discard", seq |-> 0, src |-> NoMaster]

IdleSync(s) == [st |-> "Idle", seq |-> 0, src |-> NoMaster]

SourceIsGrandmaster(p, src) ==
    \/ ~Verify
    \/ p.ann.src = NoMaster
    \/ src = p.ann.src

OnSync(s, seq, src) ==
    IF s.st = "Discard" THEN s
    ELSE [st |-> "WaitFollowUp", seq |-> seq, src |-> src]

Pairs_mutSeqOnly(s, seq, src) == s.st = "WaitFollowUp" /\ seq = s.seq

Pairs(s, seq, src) == s.st = "WaitFollowUp" /\ seq = s.seq /\ src = s.src
=============================================================================
