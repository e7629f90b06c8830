------------------------------ MODULE MCClocks ------------------------------
(***************************************************************************)
(* The clock chain on small instances, one link of it in a behaviour: a    *)
(* port that hears two masters, the servo against any samples, and the PTP *)
(* bridge with its timer.  A sample is SyncStep = 2 after the one before,  *)
(* so the fall of the error from 9 to 5, to 0 or to -4 is a master that    *)
(* runs backwards.                                                         *)
(***************************************************************************)
EXTENDS GptpSlavePort, PtpClient

MixedErrors == {-4, -1, 0, 1, 2, 5, 9}
NoDelay == {0}

Env(kinds, left) == [kinds |-> kinds, left |-> left]

\* What a behaviour of the bridge meets: every pair of disturbances with a
\* reader of the mapping, and every disturbance with the timer.
SomeEnvironments ==
    {Env({"forward", "backward", "convert"}, 2), Env({"forward", "restart", "convert"}, 2),
     Env({"forward", "reset", "convert"}, 2), Env({"forward", "timer"}, 1), Env({"restart", "timer"}, 1),
     Env({"reset", "timer"}, 1), Env({"signal", "timer"}, 1)}

-----------------------------------------------------------------------------
(* The servo fed with any sequence of samples: what it does over time. *)

VARIABLES servo,
          recent,     \* the last JumpSamples phase errors since the last reset
          stepped     \* the last sample stepped the clock

servoVars == <<servo, recent, stepped>>

ServoInit == servo = FreshServo /\ recent = <<>> /\ stepped = FALSE

Sample(e) ==
    /\ servo' = Process(servo, e)
    /\ recent' = LET r == Append(recent, e)
                 IN  IF Len(r) > JumpSamples THEN Tail(r) ELSE r
    /\ stepped' = Steps(servo, e)

\* reset(): the port lost its link or its synchronization.
ServoReset == servo' = FreshServo /\ recent' = <<>> /\ stepped' = FALSE

ServoNext == (\E e \in Errors : Sample(e)) \/ ServoReset

ServoSpec == ServoInit /\ [][ServoNext]_servoVars

\* The master keeps sending Syncs.
ServoFairness == WF_servoVars(\E e \in Errors : Sample(e))

-----------------------------------------------------------------------------
Newest == recent[Len(recent)]

\* The servo's fields and the sample history have their types.
ServoTypeOK ==
    /\ servo \in Servo
    /\ recent \in UNION {[1..n -> Errors] : n \in 0..JumpSamples}
    /\ stepped \in BOOLEAN

\* The PI controller is only driven by an in-band sample: while a phase jump is
\* being confirmed the integrator does not wind up.
OnlyInBandTunes ==
    [][servo'.tuned /\ ~servo.tuned
          => ~Large(recent'[Len(recent')])]_servoVars

\* A clock that stays out of band is stepped, again and again until it is not,
\* even if the master's time also runs backwards between samples.
PersistentErrorStepped ==
    <>[](recent # <<>> /\ Large(Newest)) => []<>stepped

\* A lasting error is stepped and only a good sample tunes the rate.
ServoDisciplines == OnlyInBandTunes /\ PersistentErrorStepped

-----------------------------------------------------------------------------
(* The links of the chain. *)

VARIABLE part

clockVars == <<part, vars, servoVars, timerVars>>

ClocksInit ==
    /\ part \in {"port", "servo", "bridge"}
    /\ Init /\ ServoInit /\ BridgeInit /\ TimerInit
    /\ part # "bridge" => env = Env({"signal", "timer"}, 1) /\ phc = 1

ClocksNext ==
    \/ part = "port" /\ Next /\ UNCHANGED <<part, servoVars, timerVars>>
    \/ part = "servo" /\ ServoNext /\ UNCHANGED <<part, vars, timerVars>>
    \/ part = "bridge" /\ TimerNext /\ UNCHANGED <<part, vars, servoVars>>

ClocksSpec ==
    /\ ClocksInit /\ [][ClocksNext]_clockVars
    /\ WF_servoVars(part = "servo" /\ \E e \in Errors : Sample(e))
    /\ WF_timerVars(part = "bridge" /\ TimerStep)
=============================================================================
