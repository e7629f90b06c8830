----------------------------- MODULE PtpClient ------------------------------
(***************************************************************************)
(* PtpTimeBridge (src/statusbar/ptpclient/ptpclient_bridge.cpp): a sampler *)
(* thread fits PHC = rate * RAW + offset over a window of readings and     *)
(* publishes it; other threads read the mapping, the epoch and the health  *)
(* by separate loads.  Every load and store that another thread can see is *)
(* a step of its own.                                                      *)
(*                                                                         *)
(* The value of a reading is the timeline the PHC was on when it was read: *)
(* a step of the PHC puts it on another one, a later time being a greater  *)
(* number.  A fit over readings of one timeline is a mapping to it; a fit  *)
(* over three or more readings of several maps to no timeline (Mixed), and *)
(* for a step worth the name its residual exceeds step_threshold_ns and    *)
(* degrade_threshold_ns.  (Two readings always fit a line exactly.)        *)
(***************************************************************************)
EXTENDS Integers, Sequences

CONSTANTS Timelines,        \* the timelines the PHC steps between
          WindowSize,       \* window_size
          MinSamples,       \* min_samples_for_fit()
          Environments,     \* the disturbances and readers of a behaviour, and
                            \* a bound on the disturbances
          MaxEvents         \* the largest such bound

ASSUME PtpBridgeAssumption ==
    /\ Timelines \subseteq Nat \ {0}
    /\ MinSamples \in Nat /\ WindowSize \in Nat
    /\ 3 <= MinSamples /\ MinSamples <= WindowSize
    /\ MaxEvents \in Nat
    /\ Environments \subseteq
          [kinds : SUBSET {"forward", "backward", "restart", "reset", "signal",
                           "convert", "timer"},
           left  : 0..MaxEvents]

VARIABLES env,      \* what this behaviour meets, and the disturbances left
          phc,      \* the timeline the PHC is on
          bridge,   \* the atomics of PtpTimeBridgeBase
          sampler,  \* the sampler thread and its window; last is history, the
                    \* last healthy mapping since sampling started
          api,      \* the thread inside reset_epoch(), step by step
          conv      \* a thread inside convert_raw_to_ptp()

bridgeVars == <<env, phc, bridge, sampler, api, conv>>

Mixed == 0

Epoch == 0..MaxEvents

\* A published mapping; the rest is history: the epoch it was published in,
\* the health that was published with it, and whether a reset_epoch() that
\* has raised the epoch had yet to clear the readings it was fitted to.
Mapping == [tl : Timelines \cup {Mixed}, ep : Epoch, good : BOOLEAN, late : BOOLEAN]

Unset == [tl |-> Mixed, ep |-> 0, good |-> FALSE, late |-> FALSE]

\* What get_mapping() and convert_*() return.
Reading == [ro : Mapping, epoch : Epoch, healthy : BOOLEAN]

NoReading == [ro |-> Unset, epoch |-> 0, healthy |-> FALSE]

\* The window never outgrows window_size, and the epoch grows at most once for
\* each step of the PHC and each reset_epoch().
BridgeTypeOK ==
    /\ \E e \in Environments : env \in [kinds : {e.kinds}, left : 0..e.left]
    /\ phc \in Timelines
    /\ bridge \in [running : BOOLEAN, ro : Mapping, epoch : Epoch,
                   healthy : BOOLEAN, ever : BOOLEAN, reset : BOOLEAN]
    /\ sampler \in [pc : {"none", "top", "read", "fit", "pub", "good", "ever",
                          "step1", "step2", "step3"},
                    window : Seq(Timelines), quiet : BOOLEAN, last : Mapping]
    /\ Len(sampler.window) <= WindowSize
    /\ api \in {"idle", "epoch", "healthy", "ever", "reset"}
    /\ conv \in [pc : {"ro", "epoch", "healthy", "done"}, m : Reading]

BridgeInit ==
    /\ env \in Environments
    /\ phc \in Timelines
    /\ bridge = [running |-> FALSE, ro |-> Unset, epoch |-> 0, healthy |-> FALSE,
                 ever |-> FALSE, reset |-> FALSE]
    /\ sampler = [pc |-> "none", window |-> <<>>, quiet |-> FALSE, last |-> Unset]
    /\ api = "idle"
    /\ conv = [pc |-> "ro", m |-> NoReading]

-----------------------------------------------------------------------------
(* The disturbances.                                                       *)

Meets(kind) == kind \in env.kinds /\ env.left > 0

Spent == [env EXCEPT !.left = @ - 1]

\* The PHC is stepped (by its servo, or by a change of grandmaster).
PhcStep(t) ==
    /\ t > phc => Meets("forward")
    /\ t < phc => Meets("backward")
    /\ t # phc
    /\ phc' = t
    /\ env' = Spent
    /\ UNCHANGED <<bridge, sampler, api, conv>>

StartSampling ==
    /\ ~bridge.running /\ sampler.pc = "none"
    /\ bridge' = [bridge EXCEPT !.running = TRUE, !.reset = FALSE]
    /\ sampler' = [sampler EXCEPT !.pc = "top", !.window = <<>>, !.last = Unset]
    /\ UNCHANGED <<env, phc, api, conv>>

\* stop_sampling(): the join returns once the sampler is at "none".
StopSampling ==
    /\ Meets("restart")
    /\ bridge.running
    /\ bridge' = [bridge EXCEPT !.running = FALSE]
    /\ env' = Spent
    /\ UNCHANGED <<phc, sampler, api, conv>>

ResetEpoch ==
    /\ CASE api = "idle"    -> /\ Meets("reset")
                               /\ api' = "epoch" /\ UNCHANGED bridge
         [] api = "epoch"   -> /\ bridge' = [bridge EXCEPT !.epoch = @ + 1]
                               /\ api' = "healthy"
         [] api = "healthy" -> /\ bridge' = [bridge EXCEPT !.healthy = FALSE]
                               /\ api' = "ever"
         [] api = "ever"    -> /\ bridge' = [bridge EXCEPT !.ever = FALSE]
                               /\ api' = "reset"
         [] api = "reset"   -> /\ bridge' = [bridge EXCEPT !.reset = TRUE]
                               /\ api' = "idle"
    /\ env' = IF api = "idle" THEN Spent ELSE env
    /\ UNCHANGED <<phc, sampler, conv>>

-----------------------------------------------------------------------------
(* The sampler thread.                                                     *)

At(pc) == sampler.pc = pc

Goto(pc) == sampler' = [sampler EXCEPT !.pc = pc]

\* The loop's test, then collect_sample()'s exchange of the reset request.
SamplerTop ==
    /\ At("top")
    /\ IF bridge.running
       THEN /\ bridge' = [bridge EXCEPT !.reset = FALSE]
            /\ sampler' = [sampler EXCEPT !.pc = "read",
                              !.window = IF bridge.reset THEN <<>> ELSE @]
       ELSE Goto("none") /\ UNCHANGED bridge
    /\ UNCHANGED <<env, phc, api, conv>>

\* A window keeps its last WindowSize samples.
Pushed(w) == LET s == Append(w, phc)
             IN  IF Len(s) > WindowSize THEN Tail(s) ELSE s

\* The reading failed, or its bracket was too long.
SampleRejected ==
    /\ At("read")
    /\ Goto("top")
    /\ UNCHANGED <<env, phc, bridge, api, conv>>

SampleAccepted ==
    /\ At("read")
    /\ sampler' = [sampler EXCEPT
                      !.window = Pushed(@),
                      !.pc = IF Len(Pushed(sampler.window)) >= MinSamples
                             THEN "fit" ELSE "top"]
    /\ UNCHANGED <<env, phc, bridge, api, conv>>

FitOf(w) == IF \A i \in DOMAIN w : w[i] = w[1] THEN w[1] ELSE Mixed

StepSeen_mutBlind(w) == FALSE

\* fit.max_residual > step_threshold_ns
StepSeen(w) == FitOf(w) = Mixed

\* update_mapping(): quiet is whether the fit's rms residual is small.
UpdateMapping ==
    /\ At("fit")
    /\ IF bridge.ever /\ StepSeen(sampler.window)
       THEN Goto("step1")
       ELSE \E quiet \in BOOLEAN :
              /\ FitOf(sampler.window) = Mixed => ~quiet
              /\ sampler' = [sampler EXCEPT !.pc = "pub", !.quiet = quiet]
    /\ UNCHANGED <<env, phc, bridge, api, conv>>

\* The step path: a new epoch, unhealthy, a reset asked for.
NewEpoch ==
    /\ \/ /\ At("step1") /\ Goto("step2")
          /\ bridge' = [bridge EXCEPT !.epoch = @ + 1]
       \/ /\ At("step2") /\ Goto("step3")
          /\ bridge' = [bridge EXCEPT !.healthy = FALSE]
       \/ /\ At("step3") /\ Goto("top")
          /\ bridge' = [bridge EXCEPT !.ever = FALSE, !.reset = TRUE]
    /\ UNCHANGED <<env, phc, api, conv>>

\* reset_epoch() has raised the epoch and the window still is the old one.
ResetPending == api \in {"healthy", "ever", "reset"} \/ bridge.reset

\* The normal path: publish the pair, then its health.
PublishMapping ==
    /\ \/ /\ At("pub") /\ Goto("good")
          /\ bridge' = [bridge EXCEPT !.ro =
                [tl |-> FitOf(sampler.window), ep |-> bridge.epoch,
                 good |-> sampler.quiet, late |-> ResetPending]]
       \/ /\ At("good")
          /\ bridge' = [bridge EXCEPT !.healthy = sampler.quiet]
          /\ sampler' = IF sampler.quiet
                        THEN [sampler EXCEPT !.pc = "ever", !.last = bridge.ro]
                        ELSE [sampler EXCEPT !.pc = "top"]
       \/ /\ At("ever") /\ Goto("top")
          /\ bridge' = [bridge EXCEPT !.ever = TRUE]
    /\ UNCHANGED <<env, phc, api, conv>>

SamplerStep == SampleRejected \/ SampleAccepted \/ UpdateMapping \/ NewEpoch \/ PublishMapping

-----------------------------------------------------------------------------
(* The loads of get_mapping() and of convert_*(): the pair, the epoch, the *)
(* health.                                                                 *)

LoadsNext(pc, m) ==
    CASE pc = "ro"      -> [pc |-> "epoch", m |-> [m EXCEPT !.ro = bridge.ro]]
      [] pc = "epoch"   -> [pc |-> "healthy", m |-> [m EXCEPT !.epoch = bridge.epoch]]
      [] pc = "healthy" -> [pc |-> "done", m |-> [m EXCEPT !.healthy = bridge.healthy]]

Convert ==
    /\ "convert" \in env.kinds
    /\ conv' = IF conv.pc = "done" THEN [pc |-> "ro", m |-> NoReading]
               ELSE LoadsNext(conv.pc, conv.m)
    /\ UNCHANGED <<env, phc, bridge, sampler, api>>

BridgeNext ==
    \/ \E t \in Timelines : PhcStep(t)
    \/ StartSampling \/ StopSampling \/ ResetEpoch
    \/ SamplerTop \/ SamplerStep
    \/ Convert

-----------------------------------------------------------------------------
(* Properties.                                                             *)

\* While sampling runs, a healthy mapping gives way to a healthy mapping of
\* another timeline only in a later epoch, however the readings, the rejected
\* ones and a reset_epoch() fall: what update_mapping()'s step detection and
\* its flag ever_healthy are for.  The one exception is a mapping fitted to
\* readings that a reset_epoch() under way is about to clear.
EpochGuardsTimeline ==
    [][(/\ sampler.last.good /\ ~sampler.last.late
        /\ sampler'.last.good /\ sampler'.last.tl # sampler.last.tl)
          => sampler'.last.ep > sampler.last.ep]_bridgeVars

\* The epoch loaded with a mapping is never older than the mapping: the loads
\* of get_mapping() and convert_*() are in that order.
EpochNotOlder == conv.pc \in {"healthy", "done"} => conv.m.epoch >= conv.m.ro.ep

-----------------------------------------------------------------------------
(***************************************************************************)
(* PtpTimer (src/statusbar/ptpclient/ptpclient_timer.hpp): a periodic      *)
(* timer thread that sleeps on PTP deadlines through PtpTimeBridge's       *)
(* sleep_until_ptp(), and realigns when the bridge fails it.  Its deadline *)
(* next_wake is a time of the timeline it was computed on: under a mapping *)
(* to a greater timeline it is past, under one to a smaller timeline it is *)
(* as far away as the step was long.                                       *)
(***************************************************************************)
VARIABLE timer      \* the timer thread, and what it carries between steps

timerVars == <<bridgeVars, timer>>

\* What the timer thread carries from step to step, and where it is.
TimerTypeOK ==
    timer \in [running : BOOLEAN,
               pc      : {"off", "top", "prepare", "ro", "epoch", "healthy", "done",
                          "now", "sleep", "callback"},
               call    : {"align", "before", "after"},   \* whose get_mapping()
               aligned : BOOLEAN,
               wake    : Timelines \cup {Mixed},         \* next_wake
               m       : Reading,
               before  : Reading]

TimerInit ==
    timer = [running |-> FALSE, pc |-> "off", call |-> "align", aligned |-> FALSE,
             wake |-> Mixed, m |-> NoReading, before |-> NoReading]

TimerAt(pc) == timer.pc = pc

StartTimer ==
    /\ "timer" \in env.kinds
    /\ ~timer.running /\ TimerAt("off")
    /\ timer' = [timer EXCEPT !.running = TRUE, !.pc = "top", !.aligned = FALSE,
                              !.wake = Mixed]
    /\ UNCHANGED bridgeVars

\* stop(): the join returns once the thread is "off".
StopTimer ==
    /\ Meets("restart")
    /\ timer.running
    /\ timer' = [timer EXCEPT !.running = FALSE]
    /\ env' = Spent
    /\ UNCHANGED <<phc, bridge, sampler, api, conv>>

Reads(t, call) == [t EXCEPT !.pc = "ro", !.call = call, !.m = NoReading]

Failed_mutExits(t) == [t EXCEPT !.pc = "off", !.aligned = FALSE]

\* sleep_until_ptp() failed: leave when stopped, else report and realign.
Failed(t) ==
    [t EXCEPT !.pc = IF t.running THEN "top" ELSE "off", !.aligned = FALSE]

LoopTop ==
    /\ TimerAt("top")
    /\ timer' = IF ~timer.running THEN [timer EXCEPT !.pc = "off"]
                ELSE IF timer.aligned THEN [timer EXCEPT !.pc = "prepare"]
                ELSE Reads(timer, "align")
    /\ UNCHANGED bridgeVars

\* prepare_sleep(), up to its get_mapping().
PrepareSleep ==
    /\ TimerAt("prepare")
    /\ timer' = IF bridge.running THEN Reads(timer, "before") ELSE Failed(timer)
    /\ UNCHANGED bridgeVars

GetMapping ==
    /\ timer.pc \in {"ro", "epoch", "healthy"}
    /\ LET n == LoadsNext(timer.pc, timer.m)
       IN  timer' = [timer EXCEPT !.pc = n.pc, !.m = n.m]
    /\ UNCHANGED bridgeVars

\* No sync: the callback is told, and the loop waits 10 ms.
Aligns(t) ==
    IF t.m.healthy /\ bridge.running THEN [t EXCEPT !.pc = "now"]
    ELSE [t EXCEPT !.pc = "top"]

\* The rest of prepare_sleep(), and the caller's flag.
Plans(t) ==
    IF t.m.healthy /\ t.running THEN [t EXCEPT !.pc = "sleep", !.before = t.m]
    ELSE Failed(t)

Finalizes_mutNoEpoch(t) ==
    IF t.m.healthy THEN [t EXCEPT !.pc = "callback"] ELSE Failed(t)

\* finalize_wake()
Finalizes(t) ==
    IF t.m.epoch = t.before.epoch /\ t.m.healthy
    THEN [t EXCEPT !.pc = "callback"] ELSE Failed(t)

UseMapping ==
    /\ TimerAt("done")
    /\ timer' = CASE timer.call = "align"  -> Aligns(timer)
                  [] timer.call = "before" -> Plans(timer)
                  [] timer.call = "after"  -> Finalizes(timer)
    /\ UNCHANGED bridgeVars

\* now_ns() rounded up to the next period.
Align ==
    /\ TimerAt("now")
    /\ timer' = [timer EXCEPT !.pc = "prepare", !.aligned = TRUE, !.wake = bridge.ro.tl]
    /\ UNCHANGED bridgeVars

Reachable == timer.before.ro.tl >= timer.wake \/ timer.before.ro.tl = Mixed

\* The coarse sleep and the spin ran to the deadline.
Wakes ==
    /\ TimerAt("sleep")
    /\ Reachable
    /\ timer' = Reads(timer, "after")
    /\ UNCHANGED bridgeVars

\* clock_nanosleep returned EINTR.
Interrupted ==
    /\ TimerAt("sleep")
    /\ Meets("signal")
    /\ env' = Spent
    /\ timer' = Failed(timer)
    /\ UNCHANGED <<phc, bridge, sampler, api, conv>>

\* The spin to the deadline saw the bridge or the timer stopped.
SpinStops ==
    /\ TimerAt("sleep")
    /\ Reachable
    /\ ~bridge.running \/ ~timer.running
    /\ timer' = Failed(timer)
    /\ UNCHANGED bridgeVars

\* advance_schedule(): a deadline behind the wake catches up with it.
Advance(wake, tl) == IF tl > wake THEN tl ELSE wake

\* process_wake(): the callback returns.
ProcessWake ==
    /\ TimerAt("callback")
    /\ timer' = [timer EXCEPT !.pc = "top", !.wake = Advance(@, timer.m.ro.tl)]
    /\ UNCHANGED bridgeVars

TimerStep ==
    \/ LoopTop \/ PrepareSleep \/ GetMapping \/ UseMapping \/ Align
    \/ Wakes \/ ProcessWake
TimerNext ==
    \/ BridgeNext /\ UNCHANGED timer
    \/ StartTimer \/ StopTimer \/ TimerStep \/ Interrupted \/ SpinStops

\* The timer thread is scheduled: SCHED_FIFO, or an ordinary thread.
TimerSpec ==
    BridgeInit /\ TimerInit /\ [][TimerNext]_timerVars /\ WF_timerVars(TimerStep)

-----------------------------------------------------------------------------
\* A wake the callback is told of was converted with a mapping no older than
\* the one its deadline was converted with, and no newer than the epoch the
\* sleep was planned in: finalize_wake()'s comparison of epochs, across the
\* separate loads of both get_mapping() calls.
WakeWithinEpoch ==
    TimerAt("callback") =>
        /\ timer.before.ro.ep <= timer.m.ro.ep
        /\ timer.m.ro.ep <= timer.before.epoch

\* stop() returns: a timer told to stop leaves its loop, whatever it waits for.
TimerStops == (~timer.running) ~> TimerAt("off")

\* "The timer must keep running and recover on its own whenever time sync
\* comes back": with a bridge that stays healthy the callback is told of
\* wakes again and again.
TimerRecovers ==
    <>[](timer.running /\ bridge.running /\ bridge.healthy) => []<>TimerAt("callback")

\* The epochs that readers of the bridge and the timer pair with a mapping are
\* those of the mapping, and no callback spans two of them.
EpochsAgree == BridgeTypeOK /\ TimerTypeOK /\ EpochNotOlder /\ WakeWithinEpoch

\* The timer neither hangs nor gives up: it obeys stop(), and it calls back
\* again whenever the bridge is healthy for good.
TimerLives == TimerStops /\ TimerRecovers
=============================================================================
