---------------------------- MODULE UdptunAudio ----------------------------
(***************************************************************************)
(* The audio path of the tunnel: the ingest of one site (AudioIngest,      *)
(* AudioReframer, the redundancy ring of UdptunIngestPath::send), the      *)
(* network, and the egress of the other (AudioEgress, drain_rx, fill,      *)
(* self_heal).                                                             *)
(*                                                                         *)
(* Both sites run on TAI.  Time is counted in sub-frames, Res to a frame,  *)
(* so that the ingest's slew and the rounding of a stamp to a frame are    *)
(* kept.  A frame's content is the index of the frame at the source.       *)
(***************************************************************************)
EXTENDS Integers, Sequences, FiniteSets

CONSTANTS Res,        \* sub-frames per frame
          Batch,      \* frames the source delivers per tick
          Fpp,        \* frames_per_packet
          Depth,      \* redun_depth_: packets the redundant copy lags behind
          Wcl,        \* wcl_ns, in frames
          Slots,      \* SlotCapacity
          Transit,    \* ticks a datagram may be in flight
          Steps,      \* how far off a clock reading the ingest anchors on may be
          Noise,      \* error of the live TAI the ingest is disciplined to
          MaxTicks, MaxFaults,
          AudioWin, PlayWin, Escalate,  \* the windows and the limit of self_heal
          Silence

ASSUME AudioAssumption ==
    /\ {Res, Batch, Fpp, Depth, Wcl, Slots, MaxTicks, AudioWin, PlayWin, Escalate}
           \subseteq Nat \ {0}
    /\ {Transit, MaxFaults} \subseteq Nat /\ Steps \subseteq Int /\ Noise \subseteq Int /\ Silence \notin Nat

VARIABLES ingest,  \* AudioIngest, its reframer and the redundancy ring
          air,     \* datagrams in flight
          egress,  \* AudioEgress
          heal,    \* what self_heal remembers
          now,     \* TAI at both sites
          played,  \* the frames of the last playout
          lost     \* packets an outage took a copy of, steps of the source clock,
                   \* ticks since the source is on the shared clock

audioVars == <<ingest, air, egress, heal, now, played, lost>>

NoSlot == [start |-> -1, frames |-> <<>>]
FreshEgress == [anchored |-> FALSE, epoch |-> 0, slots |-> [i \in 0 .. Slots - 1 |-> NoSlot],
                cursor |-> 0, valid |-> FALSE]

AudioInit ==
    /\ \E noise \in Noise :
           ingest = [next |-> 0, tai |-> 0, started |-> FALSE, fill |-> <<>>, start |-> 0, seq |-> 0,
                     ring |-> <<>>, noise |-> noise]
    /\ air = {} /\ now = 0
    /\ egress = FreshEgress
    /\ heal = [audio |-> AudioWin, play |-> 0, streak |-> 0, decoded |-> FALSE, real |-> FALSE]
    /\ played = [base |-> 0, frames |-> <<>>, held |-> FALSE, from |-> 0]
    /\ lost = [outages |-> 0, once |-> {}, steps |-> 0, right |-> 0]

----------------------------------------------------------------------------
(* Ingest. *)

Abs(x) == IF x < 0 THEN -x ELSE x
Sign(x) == IF x < 0 THEN -1 ELSE 1
DivZero(a, b) == Sign(a) * (Abs(a) \div b)   \* C++ division
RoundDiv(a, b) == DivZero(a + Sign(a) * (b \div 2), b)

\* the live TAI of the translator, wandering about the true time
LiveTai == now + (IF (now \div (2 * Batch * Res)) % 2 = 1 THEN ingest.noise ELSE 0)

\* discipline(): creep one sub-frame towards the live TAI
Disciplined(tai, target) == IF tai = target THEN tai ELSE tai + Sign(target - tai)

\* AudioReframer::push of n frames whose first has the stamp tai: the buffered
\* frames and the packets completed on the way
Buffered(i, n) == i.fill \o [k \in 1 .. n |-> i.next + k - 1]
StampOf(i, k)  == IF k <= Len(i.fill) THEN i.start ELSE i.tai + (k - 1 - Len(i.fill)) * Res
Complete(i, n) == (Len(i.fill) + n) \div Fpp

PacketAt(i, n, p) ==
    [seq |-> i.seq + p, tai |-> StampOf(i, p * Fpp + 1), frames |-> SubSeq(Buffered(i, n), p * Fpp + 1, (p + 1) * Fpp)]

\* send(): every packet goes out and, Depth packets later, once more
Completed(i, n) == [p \in 1 .. Complete(i, n) |-> PacketAt(i, n, p - 1)]

ReplayIndex(k) == k - Depth

Sent(i, n) ==
    LET all == i.ring \o Completed(i, n)
    IN  UNION {{[pkt |-> all[k], copy |-> "primary", age |-> 0]}
               \cup (IF ReplayIndex(k) \in 1 .. Len(all)
                     THEN {[pkt |-> all[ReplayIndex(k)], copy |-> "redundant", age |-> 0]} ELSE {})
               : k \in Len(i.ring) + 1 .. Len(all)}

LastOf(s, n) == IF Len(s) <= n THEN s ELSE SubSeq(s, Len(s) - n + 1, Len(s))

\* ingest_audio: anchor on the first batch, discipline, submit
Anchored(i) == IF i.started THEN i ELSE [i EXCEPT !.started = TRUE, !.tai = now, !.fill = <<>>]

Submitted(i, n) ==
    LET done == Complete(i, n) * Fpp
        kept == Len(i.fill) + n - done
    IN  [i EXCEPT !.next = @ + n, !.tai = @ + n * Res,
                  !.fill = SubSeq(Buffered(i, n), done + 1, Len(i.fill) + n),
                  !.start = IF kept > 0 THEN StampOf(i, done + 1) ELSE @,
                  !.seq = @ + Complete(i, n),
                  !.ring = LastOf(i.ring \o Completed(i, n), Depth)]

\* on_socket_installed -> reanchor: the next batch anchors again, on a clock
\* reading that may be off from the last one
Reanchor(step) ==
    /\ lost.outages + lost.steps < MaxFaults
    /\ ingest' = [ingest EXCEPT !.tai = now + step, !.fill = <<>>, !.started = TRUE]
    /\ lost' = [lost EXCEPT !.steps = @ + 1, !.right = 0]
    /\ UNCHANGED <<air, egress, heal, now, played>>

----------------------------------------------------------------------------
(* Egress. *)

FrameForTai(e, tai) == RoundDiv(tai - e.epoch, Res)

FrameStart(f) == RoundDiv(f, Fpp) * Fpp
SlotOf(f) == (f \div Fpp) % Slots

\* submit(): the first packet anchors the epoch; a packet before it is refused
Stored(e, p) ==
    LET a == IF e.anchored THEN e ELSE [e EXCEPT !.anchored = TRUE, !.epoch = p.tai]
        f == FrameStart(FrameForTai(a, p.tai))
    IN  IF f < 0 THEN a ELSE [a EXCEPT !.slots[SlotOf(f)] = [start |-> f, frames |-> p.frames]]

\* drain_rx, one datagram
Receive(d) ==
    /\ air' = air \ {d}
    /\ egress' = Stored(egress, d.pkt)
    /\ heal' = [heal EXCEPT !.decoded = TRUE]
    /\ UNCHANGED <<ingest, now, played, lost>>

\* an outage takes everything in flight, but never both copies of a packet
Outage ==
    LET seqs == {d.pkt.seq : d \in air}
    IN  /\ air # {} /\ lost.outages + lost.steps < MaxFaults
        /\ seqs \cap lost.once = {}
        /\ air' = {}
        /\ lost' = [lost EXCEPT !.outages = @ + 1, !.once = @ \cup seqs]
        /\ UNCHANGED <<ingest, egress, heal, now, played>>

FrameAt(e, f) ==
    LET s == e.slots[SlotOf(f)]
        off == f - s.start
    IN  IF f >= 0 /\ off \in 0 .. Len(s.frames) - 1 THEN s.frames[off + 1] ELSE Silence

Target(e, t) == FrameForTai(e, t - Wcl * Res)
Resync == (Slots * Fpp) \div 2

\* the cursor goes on from the last read while it is locked and near the target
Base_mutTarget(e, t) == Target(e, t)

Base(e, t) == IF e.valid /\ Abs(e.cursor - Target(e, t)) <= Resync THEN e.cursor ELSE Target(e, t)

\* playout() of n frames at TAI t
Playout(e, t, n) ==
    IF ~e.anchored THEN [base |-> 0, frames |-> [k \in 1 .. n |-> Silence], held |-> FALSE, from |-> t]
    ELSE [base |-> Base(e, t), frames |-> [k \in 1 .. n |-> FrameAt(e, Base(e, t) + k - 1)],
          held |-> e.valid, from |-> t]

IsReal(p) == \E k \in DOMAIN p.frames : p.frames[k] # Silence

Advanced(e, p) ==
    IF ~e.anchored THEN e
    ELSE IF IsReal(p) THEN [e EXCEPT !.cursor = p.base + Len(p.frames), !.valid = TRUE]
    ELSE [e EXCEPT !.valid = FALSE]

\* reset() drops the packets, the epoch and the cursor's lock

Reset(e) == [FreshEgress EXCEPT !.cursor = e.cursor]

\* self_heal(): audio arrives, nothing is played for a while
Older(x, cap) == IF x > cap THEN x ELSE x + 1

HealNeeded(h) == ~h.real /\ h.audio < AudioWin /\ h.play > PlayWin

SelfHeal(h) ==
    LET o == [h EXCEPT !.audio = IF h.decoded THEN 0 ELSE Older(@, AudioWin),
                       !.play = IF h.real THEN 0 ELSE Older(@, PlayWin),
                       !.streak = IF h.real THEN 0 ELSE @, !.decoded = FALSE]
        heals == HealNeeded(o)
        escalates == heals /\ h.streak + 1 >= Escalate
    IN  [after |-> [o EXCEPT !.play = IF heals THEN 0 ELSE @,
                             !.streak = IF escalates THEN 0 ELSE IF heals THEN @ + 1 ELSE @],
         resets |-> heals /\ ~escalates, escalates |-> escalates]

\* a wake of the media thread: the service with its self-heal, the drain (the
\* Receive steps before), one playout of Batch frames give or take one, and
\* the ingest of the source's next batch
TickOf(n) ==
    LET s == SelfHeal(heal)
        e == IF s.resets \/ s.escalates THEN Reset(egress) ELSE egress
        p == Playout(e, now, n)
        i == [Anchored(ingest) EXCEPT !.tai = Disciplined(@, LiveTai)]
    IN  /\ now < MaxTicks * Batch * Res
        /\ \A d \in air : d.age < Transit
        /\ played' = p
        /\ egress' = Advanced(e, p)
        /\ heal' = [s.after EXCEPT !.real = IsReal(p)]
        /\ ingest' = Submitted(i, Batch)
        /\ air' = {[d EXCEPT !.age = @ + 1] : d \in air} \cup Sent(i, Batch)
        /\ now' = now + Batch * Res
        /\ lost' = [lost EXCEPT !.right = IF Abs(i.tai - now) <= Res THEN @ + 1 ELSE 0]

\* the talker's pacing (n frames per wake) never strays more than one frame
\* from the nominal position
Tick ==
    \E n \in Batch - 1 .. Batch + 1 :
        /\ egress.valid => Abs(egress.cursor + n - Target(egress, now + Batch * Res)) <= 1
        /\ ~egress.valid => n = Batch
        /\ TickOf(n)

AudioNext ==
    \/ Tick
    \/ \E d \in air : Receive(d)
    \/ Outage
    \/ \E step \in Steps : Reanchor(step * Res)

AudioSpec == AudioInit /\ [][AudioNext]_audioVars

----------------------------------------------------------------------------
(* Properties. *)

\* Every frame is played at its time: the frame the egress plays at TAI t was
\* delivered by the source at t less the worst-case latency, to within the frame
\* the pacing may be off by and the frame a stamp is rounded by.
PlayedOnTime ==
    lost.steps = 0 => \A k \in DOMAIN played.frames :
        played.frames[k] # Silence => Abs(played.frames[k] - (played.from \div Res + k - 1 - Wcl)) <= 2

\* The contiguous read cursor: whatever number of frames a wake plays, the next
\* one goes on where it stopped, without a frame skipped or played twice.
NoTear ==
    [][(lost.steps = 0 /\ played'.held /\ IsReal(played)) =>
            played'.base = played.base + Len(played.frames)]_<<played, now>>

\* The temporal shift of the redundant copies: an outage that takes everything in
\* flight, primaries and redundant copies, is not heard. An egress that plays never falls silent.
OneCopyIsEnough ==
    (lost.steps = 0 /\ played.held) => \A k \in DOMAIN played.frames : played.frames[k] # Silence

\* A stale playout timeline heals: once the source is back on the shared clock
\* and its packets arrive, self_heal has the egress playing again after its window,
\* the time to the next packet and the latency, whatever epoch it was anchored to, with
\* no silence longer than a packet (the packets of a source that anchored again may
\* fall half way between two slots and share one).
StaleTimelineHeals ==
    lost.right > PlayWin + 2 + (Wcl \div Batch) + Fpp => heal.real \/ heal.play <= Fpp

\* What is played is the right frame at the right time: through an outage that
\* one copy survives, and again after a stale timeline.
AudioHeard == PlayedOnTime /\ OneCopyIsEnough /\ StaleTimelineHeals
=============================================================================
