---------------------------- MODULE UdptunSession ----------------------------
(***************************************************************************)
(* The measuring session of the tunnel (udptun_session.hpp): packets sent  *)
(* on a timer, each one a second time Shift later, a reflector that sends  *)
(* them back, and the coverage tracker (udptun_redundant_rx.cpp) that      *)
(* tallies, slot by slot of presentation time, what came back: the         *)
(* primary, only its redundant copy, or neither.                           *)
(*                                                                         *)
(* Polling, one thread sends, receives and reports.  In real time the      *)
(* reporter is a thread of its own and walks the tracker while the timer's *)
(* thread stores into it.  The wire clock is the monotonic clock: every    *)
(* time is in units of it.                                                 *)
(***************************************************************************)
EXTENDS Integers, Sequences, FiniteSets

CONSTANTS Interval,      \* tx_interval_us, the width of a slot
          Latency,       \* worst_case_latency_ns
          Shift,         \* temporal_shift_ns
          Floor,         \* floor_ns of rtt_grace_ns
          Ahead,         \* max_ahead_ns of presentation_time_plausible
          TxCap,         \* RedundantTxBuffer::capacity
          MapCap,        \* RedundantRxTracker::capacity
          Trip,          \* the longest way to the reflector and back
          Wake,          \* how late the loop wakes for a deadline
          Skews,         \* how far presentation times of a remote are ahead
          Senders,       \* the remote senders
          MaxSources,    \* max_sources
          SeqWrap,        \* the sequence numbers wrap here, 2^32
          SinkCap,       \* csv_ring_capacity
          MaxRecords,    \* bound on the records of the sink and the packets of a source
          LastTime,      \* bound on the time
          Mishaps        \* bound on losses, duplicates and losses of sync

ASSUME SessionAssumption ==
    /\ Interval \in Nat \ {0} /\ MapCap \in Nat \ {0} /\ TxCap \in Nat \ {0}
    /\ {Latency, Shift, Floor, Ahead, Trip, Wake, LastTime, Mishaps} \subseteq Nat
    /\ Skews \subseteq Int
    /\ {MaxSources, SeqWrap, SinkCap} \subseteq Nat \ {0} /\ MaxRecords \in Nat

VARIABLES now,
          session,   \* the loop: its phase, its threads, the sync it sees
          tx,        \* what was sent: sequence_, the timer, redundant_buffer_
          air,       \* the datagrams on their way
          red,       \* self_redundancy_
          rx,        \* last_rx_pt_ and the largest RTT
          report,    \* the walk over the tracker of a report
          past,      \* history: what came for each slot in time, and more
          sources,   \* tracker_: the slots of the remote senders
          heardAt,   \* history: when each remote sender was last heard
          sink       \* record_sink_: the ring, its writer thread and the counts

talliesVars == <<session, tx, air, red, rx, report, past>>
sourcesVars == <<sources, heardAt>>
sessionVars == <<now, talliesVars, sourcesVars, sink>>

Copies == {"primary", "redundant"}

Slot(pt) == pt \div Interval

Larger(a, b) == IF a > b THEN a ELSE b

----------------------------------------------------------------------------
(* RedundantRxTracker.  The coverage of a slot is the set of its copies,   *)
(* and a slot without coverage is not in the map; slots that are a         *)
(* multiple of the capacity apart share a place.                           *)

Coverage(m, s) == IF s \in DOMAIN m THEN m[s] ELSE {}

Sharing(m, s) == {t \in DOMAIN m : t # s /\ t % MapCap = s % MapCap}

Placing(m, s, c) == [t \in (DOMAIN m \ Sharing(m, s)) \cup {s} |-> IF t = s THEN c ELSE m[t]]

Clear(m, s) == [t \in DOMAIN m \ {s} |-> m[t]]

NewTracker == [map |-> <<>>, ready |-> FALSE, cursor |-> 0,
               primary |-> 0, recovered |-> 0, lost |-> 0]

\* initialize_cursor_if_needed
Placed(r, s) == IF r.ready THEN r ELSE [r EXCEPT !.ready = TRUE, !.cursor = s]

\* on_primary, on_redundant: a copy that is there already changes nothing
Covered(r, s, c) ==
    LET cov == Coverage(r.map, s)
    IN  IF c \in cov THEN r
        ELSE [r EXCEPT !.map = Placing(@, s, cov \cup {c}),
                       !.primary = IF c = "primary" THEN @ + 1 ELSE @]

Arrived(r, s, c) == Covered(Placed(r, s), s, c)

\* what on_redundant returns: the first copy of any kind
Rescues(r, s) == Coverage(r.map, s) = {}

\* retire_slot for a slot whose coverage was found to be cov, and the step of
\* the cursor in scan and flush_all
Retired(r, cov) ==
    [r EXCEPT !.lost = IF cov = {} THEN @ + 1 ELSE @,
              !.recovered = IF cov = {"redundant"} THEN @ + 1 ELSE @,
              !.map = IF cov = {} THEN @ ELSE Clear(@, r.cursor),
              !.cursor = @ + 1]

----------------------------------------------------------------------------
(* The constructor. *)

\* The deadline of a session that only receives (tx_interval_us = 0).
Never == LastTime + 1

NoReport == [pc |-> "idle", grace |-> 0, upto |-> 0, found |-> {}]

NoSource == [used |-> FALSE, sender |-> 0, seen |-> 0, last |-> 0, got |-> 0, ooo |-> 0, dup |-> 0]

SessionInit ==
    /\ now = 0
    /\ \E rt, synced \in BOOLEAN :
           session = [rt |-> rt, phase |-> IF rt THEN "warmup" ELSE "running", synced |-> synced,
                      until |-> 0, left |-> Mishaps]
    /\ \E due \in {Interval, Never} : tx = [due |-> due, sent |-> <<>>]
    /\ air = {}
    /\ red = NewTracker
    /\ rx = [last |-> 0, longest |-> 0]
    /\ report = NoReport
    /\ sources = [i \in 1 .. MaxSources |-> NoSource]
    /\ heardAt = [u \in Senders |-> -1]
    /\ sink = [ring |-> 0, appended |-> 0, dropped |-> 0, written |-> 0, failed |-> 0,
               err |-> FALSE, stop |-> FALSE, pc |-> "drain"]
    /\ past = [first |-> 0, heard |-> {}, behind |-> 0, overdue |-> FALSE,
               shared |-> FALSE, gap |-> FALSE]

\* The thread that sends and receives is not in a report.
LoopFree == session.rt \/ report.pc = "idle"

----------------------------------------------------------------------------
(* Sending. *)

Mishap == session.left > 0 /\ session' = [session EXCEPT !.left = @ - 1]

\* MonotonicRing::record
Recorded(ring, e) == IF Len(ring) < TxCap THEN Append(ring, e) ELSE Append(Tail(ring), e)

\* MonotonicRing::entry_at_or_before: the newest entry of that time or before
AtOrBefore(ring, t) ==
    LET old == {i \in DOMAIN ring : ring[i].at <= t}
    IN  {ring[i] : i \in {j \in old : \A k \in old : k <= j}}

Datagram(copy, e) == [copy |-> copy, pt |-> e.pt, sent |-> now]

LastPt == tx.sent[Len(tx.sent)].pt

\* emit_packet: the primary, then the copy of the primary of Shift ago; a
\* datagram may fail to be sent or be lost on its way
Emit(due) ==
    LET e == [at |-> now, pt |-> now + Latency]
        ring == Recorded(tx.sent, e)
        both == {Datagram("primary", e)} \cup {Datagram("redundant", old) : old \in AtOrBefore(ring, now - Shift)}
    IN  /\ tx' = [due |-> due, sent |-> ring]
        /\ \/ air' = air \cup both /\ UNCHANGED session
           \/ Mishap /\ \E kept \in SUBSET both : kept # both /\ air' = air \cup kept

\* run_polling: consume_due catches up with the clock, send_packet sends only
\* when synced
SendPolling ==
    /\ session.phase = "running" /\ ~session.rt /\ LoopFree
    /\ now >= tx.due
    /\ LET due == tx.due + Interval * ((now - tx.due) \div Interval + 1)
       IN  IF session.synced THEN Emit(due)
           ELSE tx' = [tx EXCEPT !.due = due] /\ UNCHANGED <<air, session>>
    /\ UNCHANGED <<now, red, rx, report, past>>

\* realtime_tick: one packet in a tick, and the cursor one interval on
SendRealtime ==
    /\ session.phase = "running" /\ session.rt /\ session.synced
    /\ now >= tx.due
    /\ Emit(tx.due + Interval)
    /\ UNCHANGED <<now, red, rx, report, past>>

----------------------------------------------------------------------------
(* Receiving. *)

\* drain_rx runs in the loop and, until the window is over, after the stop
Listening ==
    /\ LoopFree
    /\ session.phase \in {"warmup", "running"} \/ (session.phase = "draining" /\ now < session.until)

\* process_one_rx_datagram looks at a datagram only when synced, and the
\* warm-up passes it on as not synced
Heeded(pt) == session.synced /\ session.phase # "warmup" /\ pt >= 0 /\ pt <= now + Ahead

\* The slot can still be tallied right: its coverage was not read yet.
Open(r, s) == s >= r.cursor /\ ~(report.pc = "settle" /\ s = r.cursor)

\* The history of the arrival of copy c for slot s.
Noted(s, c) ==
    LET r == Placed(red, s)
        new == c \notin Coverage(r.map, s)
    IN  [past EXCEPT !.first = IF red.ready THEN @ ELSE s,
                     !.heard = IF Open(r, s) THEN @ \cup {<<s, c>>} ELSE @,
                     !.behind = IF ~Open(r, s) /\ new /\ c = "primary" THEN @ + 1 ELSE @,
                     !.overdue = @ \/ (~Open(r, s) /\ s >= past.first),
                     !.shared = @ \/ (new /\ \E t \in Sharing(r.map, s) : Open(r, t))]

\* route_self_pair_packet: a primary feeds the RTT, a redundant copy only when
\* it rescues
Feeds(p) == p.copy = "primary" \/ Rescues(red, Slot(p.pt))

Own(p) ==
    IF Heeded(p.pt)
    THEN /\ rx' = [last |-> Larger(rx.last, p.pt),
                   longest |-> IF Feeds(p) THEN Larger(rx.longest, now - p.pt + Latency) ELSE rx.longest]
         /\ red' = Arrived(red, Slot(p.pt), p.copy)
         /\ past' = Noted(Slot(p.pt), p.copy)
    ELSE UNCHANGED <<rx, red, past>>

\* one of our own datagrams is back, perhaps to come again
Receive(p) ==
    /\ Listening
    /\ \/ air' = air \ {p} /\ UNCHANGED session
       \/ Mishap /\ UNCHANGED air
    /\ Own(p)
    /\ UNCHANGED <<now, tx, report>>

\* A redundant copy of another sender is dropped, but it moves last_rx_pt_.
ReceiveRedundant(pt) ==
    /\ Listening /\ Heeded(pt)
    /\ rx' = [rx EXCEPT !.last = Larger(@, pt)]
    /\ UNCHANGED <<now, session, tx, air, red, report, past>>

----------------------------------------------------------------------------
(* Reporting. *)

Grace_mutNoFloor == 2 * rx.longest

\* rtt_grace_ns of the largest RTT
Grace == IF 2 * rx.longest > Floor THEN 2 * rx.longest ELSE Floor

Reference == IF rx.last # 0 \/ tx.sent = <<>> THEN rx.last ELSE LastPt

\* print_live_report reads the grace, then the reference, and calls scan, which
\* does nothing before the first arrival: it retires the slots below the one of
\* the cutoff
ReadGrace ==
    /\ session.phase = "running" /\ report.pc = "idle"
    /\ report' = [report EXCEPT !.pc = "graced", !.grace = Grace]
    /\ UNCHANGED <<now, session, tx, air, red, rx, past>>

StartScan ==
    /\ report.pc = "graced"
    /\ LET upto == Slot(Reference - report.grace)
       IN  report' = IF red.ready /\ red.cursor < upto THEN [NoReport EXCEPT !.pc = "scan", !.upto = upto]
                     ELSE NoReport
    /\ UNCHANGED <<now, session, tx, air, red, rx, past>>

\* print_final_summary calls flush_all: every slot up to that of last_tx_pt_
StartFlush ==
    /\ session.phase = "summary" /\ report.pc = "idle"
    /\ IF red.ready /\ tx.sent # <<>> /\ red.cursor <= Slot(LastPt)
       THEN report' = [report EXCEPT !.pc = "scan", !.upto = Slot(LastPt) + 1] /\ UNCHANGED session
       ELSE session' = [session EXCEPT !.phase = "done"] /\ UNCHANGED report
    /\ UNCHANGED <<now, tx, air, red, rx, past>>

Walk(r) == IF r.cursor < report.upto THEN [report EXCEPT !.pc = "scan", !.found = {}] ELSE NoReport

\* one turn of the loop in scan or flush_all, in one thread ...
RetireSlot ==
    /\ report.pc = "scan" /\ (~session.rt \/ session.phase = "summary")
    /\ red' = Retired(red, Coverage(red.map, red.cursor))
    /\ report' = Walk(red')
    /\ UNCHANGED <<now, session, tx, air, rx, past>>

\* ... and in the thread of the reporter, where the slot may change between
\* map_.load and map_.clear
LoadSlot ==
    /\ report.pc = "scan" /\ session.rt /\ session.phase # "summary"
    /\ report' = [report EXCEPT !.pc = "settle", !.found = Coverage(red.map, red.cursor)]
    /\ UNCHANGED <<now, session, tx, air, red, rx, past>>

SettleSlot ==
    /\ report.pc = "settle"
    /\ red' = Retired(red, report.found)
    /\ report' = Walk(red')
    /\ UNCHANGED <<now, session, tx, air, rx, past>>

----------------------------------------------------------------------------
(* The life of the session. *)

LoseSync ==
    /\ session.phase \in {"warmup", "running"} /\ session.synced
    /\ session.left > 0
    /\ session' = [session EXCEPT !.synced = FALSE, !.left = @ - 1]
    /\ past' = [past EXCEPT !.gap = @ \/ session.phase # "warmup"]
    /\ UNCHANGED <<now, tx, air, red, rx, report>>

GainSync ==
    /\ session.phase \in {"warmup", "running"} /\ ~session.synced
    /\ session' = [session EXCEPT !.synced = TRUE]
    /\ UNCHANGED <<now, tx, air, red, rx, report, past>>

\* run_realtime after warmup_gptp_slave_bridge: the first deadline is the next
\* multiple of the interval
WarmedUp ==
    /\ session.phase = "warmup" /\ session.synced
    /\ session' = [session EXCEPT !.phase = "running"]
    /\ tx' = [tx EXCEPT !.due = IF @ = Never THEN Never ELSE (now \div Interval + 1) * Interval]
    /\ UNCHANGED <<now, air, red, rx, report, past>>

\* the loop has ended and its reporter was joined: drain_after_stop
StopSession ==
    /\ session.phase = "running" /\ report.pc = "idle"
    /\ session' = [session EXCEPT !.phase = "draining", !.until = now + Grace]
    /\ UNCHANGED <<now, tx, air, red, rx, report, past>>

\* the window is over, or a second signal ended it
EndDrain ==
    /\ session.phase = "draining"
    /\ session' = [session EXCEPT !.phase = "summary"]
    /\ UNCHANGED <<now, tx, air, red, rx, report, past>>

\* A unit of time.  No datagram is longer on its way than Trip, and a loop that
\* kept its sync is never later than Wake for its deadline.
Elapse ==
    /\ now < LastTime /\ session.phase \notin {"summary", "done"}
    /\ \A p \in air : now < p.sent + Trip
    /\ session.phase = "running" /\ ~past.gap => now < tx.due + Wake
    /\ now' = now + 1
    /\ UNCHANGED <<session, tx, air, red, rx, report, past>>

TalliesStep ==
    \/ SendPolling \/ SendRealtime
    \/ \E p \in air : Receive(p)
    \/ \E d \in Skews : ReceiveRedundant(now + d)
    \/ ReadGrace \/ StartScan \/ StartFlush \/ RetireSlot \/ LoadSlot \/ SettleSlot
    \/ LoseSync \/ GainSync \/ WarmedUp \/ StopSession \/ EndDrain \/ Elapse

----------------------------------------------------------------------------
(* PerSourceTracker: one slot for each remote sender, the one heard the    *)
(* longest ago given up for a new one.                                     *)

\* init_state, and the count of the packet that brought it
NewSource(u, q) == [used |-> TRUE, sender |-> u, seen |-> now, last |-> q, got |-> 1, ooo |-> 0, dup |-> 0]

\* observe for a sender that has a slot: the difference of the sequence
\* numbers as a signed one
Updated(e, q) ==
    LET d == (q - e.last) % SeqWrap
    IN  [e EXCEPT !.last = IF 0 < d /\ 2 * d < SeqWrap THEN q ELSE @,
                  !.dup = IF d = 0 THEN @ + 1 ELSE @,
                  !.ooo = IF 2 * d >= SeqWrap THEN @ + 1 ELSE @,
                  !.got = @ + 1, !.seen = now]

FreeSlots == {i \in DOMAIN sources : ~sources[i].used}
Oldest == {i \in DOMAIN sources : \A j \in DOMAIN sources : sources[i].seen <= sources[j].seen}

\* find_existing, else find_free_or_lru: the first one that fits
SlotFor(u) ==
    LET has == {i \in DOMAIN sources : sources[i].used /\ sources[i].sender = u}
        fits == IF has # {} THEN has ELSE IF FreeSlots # {} THEN FreeSlots ELSE Oldest
    IN  CHOOSE i \in fits : \A j \in fits : i <= j

\* a primary of another sender
ReceiveRemote(u, q, pt) ==
    /\ Listening /\ Heeded(pt) /\ sources[SlotFor(u)].got < MaxRecords
    /\ rx' = [rx EXCEPT !.last = Larger(@, pt)]
    /\ sources' = [sources EXCEPT ![SlotFor(u)] =
                       IF @.used /\ @.sender = u THEN Updated(@, q) ELSE NewSource(u, q)]
    /\ heardAt' = [heardAt EXCEPT ![u] = now]
    /\ UNCHANGED <<now, session, tx, air, red, report, past>>

SourcesStep == \E u \in Senders, q \in 0 .. (SeqWrap - 1), d \in Skews : ReceiveRemote(u, q, now + d)

----------------------------------------------------------------------------
(* RecordSink: the receiving thread appends, the writer thread drains.     *)

\* CsvSink::append
AppendRecord ==
    /\ ~sink.stop /\ sink.appended < MaxRecords
    /\ sink' = IF sink.ring < SinkCap THEN [sink EXCEPT !.ring = @ + 1, !.appended = @ + 1]
               ELSE [sink EXCEPT !.dropped = @ + 1, !.appended = @ + 1]

\* drain_ring: after the first error the records are only taken out
WriteRecord(fails) ==
    /\ sink.pc = "drain" /\ sink.ring > 0
    /\ sink' = [sink EXCEPT !.ring = @ - 1, !.err = @ \/ fails,
                            !.written = IF sink.err \/ fails THEN @ ELSE @ + 1,
                            !.failed = IF sink.err \/ fails THEN @ + 1 ELSE @]

\* writer_pass with an empty ring: leave when the stop was seen before the ring
\* was looked at again, else flush now and then and go on
WriterPass ==
    \/ /\ sink.pc = "drain" /\ sink.ring = 0
       /\ sink' = [sink EXCEPT !.pc = IF sink.stop THEN "stopping" ELSE "flush"]
    \/ /\ sink.pc = "stopping"
       /\ sink' = [sink EXCEPT !.pc = IF sink.ring = 0 THEN "last" ELSE "flush"]
    \/ \E fails \in BOOLEAN :
           /\ sink.pc \in {"flush", "last"}
           /\ sink' = [sink EXCEPT !.pc = IF @ = "last" THEN "gone" ELSE "drain", !.err = @ \/ fails]

\* flush(): the receiving thread is over, stop the writer and join it
StopSink == ~sink.stop /\ sink' = [sink EXCEPT !.stop = TRUE]

SinkStep == AppendRecord \/ StopSink \/ WriterPass \/ \E fails \in BOOLEAN : WriteRecord(fails)

----------------------------------------------------------------------------

SessionNext ==
    \/ TalliesStep /\ UNCHANGED <<sourcesVars, sink>>
    \/ SourcesStep /\ UNCHANGED sink
    \/ SinkStep /\ UNCHANGED <<now, talliesVars, sourcesVars>>

SessionSpec == SessionInit /\ [][SessionNext]_sessionVars

----------------------------------------------------------------------------
(* Properties. *)

\* the copies that came for slot s before its coverage was read
HeardOf(s) == {c \in Copies : <<s, c>> \in past.heard}

ClosedSlots == past.first .. (red.cursor - 1)

\* "primary received (normal), only redundant arrived (recovered ...), or
\* neither (true loss)" (docs/UDPTUN.md:156): every slot the cursor has passed
\* is in exactly one tally, the one that what had come for it calls for, and a
\* primary is counted again only when it came behind the cursor.  Unless an
\* open slot was overwritten by one a multiple of the capacity away, that holds
\* through every order of arrivals and the reporter's walk.
SlotsTallied ==
    red.ready /\ ~past.shared =>
        /\ red.lost = Cardinality({s \in ClosedSlots : HeardOf(s) = {}})
        /\ red.recovered = Cardinality({s \in ClosedSlots : HeardOf(s) = {"redundant"}})
        /\ red.primary = Cardinality({h \in past.heard : h[2] = "primary"}) + past.behind

\* "so packets still in flight at stop can arrive before the final summary
\* classifies them as missing" (udptun_session.hpp:428-430), and before a scan
\* does: while the session kept its sync and the grace covers the way there and
\* back, the shift, an interval, the loop's delay and the remote's clock, no
\* copy comes for a slot that was tallied without it.
GraceCovers ==
    (\A d \in Skews \cup {Latency} : Floor >= Trip + Shift + Interval + Wake + d - Latency) /\ ~past.gap
        => ~past.overdue

\* After the final summary no slot from the first arrival to the last packet
\* sent is without its tally.
AllTallied ==
    session.phase = "done" /\ red.ready => red.cursor > Slot(LastPt)

\* No remote sender has two slots, what a slot has counted adds up, and the
\* senders that have one are those heard last: a new one never costs a sender
\* that was heard after another that keeps its slot.
SourcesKept ==
    /\ \A i, j \in DOMAIN sources :
           sources[i].used /\ sources[j].used /\ sources[i].sender = sources[j].sender => i = j
    /\ \A i \in DOMAIN sources :
           sources[i].used => /\ sources[i].ooo + sources[i].dup < sources[i].got
                              /\ sources[i].seen = heardAt[sources[i].sender]
    /\ \A u \in Senders, i \in DOMAIN sources :
           (\A j \in DOMAIN sources : ~(sources[j].used /\ sources[j].sender = u)) /\ heardAt[u] >= 0
               => sources[i].used /\ heardAt[u] <= sources[i].seen

\* "Exits once the producer has signalled stop and the ring is empty"
\* (udptun_record_sink.hpp:174-175): every record is written, counted as dropped,
\* or consumed after an error that flush() reports, and none is left behind.
RecordsAccounted ==
    /\ sink.appended = sink.ring + sink.dropped + sink.written + sink.failed
    /\ sink.failed > 0 => sink.err
    /\ sink.pc = "gone" => sink.stop /\ sink.ring = 0

\* What the session reports is what happened to its packets, to those of the
\* other senders and to its records.
SessionAgrees ==
    /\ SlotsTallied /\ GraceCovers /\ AllTallied
    /\ SourcesKept /\ RecordsAccounted
=============================================================================
