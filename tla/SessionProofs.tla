---------------------------- MODULE SessionProofs ----------------------------
(***************************************************************************)
(* What the measuring session reports is what happened to its packets      *)
(* (SessionAgrees), for every interval, latency, shift, floor of the grace *)
(* and capacity, every number of senders and records.                      *)
(*                                                                         *)
(* The inductive invariant has five parts that are proved one after the    *)
(* other: the times of what is sent and on its way, the tallies of the     *)
(* tracker, how far the cursor may have come, the slots of the remote      *)
(* senders and the records of the sink.                                    *)
(***************************************************************************)
EXTENDS UdptunSession, TLAPS

\* A leaf goes to the SMT solver, again if its translation ran out of time.
USE SMTT(60), SMTT(50), SMTT(40)

-----------------------------------------------------------------------------
(***************************************************************************)
(* The facts about finite sets and natural numbers that the proofs need.   *)
(* They are a hypothesis of the lemmas below and are proved at the end of  *)
(* the module, from the library of theorems, before the theorems.          *)
(***************************************************************************)
SetFacts ==
    /\ IsFiniteSet({}) /\ Cardinality({}) = 0
    /\ \A S : IsFiniteSet(S) => Cardinality(S) \in Nat
    /\ \A S : IsFiniteSet(S) =>
          \A T \in SUBSET S : IsFiniteSet(T) /\ Cardinality(T) <= Cardinality(S)
    /\ \A S, x : IsFiniteSet(S) =>
          /\ IsFiniteSet(S \cup {x})
          /\ Cardinality(S \cup {x}) = IF x \in S THEN Cardinality(S)
                                                 ELSE Cardinality(S) + 1
    /\ \A x : IsFiniteSet({x}) /\ Cardinality({x}) = 1
    /\ \A a, b \in Int : IsFiniteSet(a .. b)
    /\ \A S \in SUBSET Nat : S # {} => \E n \in S : \A m \in S : n <= m

LEMMA SizeFact ==
    ASSUME SetFacts, NEW S, IsFiniteSet(S)
    PROVE  Cardinality(S) \in Nat
BY ZenonT(30) DEF SetFacts

LEMMA SubsetFact ==
    ASSUME SetFacts, NEW S, IsFiniteSet(S), NEW T \in SUBSET S
    PROVE  IsFiniteSet(T) /\ Cardinality(T) <= Cardinality(S)
BY ZenonT(30) DEF SetFacts

LEMMA AddFact ==
    ASSUME SetFacts, NEW S, NEW x, IsFiniteSet(S)
    PROVE  /\ IsFiniteSet(S \cup {x})
           /\ Cardinality(S \cup {x}) = IF x \in S THEN Cardinality(S)
                                                  ELSE Cardinality(S) + 1
BY ZenonT(30) DEF SetFacts

LEMMA EmptyFact ==
    ASSUME SetFacts PROVE IsFiniteSet({}) /\ Cardinality({}) = 0
BY DEF SetFacts

LEMMA SingleFact ==
    ASSUME SetFacts, NEW x PROVE IsFiniteSet({x}) /\ Cardinality({x}) = 1
BY ZenonT(30) DEF SetFacts

LEMMA IntervalFact ==
    ASSUME SetFacts, NEW a \in Int, NEW b \in Int PROVE IsFiniteSet(a .. b)
BY ZenonT(30) DEF SetFacts

LEMMA LeastFact ==
    ASSUME SetFacts, NEW S \in SUBSET Nat, S # {}
    PROVE  \E n \in S : \A m \in S : n <= m
BY ZenonT(30) DEF SetFacts


Phases == {"warmup", "running", "draining", "summary", "done"}

Sessions == [rt : BOOLEAN, phase : Phases, synced : BOOLEAN, until : Nat, left : Nat]

Entries == [at : Nat, pt : Nat]

Datagrams == [copy : Copies, pt : Nat, sent : Nat]

Maps == UNION {[D -> SUBSET Copies] : D \in SUBSET Nat}

Trackers == [map : Maps, ready : BOOLEAN, cursor : Nat, primary : Nat, recovered : Nat, lost : Nat]

Reports == [pc : {"idle", "graced", "scan", "settle"}, grace : Nat, upto : Int, found : SUBSET Copies]

Histories == [first : Nat, heard : SUBSET (Nat \X Copies), behind : Nat, overdue : BOOLEAN,
              shared : BOOLEAN, gap : BOOLEAN]

TalliesTypes ==
    /\ now \in Nat /\ now <= LastTime
    /\ session \in Sessions
    /\ tx \in [due : Nat, sent : Seq(Entries)]
    /\ air \in SUBSET Datagrams
    /\ red \in Trackers
    /\ rx \in [last : Nat, longest : Nat]
    /\ report \in Reports
    /\ past \in Histories

\* Who may be in a report, and in which phase.
PhaseInv ==
    /\ report.pc \in {"graced", "settle"} => session.phase = "running"
    /\ report.pc = "scan" => session.phase \in {"running", "summary"}
    /\ report.pc \in {"scan", "settle"} => red.ready /\ red.cursor < report.upto
    /\ session.phase = "warmup" => tx.sent = <<>>
    /\ air # {} => tx.sent # <<>>
    /\ red.ready => tx.sent # <<>> /\ rx.last > 0
    /\ session.phase = "done" /\ red.ready => red.cursor > Slot(LastPt)

\* What was sent and what is on its way is no older than its due.
Entered(e, t) == e.at > 0 /\ e.at <= t /\ e.pt = e.at + Latency

Timely(p) ==
    /\ p.pt > 0 /\ p.pt <= now + Latency /\ now <= p.sent + Trip
    /\ ~past.gap => p.sent + Latency <= p.pt + Shift + Interval + Wake

TimeInv ==
    /\ tx.due > 0
    /\ \A i \in DOMAIN tx.sent : Entered(tx.sent[i], now)
    /\ \A p \in air : Timely(p)
    /\ ~past.gap => \A i \in DOMAIN tx.sent :
           i > 1 => tx.sent[i].at <= tx.sent[i - 1].at + Interval + Wake
    /\ ~past.gap /\ session.phase = "running" =>
           /\ now <= tx.due + Wake
           /\ tx.sent # <<>> => session.synced /\ tx.due <= tx.sent[Len(tx.sent)].at + Interval

\* What the tracker knows of the slots it has not read yet is what came.
TallyInv ==
    /\ IsFiniteSet(past.heard)
    /\ ~red.ready => /\ past.heard = {} /\ DOMAIN red.map = {} /\ past.behind = 0
                     /\ red.lost = 0 /\ red.recovered = 0 /\ red.primary = 0
    /\ red.ready => past.first <= red.cursor
    /\ red.ready /\ ~past.shared =>
           /\ \A s \in Nat : Open(red, s) => Coverage(red.map, s) = HeardOf(s)
           /\ report.pc = "settle" => report.found = HeardOf(red.cursor)
    /\ SlotsTallied

FloorCovers == \A d \in Skews \cup {Latency} : Floor >= Trip + Shift + Interval + Wake + d - Latency

\* The cursor stays a grace behind the newest arrival until the summary.
CursorInv ==
    /\ rx.last + Trip + Shift + Interval + Wake <= now + Latency + Floor
    /\ report.pc = "graced" => report.grace >= Floor
    /\ session.phase \notin {"summary", "done"} =>
           /\ report.pc \in {"scan", "settle"} => report.upto * Interval + Floor <= rx.last
           /\ red.ready /\ red.cursor > past.first => red.cursor * Interval + Floor <= rx.last
    /\ past.overdue => past.gap

Slots == [used : BOOLEAN, sender : Senders \cup {0}, seen : Nat, last : 0 .. (SeqWrap - 1),
          got : Nat, ooo : Nat, dup : Nat]

SourcesInv ==
    /\ sources \in [1 .. MaxSources -> Slots]
    /\ heardAt \in [Senders -> Nat \cup {-1}]
    /\ \A u \in Senders : heardAt[u] <= now
    /\ \A i \in 1 .. MaxSources : sources[i].used => sources[i].sender \in Senders
    /\ SourcesKept

Sinks == [ring : Nat, appended : Nat, dropped : Nat, written : Nat, failed : Nat, err : BOOLEAN,
          stop : BOOLEAN, pc : {"drain", "flush", "stopping", "last", "gone"}]

SinkInv ==
    /\ sink \in Sinks
    /\ sink.pc = "stopping" => sink.stop
    /\ sink.pc = "last" => sink.stop /\ sink.ring = 0
    /\ RecordsAccounted

TalliesInv ==
    /\ TalliesTypes /\ PhaseInv /\ TimeInv /\ TallyInv
    /\ FloorCovers => CursorInv

SessionInv == TalliesInv /\ SourcesInv /\ SinkInv

----------------------------------------------------------------------------
(* The sink. *)

\* Every record is accounted for after each step of the receiving thread and of
\* the writer (AppendRecord, WriteRecord, WriterPass, StopSink).
LEMMA SinkStepKept == SinkInv /\ [SinkStep]_sink => SinkInv'
<1> SUFFICES ASSUME SinkInv, [SinkStep]_sink PROVE SinkInv'
    OBVIOUS
<1>0. /\ sink \in Sinks
      /\ sink = [ring |-> sink.ring, appended |-> sink.appended, dropped |-> sink.dropped,
                 written |-> sink.written, failed |-> sink.failed, err |-> sink.err,
                 stop |-> sink.stop, pc |-> sink.pc]
    BY DEF SinkInv, Sinks
<1>1. CASE AppendRecord
    <2>1. /\ sink' \in Sinks /\ sink'.err = sink.err /\ sink'.pc = sink.pc /\ sink'.stop = sink.stop
          /\ sink'.written = sink.written /\ sink'.failed = sink.failed
          /\ sink'.appended = sink.appended + 1
          /\ \/ sink'.ring = sink.ring + 1 /\ sink'.dropped = sink.dropped
             \/ sink'.ring = sink.ring /\ sink'.dropped = sink.dropped + 1
        <3>1. CASE sink.ring < SinkCap
            <4>1. sink' = [ring |-> sink.ring + 1, appended |-> sink.appended + 1, dropped |-> sink.dropped,
                           written |-> sink.written, failed |-> sink.failed, err |-> sink.err,
                           stop |-> sink.stop, pc |-> sink.pc]
                BY <1>0, <1>1, <3>1, ZenonT(30) DEF AppendRecord
            <4> QED BY <1>0, <4>1 DEF Sinks
        <3>2. CASE ~(sink.ring < SinkCap)
            <4>1. sink' = [ring |-> sink.ring, appended |-> sink.appended + 1, dropped |-> sink.dropped + 1,
                           written |-> sink.written, failed |-> sink.failed, err |-> sink.err,
                           stop |-> sink.stop, pc |-> sink.pc]
                BY <1>0, <1>1, <3>2, ZenonT(30) DEF AppendRecord
            <4> QED BY <1>0, <4>1 DEF Sinks
        <3> QED BY <3>1, <3>2
    <2>2. ~sink.stop
        BY <1>1 DEF AppendRecord
    <2> QED BY <1>0, <2>1, <2>2 DEF SinkInv, RecordsAccounted, Sinks
<1>2. CASE StopSink
    <2>1. /\ sink' \in Sinks /\ sink'.err = sink.err /\ sink'.pc = sink.pc /\ sink'.stop = TRUE
          /\ sink'.written = sink.written /\ sink'.failed = sink.failed
          /\ sink'.appended = sink.appended /\ sink'.ring = sink.ring /\ sink'.dropped = sink.dropped
        BY <1>0, <1>2, ZenonT(30) DEF StopSink, Sinks
    <2> QED BY <2>1 DEF SinkInv, RecordsAccounted
<1>3. CASE WriterPass
    <2>1. /\ sink' \in Sinks /\ sink'.stop = sink.stop
          /\ sink'.written = sink.written /\ sink'.failed = sink.failed
          /\ sink'.appended = sink.appended /\ sink'.ring = sink.ring /\ sink'.dropped = sink.dropped
          /\ sink.err => sink'.err
          /\ sink'.pc = "stopping" => sink.stop
          /\ sink'.pc = "last" => sink.pc = "stopping" /\ sink.ring = 0
          /\ sink'.pc = "gone" => sink.pc = "last"
        <3>1. CASE sink.pc = "drain"
            BY <1>0, <1>3, <3>1 DEF WriterPass, Sinks
        <3>2. CASE sink.pc = "stopping"
            BY <1>0, <1>3, <3>2 DEF WriterPass, Sinks
        <3>3. CASE sink.pc \in {"flush", "last"}
            BY <1>0, <1>3, <3>3, ZenonT(30) DEF WriterPass, Sinks
        <3> QED BY <1>3, <3>1, <3>2, <3>3, ZenonT(30) DEF WriterPass
    <2> QED BY <2>1 DEF SinkInv, RecordsAccounted
<1>4. ASSUME NEW fails \in BOOLEAN, WriteRecord(fails) PROVE SinkInv'
    <2>1. PICK e \in BOOLEAN : e = (sink.err \/ fails)
        BY ZenonT(30)
    <2>2. /\ sink' = [sink EXCEPT !.ring = @ - 1, !.err = e,
                                 !.written = IF e THEN @ ELSE @ + 1,
                                 !.failed = IF e THEN @ + 1 ELSE @]
        BY <1>4, <2>1, ZenonT(30) DEF WriteRecord
    <2>0. sink.pc = "drain" /\ sink.ring > 0 /\ (sink.err => e)
        BY <1>4, <2>1, ZenonT(30) DEF WriteRecord
    <2>3. /\ sink' \in Sinks /\ sink'.err = e /\ sink'.pc = "drain"
          /\ sink'.appended = sink.appended /\ sink'.ring = sink.ring - 1 /\ sink'.dropped = sink.dropped
          /\ \/ sink'.written = sink.written + 1 /\ sink'.failed = sink.failed
             \/ sink'.written = sink.written /\ sink'.failed = sink.failed + 1 /\ e
        <3>1. CASE e
            <4>1. sink' = [ring |-> sink.ring - 1, appended |-> sink.appended, dropped |-> sink.dropped,
                           written |-> sink.written, failed |-> sink.failed + 1, err |-> e,
                           stop |-> sink.stop, pc |-> sink.pc]
                BY <1>0, <2>2, <3>1, ZenonT(30)
            <4> QED BY <1>0, <2>0, <3>1, <4>1 DEF Sinks
        <3>2. CASE ~e
            <4>1. sink' = [ring |-> sink.ring - 1, appended |-> sink.appended, dropped |-> sink.dropped,
                           written |-> sink.written + 1, failed |-> sink.failed, err |-> e,
                           stop |-> sink.stop, pc |-> sink.pc]
                BY <1>0, <2>2, <3>2, ZenonT(30)
            <4> QED BY <1>0, <2>0, <3>2, <4>1 DEF Sinks
        <3> QED BY <3>1, <3>2
    <2> QED BY <1>0, <2>0, <2>3 DEF SinkInv, RecordsAccounted, Sinks
<1>5. CASE UNCHANGED sink
    BY <1>5 DEF SinkInv, RecordsAccounted
<1> QED BY <1>1, <1>2, <1>3, <1>4, <1>5 DEF SinkStep

----------------------------------------------------------------------------
(* The slots of the remote senders. *)

LEMMA NewFields ==
    ASSUME now \in Nat, NEW u \in Senders, NEW q \in 0 .. (SeqWrap - 1)
    PROVE  LET n == NewSource(u, q)
           IN  n \in Slots /\ n.used /\ n.sender = u /\ n.seen = now /\ n.ooo + n.dup < n.got
BY DEF NewSource, Slots

\* observe counts a packet once, as new, out of order or a duplicate.
LEMMA UpdatedFields ==
    ASSUME now \in Nat, NEW e \in Slots, e.ooo + e.dup < e.got, NEW q \in 0 .. (SeqWrap - 1)
    PROVE  LET n == Updated(e, q)
           IN  n \in Slots /\ n.used = e.used /\ n.sender = e.sender /\ n.seen = now /\ n.ooo + n.dup < n.got
<1> DEFINE d == (q - e.last) % SeqWrap
           l == IF 0 < d /\ 2 * d < SeqWrap THEN q ELSE e.last
           du == IF d = 0 THEN e.dup + 1 ELSE e.dup
           oo == IF 2 * d >= SeqWrap THEN e.ooo + 1 ELSE e.ooo
<1>1. /\ e = [used |-> e.used, sender |-> e.sender, seen |-> e.seen, last |-> e.last, got |-> e.got,
              ooo |-> e.ooo, dup |-> e.dup]
      /\ e.used \in BOOLEAN /\ e.sender \in Senders \cup {0} /\ e.last \in 0 .. (SeqWrap - 1)
      /\ e.got \in Nat /\ e.ooo \in Nat /\ e.dup \in Nat
    BY DEF Slots
<1>2. SeqWrap \in Nat \ {0} /\ q \in Int /\ e.last \in Int
    BY <1>1, SessionAssumption
<1>3. d \in Nat
    BY <1>2
<1>4. l \in 0 .. (SeqWrap - 1) /\ du \in Nat /\ oo \in Nat /\ oo + du <= e.ooo + e.dup + 1
    <2> HIDE DEF d
    <2> QED BY <1>1, <1>2, <1>3
<1>5. Updated(e, q) = [e EXCEPT !.last = l, !.dup = du, !.ooo = oo, !.got = e.got + 1, !.seen = now]
    BY DEF Updated
<1> HIDE DEF l, du, oo
<1>6. Updated(e, q) = [used |-> e.used, sender |-> e.sender, seen |-> now, last |-> l, got |-> e.got + 1,
                       ooo |-> oo, dup |-> du]
    BY <1>1, <1>5, ZenonT(30)
<1> QED BY <1>1, <1>4, <1>6 DEF Slots

\* SlotFor gives the sender's own slot if it has one, else a free one, else the
\* one that was heard the longest ago.
LEMMA SlotForFits ==
    ASSUME SetFacts, SourcesInv, NEW u \in Senders
    PROVE  LET k == SlotFor(u)
           IN  /\ k \in 1 .. MaxSources
               /\ \/ sources[k].used /\ sources[k].sender = u
                  \/ /\ \A j \in 1 .. MaxSources : ~(sources[j].used /\ sources[j].sender = u)
                     /\ \/ ~sources[k].used
                        \/ \A j \in 1 .. MaxSources : sources[j].used /\ sources[k].seen <= sources[j].seen
<1> DEFINE has == {i \in DOMAIN sources : sources[i].used /\ sources[i].sender = u}
           fits == IF has # {} THEN has ELSE IF FreeSlots # {} THEN FreeSlots ELSE Oldest
<1>1. DOMAIN sources = 1 .. MaxSources /\ MaxSources \in Nat \ {0}
    BY SessionAssumption DEF SourcesInv
<1>2. Oldest # {}
    <2> DEFINE seens == {sources[i].seen : i \in DOMAIN sources}
    <2>1. seens \in SUBSET Nat
        BY <1>1, ZenonT(30) DEF SourcesInv, Slots
    <2>2. sources[1].seen \in seens
        BY <1>1
    <2> HIDE DEF seens
    <2>3. PICK m \in seens : \A n \in seens : m <= n
        BY <2>1, <2>2, LeastFact, ZenonT(30)
    <2> QED BY <2>3 DEF Oldest, seens
<1>3. fits # {} /\ fits \subseteq 1 .. MaxSources
    BY <1>1, <1>2, ZenonT(30) DEF FreeSlots, Oldest
<1>4. SlotFor(u) = CHOOSE i \in fits : \A j \in fits : i <= j
    BY DEF SlotFor
<1>5. SlotFor(u) \in fits
    <2> HIDE DEF fits
    <2>1. fits \in SUBSET Nat
        BY <1>3
    <2>2. \E i \in fits : \A j \in fits : i <= j
        BY <1>3, <2>1, LeastFact
    <2> QED BY <1>4, <2>2
<1> DEFINE k == SlotFor(u)
<1> HIDE DEF k
<1> SUFFICES /\ k \in 1 .. MaxSources
             /\ \/ sources[k].used /\ sources[k].sender = u
                \/ /\ \A j \in 1 .. MaxSources : ~(sources[j].used /\ sources[j].sender = u)
                   /\ \/ ~sources[k].used
                      \/ \A j \in 1 .. MaxSources : sources[j].used /\ sources[k].seen <= sources[j].seen
    BY DEF k
<1>6. k \in fits
    BY <1>5 DEF k
<1> QED BY <1>1, <1>3, <1>6 DEF FreeSlots, Oldest

\* A packet of a remote sender (ReceiveRemote) keeps one slot for each sender,
\* the sums of a slot and the order in which slots are given up.
LEMMA SourcesStepKept ==
    ASSUME SetFacts, SourcesInv, now \in Nat, NEW u \in Senders, NEW q \in 0 .. (SeqWrap - 1), NEW pt,
           ReceiveRemote(u, q, pt)
    PROVE  SourcesInv'
<1> DEFINE k == SlotFor(u)
           n == IF sources[k].used /\ sources[k].sender = u THEN Updated(sources[k], q) ELSE NewSource(u, q)
<1>1. /\ k \in 1 .. MaxSources
      /\ \/ sources[k].used /\ sources[k].sender = u
         \/ /\ \A j \in 1 .. MaxSources : ~(sources[j].used /\ sources[j].sender = u)
            /\ \/ ~sources[k].used
               \/ \A j \in 1 .. MaxSources : sources[j].used /\ sources[k].seen <= sources[j].seen
    BY SlotForFits
<1>2. /\ sources \in [1 .. MaxSources -> Slots] /\ heardAt \in [Senders -> Nat \cup {-1}]
      /\ \A v \in Senders : heardAt[v] <= now
      /\ \A i \in 1 .. MaxSources : sources[i].used => sources[i].sender \in Senders
      /\ \A i \in 1 .. MaxSources : sources[i] \in Slots /\ sources[i].seen \in Nat
    BY DEF SourcesInv, Slots
<1>3. /\ \A i, j \in 1 .. MaxSources :
            sources[i].used /\ sources[j].used /\ sources[i].sender = sources[j].sender => i = j
      /\ \A i \in 1 .. MaxSources :
            sources[i].used => /\ sources[i].ooo + sources[i].dup < sources[i].got
                               /\ sources[i].seen = heardAt[sources[i].sender]
      /\ \A v \in Senders, i \in 1 .. MaxSources :
            (\A j \in 1 .. MaxSources : ~(sources[j].used /\ sources[j].sender = v)) /\ heardAt[v] >= 0
                => sources[i].used /\ heardAt[v] <= sources[i].seen
    BY <1>2 DEF SourcesInv, SourcesKept
<1>4. n \in Slots /\ n.used /\ n.sender = u /\ n.seen = now /\ n.ooo + n.dup < n.got
    <2>1. CASE sources[k].used /\ sources[k].sender = u
        BY <1>1, <1>2, <1>3, <2>1, UpdatedFields
    <2>2. CASE ~(sources[k].used /\ sources[k].sender = u)
        BY <2>2, NewFields
    <2> QED BY <2>1, <2>2
<1>5. sources' = [sources EXCEPT ![k] = n] /\ heardAt' = [heardAt EXCEPT ![u] = now] /\ now' = now
    BY DEF ReceiveRemote
<1> HIDE DEF k, n
<1>6. /\ sources' \in [1 .. MaxSources -> Slots] /\ sources'[k] = n
      /\ \A i \in 1 .. MaxSources : i # k => sources'[i] = sources[i]
    BY <1>1, <1>2, <1>4, <1>5
<1>7. /\ heardAt' \in [Senders -> Nat \cup {-1}] /\ heardAt'[u] = now
      /\ \A v \in Senders : v # u => heardAt'[v] = heardAt[v]
    BY <1>2, <1>5
<1>8. \A i \in 1 .. MaxSources : i # k /\ sources[i].used => sources[i].sender # u
    BY <1>1, <1>3
<1>9. \A v \in Senders : heardAt'[v] <= now'
    BY <1>2, <1>5, <1>7
<1>10. \A i \in 1 .. MaxSources : sources'[i].used => sources'[i].sender \in Senders
    BY <1>2, <1>4, <1>6
<1>11. \A i, j \in 1 .. MaxSources :
            sources'[i].used /\ sources'[j].used /\ sources'[i].sender = sources'[j].sender => i = j
    BY <1>3, <1>4, <1>6, <1>8
<1>12. ASSUME NEW i \in 1 .. MaxSources, sources'[i].used
       PROVE  /\ sources'[i].ooo + sources'[i].dup < sources'[i].got
              /\ sources'[i].seen = heardAt'[sources'[i].sender]
    <2>1. CASE i = k
        BY <1>4, <1>6, <1>7, <2>1
    <2>2. CASE i # k
        BY <1>2, <1>3, <1>6, <1>7, <1>8, <1>12, <2>2
    <2> QED BY <2>1, <2>2
<1>13. ASSUME NEW v \in Senders, NEW i \in 1 .. MaxSources,
              \A j \in 1 .. MaxSources : ~(sources'[j].used /\ sources'[j].sender = v), heardAt'[v] >= 0
       PROVE  sources'[i].used /\ heardAt'[v] <= sources'[i].seen
    <2>1. v # u /\ heardAt'[v] = heardAt[v] /\ heardAt[v] \in Int /\ heardAt[v] >= 0
        BY <1>1, <1>2, <1>4, <1>6, <1>7, <1>13
    <2>2. \A j \in 1 .. MaxSources : j # k => ~(sources[j].used /\ sources[j].sender = v)
        BY <1>6, <1>13
    <2>3. CASE sources[k].used /\ sources[k].sender = v
        <3>1. \A j \in 1 .. MaxSources : sources[j].used /\ sources[k].seen <= sources[j].seen
            BY <1>1, <2>1, <2>3
        <3>2. heardAt[v] = sources[k].seen
            BY <1>1, <1>3, <2>3
        <3>3. CASE i = k
            BY <1>2, <1>4, <1>6, <2>1, <3>3
        <3>4. CASE i # k
            BY <1>6, <2>1, <3>1, <3>2, <3>4
        <3> QED BY <3>3, <3>4
    <2>4. CASE ~(sources[k].used /\ sources[k].sender = v)
        <3>1. \A j \in 1 .. MaxSources : sources[j].used /\ heardAt[v] <= sources[j].seen
            BY <1>3, <2>1, <2>2, <2>4
        <3>2. CASE i = k
            BY <1>2, <1>4, <1>6, <2>1, <3>2
        <3>3. CASE i # k
            BY <1>6, <2>1, <3>1, <3>3
        <3> QED BY <3>2, <3>3
    <2> QED BY <2>3, <2>4
<1>14. SourcesKept'
    <2>1. DOMAIN sources' = 1 .. MaxSources
        BY <1>6
    <2> QED BY <1>11, <1>12, <1>13, <2>1 DEF SourcesKept
<1> QED BY <1>6, <1>7, <1>9, <1>10, <1>14 DEF SourcesInv

\* The time that passes between two packets changes nothing of them.
LEMMA SourcesIdle ==
    ASSUME SourcesInv, now \in Nat, now' \in Nat, now' >= now, UNCHANGED sourcesVars
    PROVE  SourcesInv'
<1>1. \A u \in Senders : heardAt[u] \in Int /\ heardAt[u] <= now
    BY DEF SourcesInv
<1>2. \A u \in Senders : heardAt[u] <= now'
    BY <1>1
<1> QED BY <1>2 DEF SourcesInv, SourcesKept, sourcesVars

----------------------------------------------------------------------------
(* The types of the parts of the state, and frames for what a step leaves  *)
(* alone.                                                                  *)

LEMMA Constants ==
    /\ Interval \in Nat /\ Interval > 0 /\ Latency \in Nat /\ Shift \in Nat /\ Floor \in Nat
    /\ Trip \in Nat /\ Wake \in Nat /\ LastTime \in Nat /\ TxCap \in Nat /\ TxCap > 0
    /\ Skews \subseteq Int
BY SessionAssumption

LEMMA SessionFields ==
    ASSUME NEW s \in Sessions
    PROVE  /\ s.rt \in BOOLEAN /\ s.phase \in Phases /\ s.synced \in BOOLEAN /\ s.until \in Nat /\ s.left \in Nat
           /\ s = [rt |-> s.rt, phase |-> s.phase, synced |-> s.synced, until |-> s.until, left |-> s.left]
BY DEF Sessions

LEMMA TrackerFields ==
    ASSUME NEW r \in Trackers
    PROVE  /\ r.map \in Maps /\ r.ready \in BOOLEAN /\ r.cursor \in Nat
           /\ r.primary \in Nat /\ r.recovered \in Nat /\ r.lost \in Nat
           /\ r = [map |-> r.map, ready |-> r.ready, cursor |-> r.cursor,
                   primary |-> r.primary, recovered |-> r.recovered, lost |-> r.lost]
BY DEF Trackers

LEMMA ReportFields ==
    ASSUME NEW p \in Reports
    PROVE  /\ p.pc \in {"idle", "graced", "scan", "settle"} /\ p.grace \in Nat /\ p.upto \in Int
           /\ p.found \in SUBSET Copies
           /\ p = [pc |-> p.pc, grace |-> p.grace, upto |-> p.upto, found |-> p.found]
BY DEF Reports

LEMMA HistoryFields ==
    ASSUME NEW h \in Histories
    PROVE  /\ h.first \in Nat /\ h.heard \in SUBSET (Nat \X Copies) /\ h.behind \in Nat
           /\ h.overdue \in BOOLEAN /\ h.shared \in BOOLEAN /\ h.gap \in BOOLEAN
           /\ h = [first |-> h.first, heard |-> h.heard, behind |-> h.behind, overdue |-> h.overdue,
                   shared |-> h.shared, gap |-> h.gap]
BY DEF Histories

LEMMA StateFields ==
    ASSUME TalliesTypes
    PROVE  /\ now \in Nat /\ now <= LastTime
           /\ tx.due \in Nat /\ tx.sent \in Seq(Entries) /\ tx = [due |-> tx.due, sent |-> tx.sent]
           /\ rx.last \in Nat /\ rx.longest \in Nat /\ rx = [last |-> rx.last, longest |-> rx.longest]
           /\ \A p \in air : p.copy \in Copies /\ p.pt \in Nat /\ p.sent \in Nat
           /\ \A i \in DOMAIN tx.sent : tx.sent[i].at \in Nat /\ tx.sent[i].pt \in Nat
<1>1. /\ now \in Nat /\ now <= LastTime
      /\ tx.due \in Nat /\ tx.sent \in Seq(Entries) /\ tx = [due |-> tx.due, sent |-> tx.sent]
      /\ rx.last \in Nat /\ rx.longest \in Nat /\ rx = [last |-> rx.last, longest |-> rx.longest]
    BY DEF TalliesTypes
<1>2. \A p \in air : p.copy \in Copies /\ p.pt \in Nat /\ p.sent \in Nat
    BY DEF TalliesTypes, Datagrams
<1>3. \A i \in DOMAIN tx.sent : tx.sent[i] \in Entries
    BY <1>1
<1> QED BY <1>1, <1>2, <1>3 DEF Entries

\* A slot holds Interval units of presentation time.
LEMMA SlotBounds ==
    \A pt \in Int : Slot(pt) \in Int /\ Slot(pt) * Interval <= pt /\ pt < Slot(pt) * Interval + Interval
BY Constants DEF Slot

LEMMA SlotNat == \A pt \in Nat : Slot(pt) \in Nat
BY Constants DEF Slot

LEMMA SlotOrder == \A a, b \in Int : a < b => a * Interval + Interval <= b * Interval
<1> SUFFICES ASSUME NEW a \in Int, NEW b \in Int, a < b PROVE a * Interval + Interval <= b * Interval
    OBVIOUS
<1>1. (a + 1) * Interval <= b * Interval
    BY Constants
<1>2. (a + 1) * Interval = a * Interval + Interval
    BY Constants
<1> QED BY <1>1, <1>2

\* A step of the loop that the tracker and the history of arrivals do not see.
LEMMA TallyFrame ==
    ASSUME TallyInv, red' = red, past'.first = past.first, past'.heard = past.heard,
           past'.behind = past.behind, past'.shared = past.shared,
           report'.pc = "settle" <=> report.pc = "settle",
           report'.pc = "settle" => report'.found = report.found
    PROVE  TallyInv'
<1>1. \A s : HeardOf(s)' = HeardOf(s)
    BY DEF HeardOf
<1>2. ClosedSlots' = ClosedSlots
    BY DEF ClosedSlots
<1>3. \A s : Open(red, s)' <=> Open(red, s)
    BY DEF Open
<1>4. SlotsTallied'
    BY <1>1, <1>2, ZenonT(30) DEF TallyInv, SlotsTallied
<1> QED BY <1>1, <1>3, <1>4 DEF TallyInv

LEMMA MishapFields ==
    ASSUME session \in Sessions, Mishap
    PROVE  /\ session' \in Sessions /\ session'.phase = session.phase /\ session'.synced = session.synced
           /\ session'.rt = session.rt
<1>1. session' = [rt |-> session.rt, phase |-> session.phase, synced |-> session.synced,
                  until |-> session.until, left |-> session.left - 1] /\ session.left > 0
    BY SessionFields DEF Mishap
<1>2. session.left - 1 \in Nat
    BY <1>1, SessionFields
<1> QED BY <1>1, <1>2, SessionFields DEF Sessions

----------------------------------------------------------------------------
(* Sending. *)

\* MonotonicRing::record puts the entry last and drops at most the oldest one.
LEMMA RecordedFields ==
    ASSUME NEW ring \in Seq(Entries), NEW e \in Entries
    PROVE  LET r == Recorded(ring, e)
           IN  /\ r \in Seq(Entries) /\ Len(r) \in Nat /\ Len(r) > 0 /\ r[Len(r)] = e
               /\ r # <<>> /\ DOMAIN r = 1 .. Len(r)
               /\ \A i \in 1 .. Len(r) : i < Len(r) =>
                     \E j \in 1 .. Len(ring) :
                         /\ r[i] = ring[j]
                         /\ i + 1 < Len(r) => j + 1 \in 1 .. Len(ring) /\ r[i + 1] = ring[j + 1]
                         /\ i + 1 = Len(r) => j = Len(ring)
<1>0. Len(ring) \in Nat
    OBVIOUS
<1>1. CASE Len(ring) < TxCap
    <2>1. Recorded(ring, e) = Append(ring, e)
        BY <1>1 DEF Recorded
    <2> QED BY <1>0, <2>1
<1>2. CASE ~(Len(ring) < TxCap)
    <2>1. ring # <<>> /\ Len(ring) > 0
        BY <1>0, <1>2, Constants
    <2> DEFINE t == Tail(ring)
    <2>2. t \in Seq(Entries) /\ Len(t) = Len(ring) - 1 /\ \A i \in 1 .. Len(t) : t[i] = ring[i + 1]
        BY <2>1
    <2>3. Recorded(ring, e) = Append(t, e)
        BY <1>2 DEF Recorded
    <2> HIDE DEF t
    <2> DEFINE r == Append(t, e)
    <2>4. /\ r \in Seq(Entries) /\ Len(r) = Len(ring) /\ r[Len(r)] = e /\ DOMAIN r = 1 .. Len(r) /\ r # <<>>
          /\ \A i \in 1 .. Len(t) : r[i] = t[i]
        BY <1>0, <2>1, <2>2
    <2> HIDE DEF r
    <2>5. ASSUME NEW i \in 1 .. Len(r), i < Len(r)
          PROVE  \E j \in 1 .. Len(ring) :
                         /\ r[i] = ring[j]
                         /\ i + 1 < Len(r) => j + 1 \in 1 .. Len(ring) /\ r[i + 1] = ring[j + 1]
                         /\ i + 1 = Len(r) => j = Len(ring)
        <3>1. i + 1 \in 1 .. Len(ring) /\ r[i] = ring[i + 1]
            BY <1>0, <2>2, <2>4, <2>5
        <3>2. i + 1 < Len(r) => i + 2 \in 1 .. Len(ring) /\ r[i + 1] = ring[i + 2]
            BY <1>0, <2>2, <2>4, <2>5
        <3>3. i + 1 = Len(r) => i + 1 = Len(ring)
            BY <2>4, ZenonT(30)
        <3>4. (i + 1) + 1 = i + 2
            OBVIOUS
        <3> QED BY <3>1, <3>2, <3>3, <3>4
    <2> QED BY <1>0, <2>1, <2>3, <2>4, <2>5, ZenonT(30) DEF r
<1> QED BY <1>1, <1>2

\* The bound on the age of a copy: the next entry of the ring is younger than
\* the shift and at most an interval and the delay of the loop after it.
LEMMA CopyAge ==
    ASSUME NEW n \in Nat, NEW a \in Nat, NEW b \in Nat, b <= a + Interval + Wake, ~(b <= n - Shift)
    PROVE  n <= a + Shift + Interval + Wake
BY Constants

LEMMA CopyTimely ==
    ASSUME now \in Nat, NEW p, NEW a \in Nat, a > 0, a <= now, p.pt = a + Latency, p.sent = now,
           ~past.gap => now <= a + Shift + Interval + Wake
    PROVE  Timely(p)
<1>1. now + Latency <= (a + Latency) + Shift + Interval + Wake <=> now <= a + Shift + Interval + Wake
    BY Constants
<1>2. a + Latency > 0 /\ a + Latency <= now + Latency /\ now <= now + Trip
    BY Constants
<1> QED BY <1>1, <1>2 DEF Timely

\* What emit_packet sends is not older than the shift, an interval and the
\* delay of the loop.
LEMMA EmitKept ==
    ASSUME TalliesTypes, PhaseInv, TimeInv, session.phase = "running", session.synced, now >= tx.due,
           NEW due \in Nat, due > 0, due <= now + Interval, ~past.gap => now <= due + Wake, Emit(due),
           UNCHANGED <<now, red, rx, report, past>>
    PROVE  (TalliesTypes /\ PhaseInv /\ TimeInv)' /\ session'.phase = "running"
<1> DEFINE e == [at |-> now, pt |-> now + Latency]
           ring == tx.sent
           r == Recorded(ring, e)
           both == {Datagram("primary", e)} \cup {Datagram("redundant", old) : old \in AtOrBefore(r, now - Shift)}
<1>1. /\ tx' = [due |-> due, sent |-> r]
      /\ air' \in SUBSET (air \cup both)
      /\ session' = session \/ Mishap
    BY DEF Emit
<1>2. /\ session' \in Sessions /\ session'.phase = "running" /\ session'.synced = session.synced
      /\ session'.rt = session.rt
    BY <1>1, MishapFields, ZenonT(30) DEF TalliesTypes
<1>3. now \in Nat /\ now > 0 /\ e \in Entries /\ ring \in Seq(Entries) /\ tx.due \in Nat
    <2>1. now \in Nat /\ tx.due \in Nat /\ tx.due > 0 /\ ring \in Seq(Entries)
        BY StateFields DEF TimeInv
    <2>2. now + Latency \in Nat /\ now > 0
        BY <2>1, Constants
    <2> QED BY <2>1, <2>2 DEF Entries
<1>4. e.at = now /\ e.pt = now + Latency
    OBVIOUS
<1>5. /\ \A i \in 1 .. Len(ring) : Entered(ring[i], now) /\ ring[i].at \in Nat /\ ring[i].pt \in Nat
      /\ DOMAIN ring = 1 .. Len(ring) /\ Len(ring) \in Nat
    BY <1>3, StateFields DEF TimeInv
<1>20. ring = tx.sent
    OBVIOUS
<1> HIDE DEF e, ring
<1>6. /\ r \in Seq(Entries) /\ Len(r) \in Nat /\ Len(r) > 0 /\ r[Len(r)] = e
      /\ r # <<>> /\ DOMAIN r = 1 .. Len(r)
      /\ \A i \in 1 .. Len(r) : i < Len(r) =>
             \E k \in 1 .. Len(ring) :
                 /\ r[i] = ring[k]
                 /\ i + 1 < Len(r) => k + 1 \in 1 .. Len(ring) /\ r[i + 1] = ring[k + 1]
                 /\ i + 1 = Len(r) => k = Len(ring)
    BY <1>3, RecordedFields
<1>21. Len(r) \in Nat /\ Len(r) > 0
    BY <1>6, ZenonT(30)
<1>22. r[Len(r)] = e /\ DOMAIN r = 1 .. Len(r)
    BY <1>6, ZenonT(30)
<1>23. now <= now + Shift + Interval + Wake
    BY <1>3, Constants
<1>7. Entered(e, now)
    BY <1>3, <1>4, Constants DEF Entered
<1> HIDE DEF r
<1>8. \A i \in 1 .. Len(r) : Entered(r[i], now) /\ r[i].at \in Nat /\ r[i].pt \in Nat
    <2> TAKE i \in 1 .. Len(r)
    <2>1. CASE i = Len(r)
        BY <1>3, <1>4, <1>7, <1>22, <2>1, Constants
    <2>2. CASE i < Len(r)
        BY <1>5, <1>6, <2>2, ZenonT(30)
    <2> QED BY <1>21, <2>1, <2>2
<1>9. ASSUME ~past.gap, NEW i \in 1 .. Len(r), i < Len(r)
      PROVE  r[i + 1].at <= r[i].at + Interval + Wake
    <2>1. PICK k \in 1 .. Len(ring) :
                 /\ r[i] = ring[k]
                 /\ i + 1 < Len(r) => k + 1 \in 1 .. Len(ring) /\ r[i + 1] = ring[k + 1]
                 /\ i + 1 = Len(r) => k = Len(ring)
        BY <1>6, <1>9, ZenonT(30)
    <2>2. CASE i + 1 < Len(r)
        <3>1. k + 1 \in DOMAIN tx.sent /\ k + 1 > 1 /\ (k + 1) - 1 = k
            BY <1>5, <1>20, <2>1, <2>2
        <3>2. tx.sent[k + 1].at <= tx.sent[(k + 1) - 1].at + Interval + Wake
            BY <1>9, <3>1, ZenonT(30) DEF TimeInv
        <3> QED BY <1>20, <2>1, <2>2, <3>1, <3>2
    <2>3. CASE i + 1 = Len(r)
        <3>0. r[i + 1] = e /\ r[i] = ring[Len(ring)] /\ Len(ring) \in 1 .. Len(ring)
            BY <1>6, <2>1, <2>3, ZenonT(30)
        <3>1. r[i + 1].at = now /\ r[i] = tx.sent[Len(tx.sent)] /\ tx.sent # <<>>
            BY <1>4, <1>5, <1>20, <3>0
        <3>2. now <= tx.due + Wake /\ tx.due <= tx.sent[Len(tx.sent)].at + Interval
            BY <1>9, <3>1 DEF TimeInv
        <3>3. r[i].at \in Nat
            BY <1>5, <3>0
        <3> DEFINE a == r[i].at
        <3>4. a \in Nat /\ now <= tx.due + Wake /\ tx.due <= a + Interval
            BY <3>1, <3>2, <3>3
        <3>5. r[i + 1].at <= a + Interval + Wake
            <4> HIDE DEF a
            <4> QED BY <1>3, <3>1, <3>4, Constants
        <3> QED BY <3>5
    <2>4. i \in Nat /\ Len(r) \in Nat
        BY <1>21
    <2> QED BY <1>9, <2>2, <2>3, <2>4
<1>10. ASSUME NEW p \in both PROVE p \in Datagrams /\ Timely(p)
    <2>1. CASE p = Datagram("primary", e)
        <3>1. p = [copy |-> "primary", pt |-> now + Latency, sent |-> now]
            BY <1>4, <2>1 DEF Datagram
        <3> QED BY <1>3, <3>1, Constants DEF Datagrams, Copies, Timely
    <2>2. ASSUME NEW old \in AtOrBefore(r, now - Shift), p = Datagram("redundant", old)
          PROVE  p \in Datagrams /\ Timely(p)
        <3>1. PICK i \in 1 .. Len(r) :
                    /\ old = r[i] /\ r[i].at <= now - Shift
                    /\ \A k \in 1 .. Len(r) : r[k].at <= now - Shift => k <= i
            BY <1>6 DEF AtOrBefore
        <3>2. p = [copy |-> "redundant", pt |-> r[i].pt, sent |-> now]
            BY <2>2, <3>1 DEF Datagram
        <3>3. r[i].at \in Nat /\ r[i].pt = r[i].at + Latency /\ r[i].at > 0 /\ r[i].at <= now
            BY <1>8 DEF Entered
        <3>4. ASSUME ~past.gap PROVE now <= r[i].at + Shift + Interval + Wake
            <4>1. CASE i = Len(r)
                <5>1. r[i].at = now
                    BY <1>4, <1>22, <4>1
                <5> QED BY <1>23, <5>1
            <4>2. CASE i < Len(r)
                <5>1. r[i + 1].at <= r[i].at + Interval + Wake
                    BY <1>9, <3>4, <4>2
                <5>2. i + 1 \in 1 .. Len(r) /\ ~(i + 1 <= i)
                    BY <1>6, <4>2
                <5>3. r[i + 1].at \in Nat /\ ~(r[i + 1].at <= now - Shift)
                    BY <1>8, <3>1, <5>2
                <5> DEFINE a == r[i].at
                           b == r[i + 1].at
                <5>4. a \in Nat /\ b \in Nat /\ b <= a + Interval + Wake /\ ~(b <= now - Shift)
                    BY <3>3, <5>1, <5>3
                <5>5. now <= a + Shift + Interval + Wake
                    <6> HIDE DEF a, b
                    <6> QED BY <1>3, <5>4, CopyAge
                <5> QED BY <5>5
            <4> QED BY <1>6, <4>1, <4>2
        <3>5. p \in Datagrams
            BY <1>3, <3>2, <3>3, Constants DEF Datagrams, Copies
        <3>6. p.pt = r[i].at + Latency /\ p.sent = now
            BY <3>2, <3>3
        <3> DEFINE a == r[i].at
        <3>7. a \in Nat /\ a > 0 /\ a <= now /\ (~past.gap => now <= a + Shift + Interval + Wake)
            BY <3>3, <3>4
        <3>8. p.pt = a + Latency
            BY <3>6
        <3> HIDE DEF a
        <3>9. Timely(p)
            BY <1>3, <3>6, <3>7, <3>8, CopyTimely
        <3> QED BY <3>5, <3>9
    <2> QED BY <1>10, <2>1, <2>2
<1>11. TalliesTypes'
    BY <1>1, <1>2, <1>6, <1>10 DEF TalliesTypes
<1>12. PhaseInv'
    BY <1>1, <1>2, <1>6 DEF PhaseInv
<1>13. tx'.due = due /\ tx'.sent = r
    BY <1>1
<1>14. \A p \in air' : Timely(p)'
    <2>1. \A p \in air \cup both : Timely(p)
        BY <1>10 DEF TimeInv
    <2>2. \A p : Timely(p)' <=> Timely(p)
        BY DEF Timely
    <2> QED BY <1>1, <2>1, <2>2
<1>15. \A i \in DOMAIN tx'.sent : Entered(tx'.sent[i], now')
    BY <1>8, <1>13, <1>22
<1>16. ASSUME ~past'.gap, NEW i \in DOMAIN tx'.sent, i > 1
       PROVE  tx'.sent[i].at <= tx'.sent[i - 1].at + Interval + Wake
    <2>1. i - 1 \in 1 .. Len(r) /\ i - 1 < Len(r) /\ (i - 1) + 1 = i
        <3>1. i \in 1 .. Len(r) /\ i > 1
            BY <1>22, <1>13, <1>16
        <3> QED BY <1>21, <3>1
    <2>2. r[(i - 1) + 1].at <= r[i - 1].at + Interval + Wake
        BY <1>9, <1>16, <2>1
    <2> QED BY <1>13, <2>1, <2>2
<1>17. /\ ~past'.gap => now' <= tx'.due + Wake
       /\ session'.synced /\ tx'.due <= tx'.sent[Len(tx'.sent)].at + Interval
    BY <1>2, <1>4, <1>6, <1>13, ZenonT(30)
<1>18. TimeInv'
    BY <1>13, <1>14, <1>15, <1>16, <1>17 DEF TimeInv
<1> QED BY <1>2, <1>11, <1>12, <1>18

LEMMA CursorFrame ==
    ASSUME CursorInv, UNCHANGED <<now, red, rx, report, past>>, session'.phase = session.phase
    PROVE  CursorInv'
BY DEF CursorInv

\* consume_due: the next deadline is after now, by an interval at most.
LEMMA NextDue ==
    ASSUME NEW n \in Nat, NEW d \in Nat, n >= d
    PROVE  LET due == d + Interval * ((n - d) \div Interval + 1)
           IN  due \in Nat /\ due > n /\ due <= n + Interval
<1> DEFINE q == (n - d) \div Interval
<1>1. q \in Int /\ q * Interval <= n - d /\ n - d < q * Interval + Interval
    BY SlotBounds DEF Slot
<1> HIDE DEF q
<1>2. Interval * (q + 1) = q * Interval + Interval
    BY <1>1, Constants
<1>3. q * Interval \in Int
    BY <1>1, Constants
<1> DEFINE m == q * Interval
<1> HIDE DEF m
<1>4. m \in Int /\ m <= n - d /\ n - d < m + Interval /\ Interval * (q + 1) = m + Interval
    BY <1>1, <1>2, <1>3 DEF m
<1>5. d + Interval * (q + 1) = d + m + Interval
    BY <1>4, Constants
<1>6. d + m + Interval \in Nat /\ d + m + Interval > n /\ d + m + Interval <= n + Interval
    BY <1>4, Constants
<1> QED BY <1>5, <1>6 DEF q

LEMMA SendPollingKept == TalliesInv /\ SendPolling => TalliesInv'
<1> SUFFICES ASSUME TalliesInv, SendPolling PROVE TalliesInv'
    OBVIOUS
<1> DEFINE due == tx.due + Interval * ((now - tx.due) \div Interval + 1)
<1>1. /\ TalliesTypes /\ PhaseInv /\ TimeInv /\ session.phase = "running" /\ now >= tx.due
      /\ UNCHANGED <<now, red, rx, report, past>>
      /\ TallyInv
    BY DEF SendPolling, TalliesInv
<1>2. now \in Nat /\ tx.due \in Nat
    BY <1>1, StateFields
<1>3. due \in Nat /\ due > now /\ due <= now + Interval
    BY <1>1, <1>2, NextDue, ZenonT(30)
<1>4. session.synced => Emit(due)
    BY DEF SendPolling
<1>5. ~session.synced => tx' = [tx EXCEPT !.due = due] /\ air' = air /\ session' = session
    BY DEF SendPolling
<1> HIDE DEF due
<1>6. due > 0 /\ now <= due + Wake
    BY <1>2, <1>3, Constants
<1>7. CASE session.synced
    <2>1. (TalliesTypes /\ PhaseInv /\ TimeInv)' /\ session'.phase = "running"
        BY <1>1, <1>3, <1>4, <1>6, <1>7, EmitKept
    <2>2. TallyInv'
        BY <1>1, TallyFrame
    <2>3. FloorCovers => CursorInv'
        BY <1>1, <2>1, CursorFrame DEF TalliesInv
    <2> QED BY <2>1, <2>2, <2>3 DEF TalliesInv, FloorCovers
<1>8. CASE ~session.synced
    <2>1. tx' = [due |-> due, sent |-> tx.sent]
        BY <1>1, <1>5, <1>8, StateFields
    <2>2. tx'.due = due /\ tx'.sent = tx.sent
        BY <2>1
    <2>3. TalliesTypes'
        BY <1>1, <1>3, <1>5, <1>8, <2>1, StateFields DEF TalliesTypes
    <2>4. PhaseInv'
        BY <1>1, <1>5, <1>8, <2>2 DEF PhaseInv, LastPt
    <2>5. \A p : Timely(p)' <=> Timely(p)
        BY <1>1 DEF Timely
    <2>6. ~past.gap => tx.sent = <<>>
        BY <1>1, <1>8 DEF TimeInv
    <2>7. TimeInv'
        BY <1>1, <1>5, <1>6, <1>8, <2>2, <2>5, <2>6 DEF TimeInv
    <2>8. TallyInv'
        BY <1>1, TallyFrame
    <2>9. FloorCovers => CursorInv'
        BY <1>1, <1>5, <1>8, CursorFrame DEF TalliesInv
    <2> QED BY <2>3, <2>4, <2>7, <2>8, <2>9 DEF TalliesInv, FloorCovers
<1> QED BY <1>7, <1>8

LEMMA SendRealtimeKept == TalliesInv /\ SendRealtime => TalliesInv'
<1> SUFFICES ASSUME TalliesInv, SendRealtime PROVE TalliesInv'
    OBVIOUS
<1> DEFINE due == tx.due + Interval
<1>1. /\ TalliesTypes /\ PhaseInv /\ TimeInv /\ session.phase = "running" /\ now >= tx.due
      /\ UNCHANGED <<now, red, rx, report, past>> /\ session.synced /\ Emit(due)
      /\ TallyInv
    BY DEF SendRealtime, TalliesInv
<1>2. now \in Nat /\ tx.due \in Nat /\ tx.due > 0
    BY <1>1, StateFields DEF TimeInv
<1>3. due \in Nat /\ due <= now + Interval /\ due > 0
    BY <1>1, <1>2, Constants
<1>4. ~past.gap => now <= due + Wake
    <2>1. ~past.gap => now <= tx.due + Wake
        BY <1>1 DEF TimeInv
    <2> QED BY <1>2, <2>1, Constants
<1> HIDE DEF due
<1>5. (TalliesTypes /\ PhaseInv /\ TimeInv)' /\ session'.phase = "running"
    BY <1>1, <1>3, <1>4, EmitKept
<1>6. TallyInv'
    BY <1>1, TallyFrame
<1>7. FloorCovers => CursorInv'
    BY <1>1, <1>5, CursorFrame DEF TalliesInv
<1> QED BY <1>5, <1>6, <1>7 DEF TalliesInv, FloorCovers
----------------------------------------------------------------------------
(* The steps that leave the tracker alone. *)

\* The times stay what they are when only the reports or the arrivals move.
LEMMA TimeFrame ==
    ASSUME TimeInv, UNCHANGED <<now, session, tx, air>>, past'.gap = past.gap
    PROVE  TimeInv'
<1>1. \A p : Timely(p)' <=> Timely(p)
    BY DEF Timely
<1> QED BY <1>1 DEF TimeInv

\* A packet of a remote sender moves last_rx_pt_, not further than the clock of
\* that sender is ahead.
LEMMA RemoteKept ==
    ASSUME TalliesInv, NEW d \in Skews, Heeded(now + d), rx' = [rx EXCEPT !.last = Larger(@, now + d)],
           UNCHANGED <<now, session, tx, air, red, report, past>>
    PROVE  TalliesInv'
<1>1. now \in Nat /\ rx.last \in Nat /\ rx.longest \in Nat /\ d \in Int /\ now + d >= 0
    BY StateFields, Constants DEF TalliesInv, Heeded
<1> DEFINE l == Larger(rx.last, now + d)
<1>2. l \in Nat /\ l >= rx.last /\ (l = rx.last \/ l = now + d)
    BY <1>1 DEF Larger
<1>3. rx' = [last |-> l, longest |-> rx.longest]
    BY StateFields DEF TalliesInv
<1> HIDE DEF l
<1>4. rx'.last = l
    BY <1>3
<1>5. TalliesTypes'
    BY <1>1, <1>2, <1>3 DEF TalliesInv, TalliesTypes
<1>6. PhaseInv'
    <2>1. red.ready => l > 0
        BY <1>1, <1>2 DEF TalliesInv, PhaseInv
    <2> QED BY <1>4, <2>1 DEF TalliesInv, PhaseInv, LastPt
<1>7. TimeInv' /\ TallyInv'
    BY TimeFrame, TallyFrame DEF TalliesInv
<1>8. ASSUME FloorCovers PROVE CursorInv'
    <2> USE <1>8
    <2>1. CursorInv
        BY DEF TalliesInv
    <2>2. Floor >= Trip + Shift + Interval + Wake + d - Latency
        BY DEF FloorCovers
    <2>3. l + Trip + Shift + Interval + Wake <= now + Latency + Floor
        BY <1>1, <1>2, <2>1, <2>2, Constants DEF CursorInv
    <2>4. red.cursor * Interval \in Int /\ report.upto * Interval \in Int
        <3>1. red.cursor \in Nat /\ report.upto \in Int
            BY TrackerFields, ReportFields DEF TalliesInv, TalliesTypes
        <3> QED BY <3>1, Constants
    <2>5. /\ report.upto * Interval + Floor <= rx.last => report.upto * Interval + Floor <= l
          /\ red.cursor * Interval + Floor <= rx.last => red.cursor * Interval + Floor <= l
        <3> DEFINE a == report.upto * Interval
                   b == red.cursor * Interval
        <3>1. a \in Int /\ b \in Int
            BY <2>4
        <3> HIDE DEF a, b
        <3>2. (a + Floor <= rx.last => a + Floor <= l) /\ (b + Floor <= rx.last => b + Floor <= l)
            BY <1>1, <1>2, <3>1, Constants
        <3> QED BY <3>2 DEF a, b
    <2> QED BY <1>4, <2>1, <2>3, <2>5 DEF CursorInv
<1> QED BY <1>5, <1>6, <1>7, <1>8 DEF TalliesInv, FloorCovers

LEMMA GraceFields ==
    ASSUME TalliesTypes
    PROVE  Grace \in Nat /\ Grace >= Floor
BY StateFields, Constants DEF Grace

LEMMA ReadGraceKept == TalliesInv /\ ReadGrace => TalliesInv'
<1> SUFFICES ASSUME TalliesInv, ReadGrace PROVE TalliesInv'
    OBVIOUS
<1>1. report' = [report EXCEPT !.pc = "graced", !.grace = Grace] /\ report.pc = "idle" /\ session.phase = "running"
    BY DEF ReadGrace
<1>2. UNCHANGED <<now, session, tx, air, red, rx, past>>
    BY DEF ReadGrace
<1>3. report \in Reports /\ Grace \in Nat /\ Grace >= Floor
    BY GraceFields DEF TalliesInv, TalliesTypes
<1>4. report' \in Reports /\ report'.pc = "graced" /\ report'.grace = Grace
    BY <1>1, <1>3, ZenonT(30) DEF Reports
<1>5. TalliesTypes'
    BY <1>2, <1>4 DEF TalliesInv, TalliesTypes
<1>6. PhaseInv'
    BY <1>1, <1>2, <1>4 DEF TalliesInv, PhaseInv, LastPt
<1>7. TimeInv' /\ TallyInv'
    BY <1>1, <1>2, <1>4, TimeFrame, TallyFrame DEF TalliesInv
<1>8. ASSUME FloorCovers PROVE CursorInv'
    BY <1>2, <1>3, <1>4, <1>8 DEF TalliesInv, CursorInv
<1> QED BY <1>5, <1>6, <1>7, <1>8 DEF TalliesInv, FloorCovers

\* The slots a scan may retire end a grace before the newest arrival.
LEMMA StartScanKept == TalliesInv /\ StartScan => TalliesInv'
<1> SUFFICES ASSUME TalliesInv, StartScan PROVE TalliesInv'
    OBVIOUS
<1> DEFINE upto == Slot(Reference - report.grace)
<1>1. /\ report.pc = "graced" /\ UNCHANGED <<now, session, tx, air, red, rx, past>>
      /\ report' = IF red.ready /\ red.cursor < upto THEN [NoReport EXCEPT !.pc = "scan", !.upto = upto]
                   ELSE NoReport
    BY DEF StartScan
<1>2. session.phase = "running" /\ report.grace \in Nat /\ red \in Trackers /\ rx.last \in Nat
    BY <1>1, ReportFields, StateFields DEF TalliesInv, TalliesTypes, PhaseInv
<1>3. red.ready => Reference = rx.last
    BY DEF TalliesInv, PhaseInv, Reference
<1>4. red.ready => upto \in Int /\ upto * Interval <= rx.last - report.grace
    BY <1>2, <1>3, SlotBounds
<1> HIDE DEF upto
<1>5. NoReport = [pc |-> "idle", grace |-> 0, upto |-> 0, found |-> {}]
    BY DEF NoReport
<1>6. CASE red.ready /\ red.cursor < upto
    <2>1. report' = [pc |-> "scan", grace |-> 0, upto |-> upto, found |-> {}]
        BY <1>1, <1>5, <1>6, ZenonT(30)
    <2>2. report' \in Reports /\ report'.pc = "scan" /\ report'.upto = upto
        BY <1>4, <1>6, <2>1 DEF Reports
    <2>3. TalliesTypes'
        BY <1>1, <2>2 DEF TalliesInv, TalliesTypes
    <2>4. PhaseInv'
        BY <1>1, <1>2, <1>6, <2>2 DEF TalliesInv, PhaseInv, LastPt
    <2>5. TimeInv' /\ TallyInv'
        BY <1>1, <2>2, TimeFrame, TallyFrame DEF TalliesInv
    <2>6. ASSUME FloorCovers PROVE CursorInv'
        <3>1. CursorInv
            BY <2>6 DEF TalliesInv
        <3>2. upto * Interval \in Int /\ report.grace >= Floor
            BY <1>1, <1>4, <1>6, <3>1, Constants DEF CursorInv
        <3>3. upto * Interval + Floor <= rx.last
            BY <1>2, <1>4, <1>6, <3>2, Constants
        <3> QED BY <1>1, <2>2, <3>1, <3>3 DEF CursorInv
    <2> QED BY <2>3, <2>4, <2>5, <2>6 DEF TalliesInv, FloorCovers
<1>7. CASE ~(red.ready /\ red.cursor < upto)
    <2>1. report' \in Reports /\ report'.pc = "idle"
        BY <1>1, <1>5, <1>7 DEF Reports
    <2>2. TalliesTypes'
        BY <1>1, <2>1 DEF TalliesInv, TalliesTypes
    <2>3. PhaseInv'
        BY <1>1, <1>2, <2>1 DEF TalliesInv, PhaseInv, LastPt
    <2>4. TimeInv' /\ TallyInv'
        BY <1>1, <2>1, TimeFrame, TallyFrame DEF TalliesInv
    <2>5. ASSUME FloorCovers PROVE CursorInv'
        BY <1>1, <2>1, <2>5 DEF TalliesInv, CursorInv
    <2> QED BY <2>2, <2>3, <2>4, <2>5 DEF TalliesInv, FloorCovers
<1> QED BY <1>6, <1>7

LEMMA StartFlushKept == TalliesInv /\ StartFlush => TalliesInv'
<1> SUFFICES ASSUME TalliesInv, StartFlush PROVE TalliesInv'
    OBVIOUS
<1>1. session.phase = "summary" /\ report.pc = "idle" /\ UNCHANGED <<now, tx, air, red, rx, past>>
    BY DEF StartFlush
<1>2. session \in Sessions /\ report \in Reports /\ red.cursor \in Nat
    BY TrackerFields DEF TalliesInv, TalliesTypes
<1>3. tx.sent # <<>> => Slot(LastPt) \in Nat
    <2> SUFFICES ASSUME tx.sent # <<>> PROVE LastPt \in Nat
        BY SlotNat
    <2>1. tx.sent \in Seq(Entries)
        BY StateFields DEF TalliesInv
    <2>2. Len(tx.sent) \in DOMAIN tx.sent
        BY <2>1
    <2> QED BY <2>2, StateFields DEF TalliesInv, LastPt
<1>4. CASE red.ready /\ tx.sent # <<>> /\ red.cursor <= Slot(LastPt)
    <2>1. report' = [report EXCEPT !.pc = "scan", !.upto = Slot(LastPt) + 1] /\ session' = session
        BY <1>4 DEF StartFlush
    <2>2. report' \in Reports /\ report'.pc = "scan" /\ report'.upto = Slot(LastPt) + 1
        <3> DEFINE u == Slot(LastPt) + 1
        <3>1. u \in Int
            BY <1>3, <1>4
        <3> HIDE DEF u
        <3>2. report' = [report EXCEPT !.pc = "scan", !.upto = u]
            BY <2>1 DEF u
        <3>3. report' \in Reports /\ report'.pc = "scan" /\ report'.upto = u
            BY <1>2, <3>1, <3>2, ZenonT(30) DEF Reports
        <3> QED BY <3>3 DEF u
    <2>3. TalliesTypes'
        BY <1>1, <2>1, <2>2 DEF TalliesInv, TalliesTypes
    <2>4. PhaseInv'
        <3>1. red.cursor < Slot(LastPt) + 1
            BY <1>2, <1>3, <1>4
        <3> QED BY <1>1, <1>4, <2>1, <2>2, <3>1 DEF TalliesInv, PhaseInv, LastPt
    <2>5. TimeInv' /\ TallyInv'
        BY <1>1, <2>1, <2>2, TimeFrame, TallyFrame DEF TalliesInv
    <2>6. ASSUME FloorCovers PROVE CursorInv'
        BY <1>1, <2>1, <2>2, <2>6 DEF TalliesInv, CursorInv
    <2> QED BY <2>3, <2>4, <2>5, <2>6 DEF TalliesInv, FloorCovers
<1>5. CASE ~(red.ready /\ tx.sent # <<>> /\ red.cursor <= Slot(LastPt))
    <2>1. session' = [session EXCEPT !.phase = "done"] /\ report' = report
        BY <1>5 DEF StartFlush
    <2>2. session' \in Sessions /\ session'.phase = "done"
        BY <1>2, <2>1 DEF Sessions, Phases
    <2>3. TalliesTypes'
        BY <1>1, <2>1, <2>2 DEF TalliesInv, TalliesTypes
    <2>4. red.ready => red.cursor > Slot(LastPt)
        BY <1>2, <1>3, <1>5 DEF TalliesInv, PhaseInv
    <2>5. LastPt' = LastPt
        BY <1>1 DEF LastPt
    <2>6. PhaseInv'
        BY <1>1, <2>1, <2>2, <2>4, <2>5 DEF TalliesInv, PhaseInv
    <2>7. \A p : Timely(p)' <=> Timely(p)
        BY <1>1 DEF Timely
    <2>8. TimeInv'
        BY <1>1, <2>2, <2>7 DEF TalliesInv, TimeInv
    <2>9. TallyInv'
        BY <1>1, <2>1, TallyFrame DEF TalliesInv
    <2>10. ASSUME FloorCovers PROVE CursorInv'
        BY <1>1, <2>1, <2>2, <2>10 DEF TalliesInv, CursorInv
    <2> QED BY <2>3, <2>6, <2>8, <2>9, <2>10 DEF TalliesInv, FloorCovers
<1> QED BY <1>4, <1>5

\* The steps that only change the phase or the sync of the session.
LEMMA PhaseStepKept ==
    ASSUME TalliesInv, LoseSync \/ GainSync \/ WarmedUp \/ StopSession \/ EndDrain
    PROVE  TalliesInv'
<1>1. /\ session \in Sessions /\ past \in Histories /\ Grace \in Nat /\ now \in Nat /\ now <= LastTime
      /\ tx.due \in Nat /\ tx.sent \in Seq(Entries) /\ tx = [due |-> tx.due, sent |-> tx.sent]
    BY GraceFields, StateFields DEF TalliesInv, TalliesTypes
<1>0. session = [rt |-> session.rt, phase |-> session.phase, synced |-> session.synced,
                 until |-> session.until, left |-> session.left]
    BY <1>1, SessionFields
<1>2. CASE LoseSync
    <2>1. /\ session' = [session EXCEPT !.synced = FALSE, !.left = @ - 1] /\ session.left > 0
          /\ session.phase \in {"warmup", "running"}
          /\ UNCHANGED <<now, tx, air, red, rx, report>>
        BY <1>2 DEF LoseSync
    <2>2. session' = [rt |-> session.rt, phase |-> session.phase, synced |-> FALSE,
                      until |-> session.until, left |-> session.left - 1]
        BY <1>0, <2>1, ZenonT(30)
    <2>3. session.left - 1 \in Nat
        BY <1>1, <2>1, SessionFields
    <2>4. session' \in Sessions /\ session'.phase = session.phase
        BY <1>1, <2>2, <2>3, SessionFields DEF Sessions
    <2>5. PICK g \in BOOLEAN : g = (past.gap \/ session.phase # "warmup")
        BY ZenonT(30)
    <2>6. past' = [past EXCEPT !.gap = g]
        BY <1>2, <2>5 DEF LoseSync
    <2>7. /\ past' \in Histories /\ past'.gap = g /\ past'.first = past.first /\ past'.heard = past.heard
          /\ past'.behind = past.behind /\ past'.shared = past.shared /\ past'.overdue = past.overdue
        BY <1>1, <2>6 DEF Histories
    <2>8. TalliesTypes'
        BY <2>1, <2>4, <2>7 DEF TalliesInv, TalliesTypes
    <2>9. PhaseInv'
        BY <2>1, <2>4 DEF TalliesInv, PhaseInv, LastPt
    <2>10. \A p : Timely(p) => Timely(p)'
        BY <2>1, <2>5, <2>7, ZenonT(30) DEF Timely
    <2>11. TimeInv'
        BY <2>1, <2>4, <2>5, <2>7, <2>10, ZenonT(30) DEF TalliesInv, TimeInv
    <2>12. TallyInv'
        BY <2>1, <2>7, TallyFrame DEF TalliesInv
    <2>13. ASSUME FloorCovers PROVE CursorInv'
        BY <2>1, <2>4, <2>5, <2>7, <2>13, ZenonT(30) DEF TalliesInv, CursorInv
    <2> QED BY <2>8, <2>9, <2>11, <2>12, <2>13 DEF TalliesInv, FloorCovers
<1>3. ASSUME session' \in Sessions, UNCHANGED <<now, air, red, rx, report, past>>,
             tx' \in [due : Nat, sent : Seq(Entries)], tx'.sent = tx.sent, tx'.due > 0,
             PhaseInv', session.phase \in {"summary", "done"} => session'.phase \in {"summary", "done"},
             ~past.gap /\ session'.phase = "running" =>
                 /\ now <= tx'.due + Wake
                 /\ tx.sent # <<>> => session'.synced /\ tx'.due <= tx.sent[Len(tx.sent)].at + Interval
      PROVE  TalliesInv'
    <2>1. TalliesTypes'
        BY <1>3 DEF TalliesInv, TalliesTypes
    <2>2. \A p : Timely(p)' <=> Timely(p)
        BY <1>3 DEF Timely
    <2>3. TimeInv'
        BY <1>3, <2>2 DEF TalliesInv, TimeInv
    <2>4. TallyInv'
        BY <1>3, TallyFrame DEF TalliesInv
    <2>5. ASSUME FloorCovers PROVE CursorInv'
        BY <1>3, <2>5 DEF TalliesInv, CursorInv
    <2> QED BY <1>3, <2>1, <2>3, <2>4, <2>5, ZenonT(30) DEF TalliesInv, FloorCovers
<1>4. CASE GainSync
    <2>1. session' = [session EXCEPT !.synced = TRUE] /\ UNCHANGED <<now, tx, air, red, rx, report, past>>
        BY <1>4 DEF GainSync
    <2>2. session' \in Sessions /\ session'.phase = session.phase /\ session'.synced = TRUE
        BY <1>1, <2>1, ZenonT(30) DEF Sessions
    <2>3. PhaseInv'
        BY <2>1, <2>2 DEF TalliesInv, PhaseInv, LastPt
    <2>4. tx' \in [due : Nat, sent : Seq(Entries)]
        BY <2>1 DEF TalliesInv, TalliesTypes
    <2>5. TimeInv
        BY DEF TalliesInv
    <2>6. ~past.gap /\ session'.phase = "running" =>
                 /\ now <= tx'.due + Wake
                 /\ tx.sent # <<>> => session'.synced /\ tx'.due <= tx.sent[Len(tx.sent)].at + Interval
        BY <2>1, <2>2, <2>5 DEF TimeInv
    <2>7. tx'.due > 0 /\ tx'.sent = tx.sent
        BY <2>1, <2>5 DEF TimeInv
    <2> QED BY <1>3, <2>1, <2>2, <2>3, <2>4, <2>6, <2>7
<1>5. CASE WarmedUp
    <2> DEFINE due == IF tx.due = Never THEN Never ELSE (now \div Interval + 1) * Interval
    <2>1. /\ session' = [session EXCEPT !.phase = "running"] /\ tx' = [tx EXCEPT !.due = due]
          /\ session.phase = "warmup"
          /\ UNCHANGED <<now, air, red, rx, report, past>>
        BY <1>5 DEF WarmedUp
    <2>2. due \in Nat /\ due > now
        <3>1. Never \in Nat /\ Never > now
            BY <1>1, Constants DEF Never
        <3> DEFINE q == now \div Interval
        <3>2. q \in Nat /\ now < q * Interval + Interval
            BY <1>1, SlotBounds, SlotNat DEF Slot
        <3>3. (q + 1) * Interval = q * Interval + Interval /\ q * Interval \in Nat
            BY <3>2, Constants
        <3> HIDE DEF q
        <3>4. (q + 1) * Interval \in Nat /\ (q + 1) * Interval > now
            BY <3>2, <3>3, Constants
        <3> QED BY <3>1, <3>4 DEF q
    <2> HIDE DEF due
    <2>3. tx' = [due |-> due, sent |-> tx.sent]
        BY <1>1, <2>1
    <2>4. tx' \in [due : Nat, sent : Seq(Entries)] /\ tx'.due = due /\ tx'.sent = tx.sent
        BY <1>1, <2>2, <2>3
    <2>5. session' \in Sessions /\ session'.phase = "running"
        BY <1>1, <2>1 DEF Sessions, Phases
    <2>6. tx.sent = <<>>
        BY <2>1 DEF TalliesInv, PhaseInv
    <2>7. PhaseInv'
        BY <2>1, <2>4, <2>5 DEF TalliesInv, PhaseInv
    <2>8. due > 0 /\ now <= due + Wake
        BY <1>1, <2>2, Constants
    <2> QED BY <1>3, <2>1, <2>4, <2>5, <2>6, <2>7, <2>8
<1>6. CASE StopSession
    <2>1. /\ session' = [session EXCEPT !.phase = "draining", !.until = now + Grace]
          /\ session.phase = "running" /\ report.pc = "idle"
          /\ UNCHANGED <<now, tx, air, red, rx, report, past>>
        BY <1>6 DEF StopSession
    <2>2. session' = [rt |-> session.rt, phase |-> "draining", synced |-> session.synced,
                      until |-> now + Grace, left |-> session.left]
        BY <1>0, <2>1, ZenonT(30)
    <2>3. now + Grace \in Nat
        BY <1>1
    <2>4. session' \in Sessions /\ session'.phase = "draining"
        BY <1>1, <2>2, <2>3, SessionFields DEF Sessions, Phases
    <2>5. PhaseInv'
        BY <2>1, <2>4 DEF TalliesInv, PhaseInv
    <2>6. tx' \in [due : Nat, sent : Seq(Entries)] /\ tx'.due > 0 /\ tx'.sent = tx.sent
        BY <2>1 DEF TalliesInv, TalliesTypes, TimeInv
    <2> QED BY <1>3, <2>1, <2>4, <2>5, <2>6
<1>7. CASE EndDrain
    <2>1. /\ session' = [session EXCEPT !.phase = "summary"]
          /\ session.phase = "draining"
          /\ UNCHANGED <<now, tx, air, red, rx, report, past>>
        BY <1>7 DEF EndDrain
    <2>2. session' \in Sessions /\ session'.phase = "summary"
        BY <1>1, <2>1 DEF Sessions, Phases
    <2>3. PhaseInv'
        BY <2>1, <2>2 DEF TalliesInv, PhaseInv
    <2>4. tx' \in [due : Nat, sent : Seq(Entries)] /\ tx'.due > 0 /\ tx'.sent = tx.sent
        BY <2>1 DEF TalliesInv, TalliesTypes, TimeInv
    <2> QED BY <1>3, <2>1, <2>2, <2>3, <2>4
<1> QED BY <1>2, <1>4, <1>5, <1>6, <1>7

LEMMA ElapseKept == TalliesInv /\ Elapse => TalliesInv'
<1> SUFFICES ASSUME TalliesInv, Elapse PROVE TalliesInv'
    OBVIOUS
<1>1. /\ now < LastTime /\ now' = now + 1 /\ UNCHANGED <<session, tx, air, red, rx, report, past>>
      /\ \A p \in air : now < p.sent + Trip
      /\ session.phase = "running" /\ ~past.gap => now < tx.due + Wake
    BY DEF Elapse
<1>2. now \in Nat /\ tx.due \in Nat /\ rx.last \in Nat /\ LastTime \in Nat
    BY StateFields, Constants DEF TalliesInv
<1>3. now' \in Nat /\ now' <= LastTime
    BY <1>1, <1>2
<1>4. TalliesTypes'
    BY <1>1, <1>3, ZenonT(30) DEF TalliesInv, TalliesTypes
<1>5. PhaseInv'
    BY <1>1 DEF TalliesInv, PhaseInv, LastPt
<1>6. ASSUME NEW p \in air PROVE Timely(p)'
    <2>1. p.pt \in Nat /\ p.sent \in Nat /\ Timely(p) /\ now < p.sent + Trip
        BY <1>1, StateFields DEF TalliesInv, TimeInv
    <2>2. p.pt <= now + 1 + Latency /\ now + 1 <= p.sent + Trip
        BY <1>2, <2>1, Constants DEF Timely
    <2> QED BY <1>1, <2>1, <2>2 DEF Timely
<1>7. ASSUME NEW i \in DOMAIN tx.sent PROVE Entered(tx.sent[i], now')
    <2>1. tx.sent[i].at \in Nat /\ Entered(tx.sent[i], now)
        BY StateFields DEF TalliesInv, TimeInv
    <2>2. tx.sent[i].at <= now + 1
        BY <1>2, <2>1 DEF Entered
    <2> QED BY <1>1, <2>1, <2>2 DEF Entered
<1>8. session.phase = "running" /\ ~past.gap => now' <= tx.due + Wake
    BY <1>1, <1>2, Constants
<1>9. TimeInv'
    BY <1>1, <1>6, <1>7, <1>8 DEF TalliesInv, TimeInv
<1>10. TallyInv'
    BY <1>1, TallyFrame DEF TalliesInv
<1>11. ASSUME FloorCovers PROVE CursorInv'
    <2>1. CursorInv
        BY <1>11 DEF TalliesInv
    <2>2. rx.last + Trip + Shift + Interval + Wake <= now' + Latency + Floor
        BY <1>1, <1>2, <2>1, Constants DEF CursorInv
    <2> QED BY <1>1, <2>1, <2>2 DEF CursorInv
<1> QED BY <1>4, <1>5, <1>9, <1>10, <1>11 DEF TalliesInv, FloorCovers

----------------------------------------------------------------------------
(* The tracker. *)

LEMMA MapFields ==
    ASSUME NEW m \in Maps
    PROVE  DOMAIN m \in SUBSET Nat /\ (\A s \in DOMAIN m : m[s] \in SUBSET Copies)
<1>1. PICK D \in SUBSET Nat : m \in [D -> SUBSET Copies]
    BY DEF Maps
<1> QED BY <1>1

LEMMA CoverageType ==
    ASSUME NEW m \in Maps, NEW s
    PROVE  Coverage(m, s) \in SUBSET Copies
BY MapFields DEF Coverage

LEMMA ClearFields ==
    ASSUME NEW m \in Maps, NEW s
    PROVE  Clear(m, s) \in Maps /\ \A t : t # s => Coverage(Clear(m, s), t) = Coverage(m, t)
<1>1. DOMAIN m \ {s} \in SUBSET Nat /\ \A t \in DOMAIN m \ {s} : m[t] \in SUBSET Copies
    BY MapFields
<1>2. Clear(m, s) \in [DOMAIN m \ {s} -> SUBSET Copies]
    BY <1>1 DEF Clear
<1>3. Clear(m, s) \in Maps
    BY <1>1, <1>2 DEF Maps
<1>4. ASSUME NEW t, t # s PROVE Coverage(Clear(m, s), t) = Coverage(m, t)
    <2>1. DOMAIN Clear(m, s) = DOMAIN m \ {s} /\ \A x \in DOMAIN m \ {s} : Clear(m, s)[x] = m[x]
        BY DEF Clear
    <2> HIDE DEF Clear
    <2> QED BY <1>4, <2>1 DEF Coverage
<1> QED BY <1>3, <1>4

LEMMA PlacingFields ==
    ASSUME NEW m \in Maps, NEW s \in Nat, NEW c \in SUBSET Copies
    PROVE  LET p == Placing(m, s, c)
           IN  /\ p \in Maps /\ Coverage(p, s) = c
               /\ \A t : t # s /\ t \notin Sharing(m, s) => Coverage(p, t) = Coverage(m, t)
<1> DEFINE D == (DOMAIN m \ Sharing(m, s)) \cup {s}
           p == Placing(m, s, c)
<1>1. p = [t \in D |-> IF t = s THEN c ELSE m[t]]
    BY DEF Placing
<1>2. D \in SUBSET Nat /\ \A t \in D : t # s => t \in DOMAIN m /\ m[t] \in SUBSET Copies
    BY MapFields
<1>5. \A t : t # s /\ t \notin Sharing(m, s) => (t \in D <=> t \in DOMAIN m)
    OBVIOUS
<1>6. s \in D
    OBVIOUS
<1> HIDE DEF D, p
<1>3. p \in [D -> SUBSET Copies]
    BY <1>1, <1>2
<1>4. p \in Maps
    BY <1>2, <1>3 DEF Maps
<1>7. Coverage(p, s) = c
    BY <1>1, <1>6 DEF Coverage
<1>8. ASSUME NEW t, t # s, t \notin Sharing(m, s) PROVE Coverage(p, t) = Coverage(m, t)
    BY <1>1, <1>5, <1>8, ZenonT(30) DEF Coverage
<1> QED BY <1>4, <1>7, <1>8 DEF p

LEMMA RetiredFields ==
    ASSUME NEW r \in Trackers, NEW cov \in SUBSET Copies
    PROVE  LET t == Retired(r, cov)
           IN  /\ t \in Trackers /\ t.ready = r.ready /\ t.cursor = r.cursor + 1 /\ t.primary = r.primary
               /\ t.lost = IF cov = {} THEN r.lost + 1 ELSE r.lost
               /\ t.recovered = IF cov = {"redundant"} THEN r.recovered + 1 ELSE r.recovered
               /\ \A s : s # r.cursor => Coverage(t.map, s) = Coverage(r.map, s)
<1> DEFINE l == IF cov = {} THEN r.lost + 1 ELSE r.lost
           k == IF cov = {"redundant"} THEN r.recovered + 1 ELSE r.recovered
           m == IF cov = {} THEN r.map ELSE Clear(r.map, r.cursor)
           t == Retired(r, cov)
<1>1. r = [map |-> r.map, ready |-> r.ready, cursor |-> r.cursor,
           primary |-> r.primary, recovered |-> r.recovered, lost |-> r.lost]
    BY TrackerFields
<1>2. /\ r.map \in Maps /\ r.ready \in BOOLEAN /\ r.cursor \in Nat
      /\ r.primary \in Nat /\ r.recovered \in Nat /\ r.lost \in Nat
    BY TrackerFields
<1>3. l \in Nat /\ k \in Nat
    BY <1>2
<1>4. m \in Maps /\ \A s : s # r.cursor => Coverage(m, s) = Coverage(r.map, s)
    BY <1>2, ClearFields
<1>5. t = [r EXCEPT !.lost = l, !.recovered = k, !.map = m, !.cursor = r.cursor + 1]
    BY DEF Retired
<1> HIDE DEF m, t, l, k
<1>6. t = [map |-> m, ready |-> r.ready, cursor |-> r.cursor + 1, primary |-> r.primary,
           recovered |-> k, lost |-> l]
    BY <1>1, <1>5, ZenonT(30)
<1>7. t \in Trackers
    BY <1>2, <1>3, <1>4, <1>6 DEF Trackers
<1>8. t.ready = r.ready /\ t.cursor = r.cursor + 1 /\ t.primary = r.primary /\ t.lost = l /\ t.recovered = k /\ t.map = m
    BY <1>6
<1> QED BY <1>4, <1>7, <1>8 DEF t, l, k

\* One more element of an interval, counted when it is in Z.
LEMMA CountStep ==
    ASSUME SetFacts, NEW a \in Int, NEW b \in Int, a <= b, NEW Z
    PROVE  Cardinality({s \in a .. b : s \in Z}) =
               IF b \in Z THEN Cardinality({s \in a .. (b - 1) : s \in Z}) + 1
               ELSE Cardinality({s \in a .. (b - 1) : s \in Z})
<1> DEFINE S == {s \in a .. (b - 1) : s \in Z}
<1>1. IsFiniteSet(S)
    <2>1. IsFiniteSet(a .. (b - 1))
        BY IntervalFact
    <2>2. S \in SUBSET (a .. (b - 1))
        OBVIOUS
    <2> QED BY <2>1, <2>2, SubsetFact
<1>2. b \notin S
    OBVIOUS
<1>3. CASE b \in Z
    <2>1. {s \in a .. b : s \in Z} = S \cup {b}
        BY <1>3
    <2> HIDE DEF S
    <2> QED BY <1>1, <1>2, <1>3, <2>1, AddFact DEF S
<1>4. CASE b \notin Z
    <2>1. {s \in a .. b : s \in Z} = S
        BY <1>4
    <2> QED BY <1>4, <2>1
<1> QED BY <1>3, <1>4

\* retire_slot, with the coverage of the slot as it was when it was read.
LEMMA RetireKept ==
    ASSUME SetFacts, TalliesInv, NEW cov \in SUBSET Copies, report.pc \in {"scan", "settle"},
           ~past.shared => cov = HeardOf(red.cursor),
           red' = Retired(red, cov), report' = Walk(red'), UNCHANGED <<now, session, tx, air, rx, past>>
    PROVE  TalliesInv'
<1>1. /\ red \in Trackers /\ red.cursor \in Nat /\ red.lost \in Nat /\ red.recovered \in Nat
      /\ report \in Reports /\ report.upto \in Int /\ past.first \in Nat
    BY TrackerFields, ReportFields, HistoryFields DEF TalliesInv, TalliesTypes
<1>2. /\ red' \in Trackers /\ red'.ready = red.ready /\ red'.cursor = red.cursor + 1 /\ red'.primary = red.primary
      /\ red'.lost = IF cov = {} THEN red.lost + 1 ELSE red.lost
      /\ red'.recovered = IF cov = {"redundant"} THEN red.recovered + 1 ELSE red.recovered
      /\ \A s : s # red.cursor => Coverage(red'.map, s) = Coverage(red.map, s)
    BY <1>1, RetiredFields
<1>3. red.ready /\ red.cursor < report.upto /\ session.phase \in {"running", "summary"}
    BY ZenonT(30) DEF TalliesInv, PhaseInv
<1>4. /\ report' \in Reports /\ report'.pc \in {"idle", "scan"}
      /\ report'.pc = "scan" => report'.upto = report.upto /\ red.cursor + 1 < report.upto
    <2>1. CASE red'.cursor < report.upto
        <3>1. report' = [report EXCEPT !.pc = "scan", !.found = {}]
            BY <2>1 DEF Walk
        <3> QED BY <1>1, <1>2, <2>1, <3>1, ZenonT(30) DEF Reports
    <2>2. CASE ~(red'.cursor < report.upto)
        BY <2>2 DEF Walk, NoReport, Reports
    <2> QED BY <2>1, <2>2
<1>5. TalliesTypes'
    BY <1>2, <1>4 DEF TalliesInv, TalliesTypes
<1>6. PhaseInv'
    BY <1>2, <1>3, <1>4, ZenonT(30) DEF TalliesInv, PhaseInv
<1>7. TimeInv'
    BY TimeFrame DEF TalliesInv
<1>8. TallyInv'
    <2>1. \A s : HeardOf(s)' = HeardOf(s)
        BY ZenonT(30) DEF HeardOf
    <2>2. past.first <= red.cursor
        BY <1>3 DEF TalliesInv, TallyInv
    <2>3. past.first <= red'.cursor
        BY <1>1, <1>2, <2>2
    <2>4. ASSUME ~past.shared, NEW s \in Nat, Open(red, s)'
          PROVE  Coverage(red'.map, s) = HeardOf(s)'
        <3>1. s # red.cursor /\ Open(red, s)
            BY <1>1, <1>2, <2>4 DEF Open
        <3>2. Coverage(red.map, s) = HeardOf(s)
            BY <1>3, <2>4, <3>1, ZenonT(30) DEF TalliesInv, TallyInv
        <3> QED BY <1>2, <2>1, <3>1, <3>2
    <2>5. SlotsTallied'
        <3> SUFFICES ASSUME ~past.shared PROVE SlotsTallied'
            BY ZenonT(30) DEF SlotsTallied
        <3>1. SlotsTallied /\ cov = HeardOf(red.cursor)
            BY DEF TalliesInv, TallyInv
        <3> DEFINE Z == {s \in Nat : HeardOf(s) = {}}
                   Y == {s \in Nat : HeardOf(s) = {"redundant"}}
                   a == past.first
                   b == red.cursor
        <3>2. /\ red.lost = Cardinality({s \in ClosedSlots : HeardOf(s) = {}})
              /\ red.recovered = Cardinality({s \in ClosedSlots : HeardOf(s) = {"redundant"}})
              /\ red.primary = Cardinality({h \in past.heard : h[2] = "primary"}) + past.behind
            BY <1>3, <3>1, ZenonT(30) DEF SlotsTallied
        <3>3. ClosedSlots = a .. (b - 1) /\ ClosedSlots' = a .. b
            BY <1>1, <1>2 DEF ClosedSlots
        <3>4. \A s \in a .. b : s \in Nat
            BY <1>1
        <3>5. /\ {s \in ClosedSlots : HeardOf(s) = {}} = {s \in a .. (b - 1) : s \in Z}
              /\ {s \in ClosedSlots : HeardOf(s) = {"redundant"}} = {s \in a .. (b - 1) : s \in Y}
            BY <1>1, <3>3, <3>4
        <3>6. /\ {s \in ClosedSlots' : HeardOf(s)' = {}} = {s \in a .. b : s \in Z}
              /\ {s \in ClosedSlots' : HeardOf(s)' = {"redundant"}} = {s \in a .. b : s \in Y}
            BY <2>1, <3>3, <3>4
        <3>7. (b \in Z <=> cov = {}) /\ (b \in Y <=> cov = {"redundant"})
            BY <1>1, <3>1
        <3>8. a \in Int /\ b \in Int /\ a <= b
            BY <1>1, <2>2
        <3> HIDE DEF Z, Y, a, b
        <3>9. /\ red'.lost = Cardinality({s \in a .. b : s \in Z})
              /\ red'.recovered = Cardinality({s \in a .. b : s \in Y})
            BY <1>2, <3>2, <3>5, <3>7, <3>8, CountStep
        <3>10. red'.primary = Cardinality({h \in past'.heard : h[2] = "primary"}) + past'.behind
            BY <1>2, <3>2, ZenonT(30)
        <3> QED BY <3>6, <3>9, <3>10, ZenonT(30) DEF SlotsTallied
    <2> QED BY <1>2, <1>3, <1>4, <2>3, <2>4, <2>5, ZenonT(30) DEF TalliesInv, TallyInv
<1>9. ASSUME FloorCovers PROVE CursorInv'
    <2>1. CursorInv
        BY <1>9 DEF TalliesInv
    <2>2. rx.last \in Nat
        BY StateFields DEF TalliesInv
    <2>3. ASSUME session.phase \notin {"summary", "done"} PROVE red'.cursor * Interval + Floor <= rx.last
        <3>1. report.upto * Interval + Floor <= rx.last
            BY <2>1, <2>3 DEF CursorInv
        <3>2. red.cursor * Interval + Interval <= report.upto * Interval
            BY <1>1, <1>3, SlotOrder
        <3>3. red'.cursor * Interval = red.cursor * Interval + Interval
            BY <1>1, <1>2, Constants
        <3>4. red.cursor * Interval \in Int /\ report.upto * Interval \in Int
            BY <1>1, Constants
        <3> DEFINE x == red.cursor * Interval
                   y == report.upto * Interval
        <3>5. x \in Int /\ y \in Int /\ y + Floor <= rx.last /\ x + Interval <= y
            BY <3>1, <3>2, <3>4
        <3> HIDE DEF x, y
        <3>6. x + Interval + Floor <= rx.last
            BY <2>2, <3>5, Constants
        <3> QED BY <3>3, <3>6 DEF x
    <2> QED BY <1>4, <2>1, <2>3 DEF CursorInv
<1> QED BY <1>5, <1>6, <1>7, <1>8, <1>9 DEF TalliesInv, FloorCovers

LEMMA WalkKept == SetFacts /\ TalliesInv /\ (RetireSlot \/ LoadSlot \/ SettleSlot) => TalliesInv'
<1> SUFFICES ASSUME SetFacts, TalliesInv, RetireSlot \/ LoadSlot \/ SettleSlot PROVE TalliesInv'
    OBVIOUS
<1>1. red \in Trackers /\ red.map \in Maps /\ red.cursor \in Nat /\ report \in Reports /\ report.found \in SUBSET Copies
    BY TrackerFields, ReportFields DEF TalliesInv, TalliesTypes
<1> DEFINE cov == Coverage(red.map, red.cursor)
<1>2. cov \in SUBSET Copies
    BY <1>1, CoverageType
<1>3. report.pc = "scan" /\ ~past.shared => cov = HeardOf(red.cursor)
    <2> SUFFICES ASSUME report.pc = "scan", ~past.shared PROVE cov = HeardOf(red.cursor)
        OBVIOUS
    <2>1. red.ready
        BY DEF TalliesInv, PhaseInv
    <2>2. Open(red, red.cursor)
        BY <1>1 DEF Open
    <2> QED BY <1>1, <2>1, <2>2 DEF TalliesInv, TallyInv
<1> HIDE DEF cov
<1>4. CASE RetireSlot
    <2>1. /\ report.pc = "scan" /\ red' = Retired(red, cov) /\ report' = Walk(red')
          /\ UNCHANGED <<now, session, tx, air, rx, past>>
        BY <1>4, ZenonT(30) DEF RetireSlot, cov
    <2> QED BY <1>2, <1>3, <2>1, RetireKept
<1>5. CASE SettleSlot
    <2>1. /\ report.pc = "settle" /\ red' = Retired(red, report.found) /\ report' = Walk(red')
          /\ UNCHANGED <<now, session, tx, air, rx, past>>
        BY <1>5, ZenonT(30) DEF SettleSlot
    <2>2. ~past.shared => report.found = HeardOf(red.cursor)
        BY <2>1 DEF TalliesInv, TallyInv, PhaseInv
    <2> QED BY <1>1, <2>1, <2>2, RetireKept
<1>6. CASE LoadSlot
    <2>1. /\ report.pc = "scan" /\ report' = [report EXCEPT !.pc = "settle", !.found = cov]
          /\ session.phase # "summary" /\ UNCHANGED <<now, session, tx, air, red, rx, past>>
        BY <1>6 DEF LoadSlot, cov
    <2>2. report' \in Reports /\ report'.pc = "settle" /\ report'.found = cov /\ report'.upto = report.upto
        BY <1>1, <1>2, <2>1, ZenonT(30) DEF Reports
    <2>3. TalliesTypes'
        BY <2>1, <2>2 DEF TalliesInv, TalliesTypes
    <2>4. PhaseInv'
        BY <2>1, <2>2 DEF TalliesInv, PhaseInv, LastPt
    <2>5. TimeInv'
        BY <2>1, TimeFrame DEF TalliesInv
    <2>6. TallyInv'
        <3>1. \A s : HeardOf(s)' = HeardOf(s)
            BY <2>1 DEF HeardOf
        <3>2. ClosedSlots' = ClosedSlots
            BY <2>1 DEF ClosedSlots
        <3>3. \A s : Open(red, s)' => Open(red, s)
            BY <2>1, <2>2 DEF Open
        <3>4. SlotsTallied'
            BY <2>1, <3>1, <3>2, ZenonT(30) DEF TalliesInv, TallyInv, SlotsTallied
        <3> QED BY <1>3, <2>1, <2>2, <3>1, <3>3, <3>4 DEF TalliesInv, TallyInv
    <2>7. ASSUME FloorCovers PROVE CursorInv'
        BY <2>1, <2>2, <2>7 DEF TalliesInv, CursorInv
    <2> QED BY <2>3, <2>4, <2>5, <2>6, <2>7 DEF TalliesInv, FloorCovers
<1> QED BY <1>4, <1>5, <1>6

----------------------------------------------------------------------------
(* Receiving. *)

CursorFor(r, s) == IF r.ready THEN r.cursor ELSE s

LEMMA PlacedFields ==
    ASSUME NEW r \in Trackers, NEW s \in Nat
    PROVE  LET p == Placed(r, s)
           IN  /\ p \in Trackers /\ p.ready /\ p.cursor = CursorFor(r, s) /\ p.map = r.map
               /\ p.primary = r.primary /\ p.lost = r.lost /\ p.recovered = r.recovered
<1>1. CASE r.ready
    BY <1>1 DEF Placed, CursorFor
<1>2. CASE ~r.ready
    <2>1. Placed(r, s) = [map |-> r.map, ready |-> TRUE, cursor |-> s,
                          primary |-> r.primary, recovered |-> r.recovered, lost |-> r.lost]
        <3>1. r = [map |-> r.map, ready |-> r.ready, cursor |-> r.cursor,
                   primary |-> r.primary, recovered |-> r.recovered, lost |-> r.lost]
            BY TrackerFields
        <3>2. Placed(r, s) = [r EXCEPT !.ready = TRUE, !.cursor = s]
            BY <1>2 DEF Placed
        <3> QED BY <3>1, <3>2, ZenonT(30)
    <2> QED BY <1>2, <2>1, TrackerFields DEF CursorFor, Trackers
<1> QED BY <1>1, <1>2

\* What on_primary and on_redundant make of the tracker r.
ArrivedIs(t, r, s, c) ==
    LET cov == Coverage(r.map, s)
    IN  /\ t \in Trackers /\ t.ready /\ t.cursor = CursorFor(r, s)
        /\ t.lost = r.lost /\ t.recovered = r.recovered
        /\ c \in cov => t.map = r.map /\ t.primary = r.primary
        /\ c \notin cov =>
              /\ Coverage(t.map, s) = cov \cup {c}
              /\ \A x : x # s /\ x \notin Sharing(r.map, s) => Coverage(t.map, x) = Coverage(r.map, x)
              /\ t.primary = IF c = "primary" THEN r.primary + 1 ELSE r.primary

LEMMA ArrivedFields ==
    ASSUME NEW r \in Trackers, NEW s \in Nat, NEW c \in Copies
    PROVE  ArrivedIs(Arrived(r, s, c), r, s, c)
<1> DEFINE p == Placed(r, s)
           cov == Coverage(r.map, s)
           t == Arrived(r, s, c)
           m == Placing(r.map, s, cov \cup {c})
           n == IF c = "primary" THEN r.primary + 1 ELSE r.primary
<1>1. /\ p \in Trackers /\ p.ready /\ p.cursor = CursorFor(r, s) /\ p.map = r.map
      /\ p.primary = r.primary /\ p.lost = r.lost /\ p.recovered = r.recovered
    BY PlacedFields
<1>2. r.map \in Maps /\ r.primary \in Nat
    BY TrackerFields
<1>3. cov \in SUBSET Copies
    BY <1>2, CoverageType
<1>4. CASE c \in cov
    <2>1. t = p
        BY <1>1, <1>4, ZenonT(30) DEF Arrived, Covered
    <2> QED BY <1>1, <1>4, <2>1 DEF ArrivedIs
<1>5. CASE c \notin cov
    <2>1. cov \cup {c} \in SUBSET Copies
        BY <1>3
    <2>2. /\ m \in Maps /\ Coverage(m, s) = cov \cup {c}
          /\ \A x : x # s /\ x \notin Sharing(r.map, s) => Coverage(m, x) = Coverage(r.map, x)
        BY <1>2, <2>1, PlacingFields
    <2>3. t = [p EXCEPT !.map = m, !.primary = n]
        BY <1>1, <1>5 DEF Arrived, Covered
    <2>4. n \in Nat
        BY <1>2
    <2>5. p = [map |-> p.map, ready |-> p.ready, cursor |-> p.cursor,
               primary |-> p.primary, recovered |-> p.recovered, lost |-> p.lost]
        BY <1>1, TrackerFields
    <2> HIDE DEF p, m, n, t
    <2>6. t = [map |-> m, ready |-> p.ready, cursor |-> p.cursor,
               primary |-> n, recovered |-> p.recovered, lost |-> p.lost]
        BY <2>3, <2>5, ZenonT(30)
    <2>7. /\ t.map = m /\ t.ready = p.ready /\ t.cursor = p.cursor /\ t.primary = n
          /\ t.recovered = p.recovered /\ t.lost = p.lost
        BY <2>6
    <2>8. t \in Trackers
        BY <1>1, <2>2, <2>4, <2>6, TrackerFields DEF Trackers
    <2>9. c \notin Coverage(r.map, s)
        BY <1>5
    <2>10. t.primary = IF c = "primary" THEN r.primary + 1 ELSE r.primary
        BY <2>7 DEF n
    <2> HIDE DEF cov
    <2>11. /\ t \in Trackers /\ t.ready /\ t.cursor = CursorFor(r, s)
           /\ t.lost = r.lost /\ t.recovered = r.recovered
           /\ Coverage(t.map, s) = cov \cup {c}
           /\ \A x : x # s /\ x \notin Sharing(r.map, s) => Coverage(t.map, x) = Coverage(r.map, x)
        BY <1>1, <2>2, <2>7, <2>8
    <2> QED BY <2>9, <2>10, <2>11 DEF t, cov, ArrivedIs
<1> QED BY <1>4, <1>5

\* The slots that can still be tallied right, with the cursor where the arrival
\* for slot s leaves it.
OpenAt(k, s) == s >= k /\ ~(report.pc = "settle" /\ s = k)

\* The history after the arrival of copy c for slot s.
NotedIs(n, s, c) ==
    LET k == CursorFor(red, s)
        new == c \notin Coverage(red.map, s)
    IN  /\ n \in Histories /\ n.gap = past.gap
        /\ n.first = IF red.ready THEN past.first ELSE s
        /\ n.heard = IF OpenAt(k, s) THEN past.heard \cup {<<s, c>>} ELSE past.heard
        /\ n.behind = IF ~OpenAt(k, s) /\ new /\ c = "primary" THEN past.behind + 1 ELSE past.behind
        /\ n.overdue <=> past.overdue \/ (~OpenAt(k, s) /\ s >= past.first)
        /\ n.shared <=> past.shared \/ (new /\ \E x \in Sharing(red.map, s) : OpenAt(k, x))

LEMMA NotedFields ==
    ASSUME past \in Histories, red \in Trackers, NEW s \in Nat, NEW c \in Copies
    PROVE  NotedIs(Noted(s, c), s, c)
<1> DEFINE r == Placed(red, s)
           k == CursorFor(red, s)
           new == c \notin Coverage(red.map, s)
<1>1. r.map = red.map /\ r.cursor = k
    BY PlacedFields
<1>2. \A x : Open(r, x) <=> OpenAt(k, x)
    BY <1>1 DEF Open, OpenAt
<1>3. PICK o \in BOOLEAN : o <=> past.overdue \/ (~OpenAt(k, s) /\ s >= past.first)
    BY ZenonT(30)
<1>4. PICK sh \in BOOLEAN : sh <=> past.shared \/ (new /\ \E x \in Sharing(red.map, s) : OpenAt(k, x))
    BY ZenonT(30)
<1> DEFINE f == IF red.ready THEN past.first ELSE s
           h == IF OpenAt(k, s) THEN past.heard \cup {<<s, c>>} ELSE past.heard
           b == IF ~OpenAt(k, s) /\ new /\ c = "primary" THEN past.behind + 1 ELSE past.behind
<1>5. past.overdue \in BOOLEAN /\ past.shared \in BOOLEAN
    BY HistoryFields, ZenonT(30)
<1>6. /\ (past.overdue \/ (~Open(r, s) /\ s >= past.first)) = o
      /\ (past.shared \/ (c \notin Coverage(r.map, s) /\ \E x \in Sharing(r.map, s) : Open(r, x))) = sh
    BY <1>1, <1>2, <1>3, <1>4, <1>5
<1>7. Noted(s, c) = [past EXCEPT !.first = f, !.heard = h, !.behind = b, !.overdue = o, !.shared = sh]
    <2>1. /\ f = IF red.ready THEN past.first ELSE s
          /\ h = IF Open(r, s) THEN past.heard \cup {<<s, c>>} ELSE past.heard
          /\ b = IF ~Open(r, s) /\ c \notin Coverage(r.map, s) /\ c = "primary" THEN past.behind + 1 ELSE past.behind
        BY <1>1, <1>2
    <2> HIDE DEF f, h, b
    <2> QED BY <1>6, <2>1, ZenonT(30) DEF Noted
<1>8. f \in Nat /\ h \in SUBSET (Nat \X Copies) /\ b \in Nat
    BY HistoryFields
<1>9. past = [first |-> past.first, heard |-> past.heard, behind |-> past.behind, overdue |-> past.overdue,
              shared |-> past.shared, gap |-> past.gap] /\ past.gap \in BOOLEAN
    BY HistoryFields
<1>10. f = (IF red.ready THEN past.first ELSE s)
    OBVIOUS
<1> HIDE DEF f, h, b, k, r, new
<1>11. Noted(s, c) = [first |-> f, heard |-> h, behind |-> b, overdue |-> o, shared |-> sh, gap |-> past.gap]
    BY <1>7, <1>9, ZenonT(30)
<1> DEFINE n == Noted(s, c)
<1>12. /\ n.first = f /\ n.heard = h /\ n.behind = b /\ n.overdue = o /\ n.shared = sh /\ n.gap = past.gap
       /\ n \in Histories
    BY <1>8, <1>9, <1>11 DEF Histories
<1> HIDE DEF n
<1> QED BY <1>3, <1>4, <1>10, <1>12, ZenonT(30) DEF h, b, k, new, n, NotedIs

Primaries(h) == {x \in h : x[2] = "primary"}

\* The first arrival places the cursor and is all that was heard.
LEMMA FirstTallied ==
    ASSUME SetFacts, TalliesInv, ~red.ready, NEW s \in Nat, NEW c \in Copies, session.phase # "done",
           red' = Arrived(red, s, c), past' = Noted(s, c), report' = report
    PROVE  TallyInv'
<1>20. red \in Trackers /\ past \in Histories
    BY DEF TalliesInv, TalliesTypes
<1>21. ArrivedIs(red', red, s, c) /\ NotedIs(past', s, c)
    BY <1>20, ArrivedFields, NotedFields
<1>1. /\ red \in Trackers /\ past \in Histories /\ red.primary = 0 /\ red.lost = 0 /\ red.recovered = 0
      /\ past.heard = {} /\ DOMAIN red.map = {} /\ past.behind = 0 /\ report.pc # "settle"
    BY ZenonT(30) DEF TalliesInv, TalliesTypes, TallyInv, PhaseInv
<1>2. CursorFor(red, s) = s /\ OpenAt(s, s) /\ \A x : Coverage(red.map, x) = {} /\ Sharing(red.map, x) = {}
    BY <1>1 DEF CursorFor, OpenAt, Coverage, Sharing
<1>3. /\ red' \in Trackers /\ red'.ready /\ red'.cursor = s /\ red'.lost = 0 /\ red'.recovered = 0
      /\ Coverage(red'.map, s) = {c} /\ \A x : x # s => Coverage(red'.map, x) = {}
      /\ red'.primary = IF c = "primary" THEN 1 ELSE 0
    BY <1>1, <1>2, <1>21, ZenonT(30) DEF ArrivedIs
<1>4. /\ past'.first = s /\ past'.heard = {<<s, c>>} /\ past'.behind = 0
    BY <1>1, <1>2, <1>21, ZenonT(30) DEF NotedIs
<1>5. \A x : HeardOf(x)' = IF x = s THEN {c} ELSE {}
    BY <1>4, ZenonT(30) DEF HeardOf
<1>6. ClosedSlots' = {}
    BY <1>3, <1>4 DEF ClosedSlots
<1>7. IsFiniteSet(past'.heard) /\ Cardinality({}) = 0 /\ Cardinality({<<s, c>>}) = 1
    <2>1. IsFiniteSet({<<s, c>>}) /\ Cardinality({<<s, c>>}) = 1
        BY SingleFact, ZenonT(30)
    <2> QED BY <1>4, <2>1, EmptyFact
<1>8. {h \in past'.heard : h[2] = "primary"} = IF c = "primary" THEN {<<s, c>>} ELSE {}
    BY <1>4
<1>9. SlotsTallied'
    <2>1. red'.primary = Cardinality({h \in past'.heard : h[2] = "primary"}) + past'.behind
        <3>1. CASE c = "primary"
            <4>1. {h \in past'.heard : h[2] = "primary"} = {<<s, c>>} /\ red'.primary = 1
                BY <1>3, <1>8, <3>1
            <4> QED BY <1>4, <1>7, <4>1
        <3>2. CASE c # "primary"
            <4>1. {h \in past'.heard : h[2] = "primary"} = {} /\ red'.primary = 0
                BY <1>3, <1>8, <3>2
            <4> QED BY <1>4, <1>7, <4>1
        <3> QED BY <3>1, <3>2
    <2>3. /\ {x \in ClosedSlots' : HeardOf(x)' = {}} = {}
          /\ {x \in ClosedSlots' : HeardOf(x)' = {"redundant"}} = {}
        BY <1>6
    <2> QED BY <1>3, <1>7, <2>1, <2>3, ZenonT(30) DEF SlotsTallied
<1>10. \A x \in Nat : Coverage(red'.map, x) = HeardOf(x)'
    BY <1>3, <1>5
<1> QED BY <1>1, <1>3, <1>4, <1>7, <1>9, <1>10 DEF TallyInv

\* A later arrival changes what is known and what was heard of its slot alike.
LEMMA LaterTallied ==
    ASSUME SetFacts, TalliesInv, red.ready, NEW s \in Nat, NEW c \in Copies,
           red' = Arrived(red, s, c), past' = Noted(s, c), report' = report
    PROVE  TallyInv'
<1>20. red \in Trackers /\ past \in Histories
    BY DEF TalliesInv, TalliesTypes
<1>21. ArrivedIs(red', red, s, c) /\ NotedIs(past', s, c)
    BY <1>20, ArrivedFields, NotedFields
<1> DEFINE k == red.cursor
           cov == Coverage(red.map, s)
<1>1. /\ red \in Trackers /\ past \in Histories /\ past.heard \in SUBSET (Nat \X Copies) /\ past.behind \in Nat
      /\ IsFiniteSet(past.heard) /\ past.first <= k /\ k \in Nat /\ past.first \in Nat /\ red.primary \in Nat
    BY TrackerFields, HistoryFields DEF TalliesInv, TalliesTypes, TallyInv
<1>2. CursorFor(red, s) = k /\ \A x : Open(red, x) <=> OpenAt(k, x)
    BY DEF CursorFor, OpenAt, Open
<1>3. /\ red' \in Trackers /\ red'.ready /\ red'.cursor = k /\ red'.lost = red.lost /\ red'.recovered = red.recovered
      /\ c \in cov => red'.map = red.map /\ red'.primary = red.primary
      /\ c \notin cov =>
             /\ Coverage(red'.map, s) = cov \cup {c}
             /\ \A x : x # s /\ x \notin Sharing(red.map, s) => Coverage(red'.map, x) = Coverage(red.map, x)
             /\ red'.primary = IF c = "primary" THEN red.primary + 1 ELSE red.primary
    BY <1>1, <1>2, <1>21, ZenonT(30) DEF ArrivedIs
<1>4. /\ past'.first = past.first
      /\ past'.heard = IF OpenAt(k, s) THEN past.heard \cup {<<s, c>>} ELSE past.heard
      /\ past'.behind = IF ~OpenAt(k, s) /\ c \notin cov /\ c = "primary" THEN past.behind + 1 ELSE past.behind
      /\ past'.shared <=> past.shared \/ (c \notin cov /\ \E x \in Sharing(red.map, s) : OpenAt(k, x))
    BY <1>1, <1>2, <1>21, ZenonT(30) DEF NotedIs
<1>5. \A x : Open(red, x)' <=> OpenAt(k, x)
    BY <1>3 DEF Open, OpenAt
<1>6. \A x : x # s \/ ~OpenAt(k, s) => HeardOf(x)' = HeardOf(x)
    BY <1>4, ZenonT(30) DEF HeardOf
<1>7. OpenAt(k, s) => HeardOf(s)' = HeardOf(s) \cup {c}
    BY <1>4 DEF HeardOf
<1>8. IsFiniteSet(past'.heard)
    <2>1. IsFiniteSet(past.heard \cup {<<s, c>>})
        BY <1>1, AddFact, ZenonT(30)
    <2> QED BY <1>1, <1>4, <2>1
<1> HIDE DEF k, cov
<1>9. ASSUME ~past'.shared
      PROVE  /\ ~past.shared
             /\ \A x \in Nat : Open(red, x)' => Coverage(red'.map, x) = HeardOf(x)'
             /\ (report.pc = "settle" => report.found = HeardOf(red.cursor))'
             /\ SlotsTallied'
    <2>1. ~past.shared /\ (c \notin cov => \A x \in Sharing(red.map, s) : ~OpenAt(k, x))
        BY <1>4, <1>9, ZenonT(30)
    <2>2. \A x \in Nat : OpenAt(k, x) => Coverage(red.map, x) = HeardOf(x)
        BY <1>2, <2>1, ZenonT(30) DEF TalliesInv, TallyInv
    <2>3. OpenAt(k, s) => cov = HeardOf(s)
        BY <2>2 DEF cov
    <2>4. ASSUME NEW x \in Nat, OpenAt(k, x) PROVE Coverage(red'.map, x) = HeardOf(x)'
        <3>1. CASE c \in cov
            BY <1>3, <1>6, <1>7, <2>2, <2>3, <2>4, <3>1
        <3>2. CASE c \notin cov /\ x = s
            BY <1>3, <1>7, <2>3, <2>4, <3>2
        <3>3. CASE c \notin cov /\ x # s
            BY <1>3, <1>6, <2>1, <2>2, <2>4, <3>3
        <3> QED BY <3>1, <3>2, <3>3
    <2>5. (report.pc = "settle" => report.found = HeardOf(red.cursor))'
        <3> SUFFICES ASSUME report.pc = "settle" PROVE report.found = HeardOf(red.cursor)'
            OBVIOUS
        <3>1. report.found = HeardOf(k)
            BY <2>1, ZenonT(30) DEF TalliesInv, TallyInv, k
        <3>2. k # s \/ ~OpenAt(k, s)
            BY DEF OpenAt
        <3>3. HeardOf(red.cursor)' = {y \in Copies : <<red'.cursor, y>> \in past'.heard}
            BY DEF HeardOf
        <3>4. \A y : <<k, y>> \in past'.heard <=> <<k, y>> \in past.heard
            BY <1>4, <3>2
        <3>5. HeardOf(k) = {y \in Copies : <<k, y>> \in past.heard}
            BY DEF HeardOf
        <3> QED BY <1>3, <3>1, <3>3, <3>4, <3>5
    <2>6. SlotsTallied'
        <3>1. /\ red.lost = Cardinality({x \in ClosedSlots : HeardOf(x) = {}})
              /\ red.recovered = Cardinality({x \in ClosedSlots : HeardOf(x) = {"redundant"}})
              /\ red.primary = Cardinality(Primaries(past.heard)) + past.behind
            BY <2>1, ZenonT(30) DEF TalliesInv, TallyInv, SlotsTallied, Primaries
        <3>2. ClosedSlots' = ClosedSlots /\ ClosedSlots = past.first .. (k - 1)
            BY <1>3, <1>4 DEF ClosedSlots, k
        <3>3. \A x \in ClosedSlots : HeardOf(x)' = HeardOf(x)
            BY <1>1, <1>6, <3>2 DEF OpenAt, k
        <3>4. /\ {x \in ClosedSlots' : HeardOf(x)' = {}} = {x \in ClosedSlots : HeardOf(x) = {}}
              /\ {x \in ClosedSlots' : HeardOf(x)' = {"redundant"}} = {x \in ClosedSlots : HeardOf(x) = {"redundant"}}
            BY <3>2, <3>3, ZenonT(30)
        <3>5. IsFiniteSet(Primaries(past.heard)) /\ Cardinality(Primaries(past.heard)) \in Nat
            <4>1. Primaries(past.heard) \in SUBSET past.heard
                BY DEF Primaries
            <4> QED BY <1>1, <4>1, SubsetFact, SizeFact
        <3>6. red'.primary = Cardinality(Primaries(past'.heard)) + past'.behind
            <4>1. CASE c \in cov
                <5>1. OpenAt(k, s) => <<s, c>> \in past.heard
                    BY <2>3, <4>1, ZenonT(30) DEF HeardOf
                <5>2. past'.heard = past.heard /\ past'.behind = past.behind
                    BY <1>4, <4>1, <5>1, ZenonT(30)
                <5> QED BY <1>3, <3>1, <4>1, <5>2, ZenonT(30)
            <4>2. CASE c \notin cov /\ c # "primary"
                <5>1. Primaries(past'.heard) = Primaries(past.heard)
                    BY <1>4, <4>2 DEF Primaries
                <5>2. red'.primary = red.primary /\ past'.behind = past.behind
                    BY <1>3, <1>4, <4>2, ZenonT(30)
                <5> QED BY <3>1, <5>1, <5>2
            <4>3. CASE c \notin cov /\ c = "primary" /\ OpenAt(k, s)
                <5>1. <<s, c>> \notin past.heard
                    BY <2>3, <4>3, ZenonT(30) DEF HeardOf
                <5>2. Primaries(past'.heard) = Primaries(past.heard) \cup {<<s, c>>} /\ <<s, c>> \notin Primaries(past.heard)
                    BY <1>4, <4>3, <5>1 DEF Primaries
                <5>3. Cardinality(Primaries(past'.heard)) = Cardinality(Primaries(past.heard)) + 1
                    BY <3>5, <5>2, AddFact, ZenonT(30)
                <5>4. red'.primary = red.primary + 1 /\ past'.behind = past.behind
                    BY <1>3, <1>4, <4>3, ZenonT(30)
                <5> QED BY <1>1, <3>1, <3>5, <5>3, <5>4
            <4>4. CASE c \notin cov /\ c = "primary" /\ ~OpenAt(k, s)
                <5>1. past'.heard = past.heard /\ past'.behind = past.behind + 1 /\ red'.primary = red.primary + 1
                    BY <1>3, <1>4, <4>4, ZenonT(30)
                <5> QED BY <1>1, <3>1, <3>5, <5>1
            <4> QED BY <4>1, <4>2, <4>3, <4>4, ZenonT(30)
        <3> QED BY <1>3, <3>1, <3>4, <3>6, ZenonT(30) DEF SlotsTallied, Primaries
    <2> QED BY <1>5, <2>1, <2>4, <2>5, <2>6
<1>10. past'.shared => SlotsTallied'
    BY ZenonT(30) DEF SlotsTallied
<1>11. past'.first <= red'.cursor
    BY <1>1, <1>3, <1>4 DEF k
<1> QED BY <1>3, <1>8, <1>9, <1>10, <1>11, ZenonT(30) DEF TallyInv

\* The arithmetic of the grace: a copy whose slot the cursor has passed would be
\* older than the way, the shift, an interval and the delay of the loop.
LEMMA NotOverdue ==
    ASSUME NEW pt \in Nat, NEW n \in Nat, NEW sent \in Nat, NEW last \in Nat, NEW s \in Nat, NEW u \in Int,
           pt < s * Interval + Interval, s < u, u * Interval + Floor <= last,
           last + Trip + Shift + Interval + Wake <= n + Latency + Floor,
           n <= sent + Trip, sent + Latency <= pt + Shift + Interval + Wake
    PROVE  FALSE
<1> DEFINE a == s * Interval
           b == u * Interval
<1>1. a + Interval <= b /\ a \in Int /\ b \in Int
    BY SlotOrder, Constants
<1>2. pt < a + Interval /\ b + Floor <= last
    OBVIOUS
<1> HIDE DEF a, b
<1>3. pt + Floor < last
    BY <1>1, <1>2, Constants
<1>4. n + Latency <= pt + Shift + Interval + Wake + Trip
    BY Constants
<1> QED BY <1>3, <1>4, Constants

\* A copy of our own is back: on_primary, on_redundant and the history of it.
LEMMA HeededKept ==
    ASSUME SetFacts, TalliesInv, NEW p \in air, Listening, Heeded(p.pt), Own(p), UNCHANGED <<now, tx, report>>,
           air' \in SUBSET air, session' \in Sessions, session'.phase = session.phase,
           session'.synced = session.synced
    PROVE  TalliesInv'
<1> DEFINE s == Slot(p.pt)
           c == p.copy
           l == Larger(rx.last, p.pt)
<1>1. /\ p.copy \in Copies /\ p.pt \in Nat /\ p.sent \in Nat /\ now \in Nat /\ rx.last \in Nat /\ rx.longest \in Nat
      /\ red \in Trackers /\ past \in Histories /\ red.cursor \in Nat /\ report.upto \in Int /\ past.first \in Nat
    BY StateFields, TrackerFields, ReportFields, HistoryFields, ZenonT(30) DEF TalliesInv, TalliesTypes
<1>2. Timely(p) /\ session.phase \in {"warmup", "running", "draining"} /\ tx.sent # <<>>
    BY ZenonT(30) DEF TalliesInv, TimeInv, PhaseInv, Listening
<1>3. s \in Nat /\ p.pt < s * Interval + Interval
    BY <1>1, SlotNat, SlotBounds
<1>4. red' = Arrived(red, s, c) /\ past' = Noted(s, c) /\ rx'.last = l
    BY DEF Own
<1>5. rx' \in [last : Nat, longest : Nat]
    <2> DEFINE g == IF Feeds(p) THEN Larger(rx.longest, now - p.pt + Latency) ELSE rx.longest
    <2>1. rx' = [last |-> l, longest |-> g]
        BY ZenonT(30) DEF Own
    <2>2. l \in Nat /\ g \in Nat
        BY <1>1, Constants DEF Larger
    <2> HIDE DEF l, g
    <2> QED BY <2>1, <2>2, ZenonT(30)
<1>6. l \in Nat /\ l >= rx.last /\ l > 0 /\ (l = rx.last \/ l = p.pt)
    BY <1>1, <1>2 DEF Larger, Timely
<1> HIDE DEF s, c, l
<1>7. c \in Copies
    BY <1>1 DEF c
<1>8. ArrivedIs(red', red, s, c) /\ NotedIs(past', s, c)
    BY <1>1, <1>3, <1>4, <1>7, ArrivedFields, NotedFields, ZenonT(30)
<1>9. /\ red' \in Trackers /\ red'.ready /\ red'.cursor = CursorFor(red, s)
      /\ past' \in Histories /\ past'.gap = past.gap /\ past'.first = IF red.ready THEN past.first ELSE s
      /\ past'.overdue <=> past.overdue \/ (~OpenAt(CursorFor(red, s), s) /\ s >= past.first)
    BY <1>8, ZenonT(30) DEF ArrivedIs, NotedIs
<1>10. TalliesTypes'
    <2>1. air' \in SUBSET Datagrams
        BY DEF TalliesInv, TalliesTypes
    <2> QED BY <1>5, <1>9, <2>1, ZenonT(30) DEF TalliesInv, TalliesTypes
<1>11. PhaseInv'
    <2>1. report.pc \in {"scan", "settle"} => red'.cursor < report.upto
        BY <1>9, ZenonT(30) DEF TalliesInv, PhaseInv, CursorFor
    <2> QED BY <1>2, <1>4, <1>6, <1>9, <2>1, ZenonT(30) DEF TalliesInv, PhaseInv
<1>12. TimeInv'
    <2>1. \A x : Timely(x)' <=> Timely(x)
        BY <1>9, ZenonT(30) DEF Timely
    <2> QED BY <1>9, <2>1, ZenonT(30) DEF TalliesInv, TimeInv
<1>13. TallyInv'
    <2>1. CASE red.ready
        BY <1>3, <1>4, <1>7, <2>1, LaterTallied, ZenonT(30)
    <2>2. CASE ~red.ready
        BY <1>2, <1>3, <1>4, <1>7, <2>2, FirstTallied, ZenonT(30)
    <2> QED BY <2>1, <2>2
<1>14. ASSUME FloorCovers PROVE CursorInv'
    <2>1. CursorInv
        BY <1>14 DEF TalliesInv
    <2>2. l + Trip + Shift + Interval + Wake <= now + Latency + Floor
        <3>1. Floor >= Trip + Shift + Interval + Wake + Latency - Latency
            BY <1>14 DEF FloorCovers
        <3>2. p.pt <= now + Latency
            BY <1>2, ZenonT(30) DEF Timely
        <3>3. rx.last + Trip + Shift + Interval + Wake <= now + Latency + Floor
            BY <2>1 DEF CursorInv
        <3>4. CASE l = rx.last
            BY <3>3, <3>4, ZenonT(30)
        <3>5. CASE l = p.pt
            BY <1>1, <3>1, <3>2, <3>5, Constants
        <3> QED BY <1>6, <3>4, <3>5
    <2>3. report.pc \in {"scan", "settle"} => report.upto * Interval + Floor <= l
        <3> SUFFICES ASSUME report.pc \in {"scan", "settle"} PROVE report.upto * Interval + Floor <= l
            BY ZenonT(30)
        <3>1. report.upto * Interval + Floor <= rx.last
            BY <1>2, <2>1, ZenonT(30) DEF CursorInv
        <3>2. report.upto * Interval \in Int
            BY <1>1, Constants
        <3> QED BY <1>1, <1>6, <3>1, <3>2, Constants
    <2>4. red'.cursor > past'.first => red'.cursor * Interval + Floor <= l
        <3> SUFFICES ASSUME red'.cursor > past'.first PROVE red'.cursor * Interval + Floor <= l
            BY ZenonT(30)
        <3>1. red.ready /\ red'.cursor = red.cursor /\ past'.first = past.first
            BY <1>3, <1>9 DEF CursorFor
        <3>2. red.cursor * Interval + Floor <= rx.last
            BY <1>2, <2>1, <3>1, ZenonT(30) DEF CursorInv
        <3>3. red.cursor * Interval \in Int
            BY <1>1, Constants
        <3> QED BY <1>1, <1>6, <3>1, <3>2, <3>3, Constants
    <2>5. ASSUME past'.overdue, ~past.gap PROVE FALSE
        <3>1. ~OpenAt(CursorFor(red, s), s) /\ s >= past.first
            BY <1>9, <2>1, <2>5, ZenonT(30) DEF CursorInv
        <3>2. red.ready
            <4> SUFFICES ASSUME ~red.ready PROVE FALSE
                BY ZenonT(30)
            <4>1. report.pc # "settle" /\ CursorFor(red, s) = s
                BY ZenonT(30) DEF TalliesInv, PhaseInv, CursorFor
            <4> QED BY <1>3, <3>1, <4>1 DEF OpenAt
        <3>3. s < red.cursor \/ (report.pc = "settle" /\ s = red.cursor)
            BY <1>1, <1>3, <3>1, <3>2 DEF OpenAt, CursorFor
        <3>4. PICK u \in Int : s < u /\ u * Interval + Floor <= rx.last
            <4>1. CASE s < red.cursor
                <5>1. red.cursor > past.first
                    BY <1>1, <1>3, <3>1, <4>1
                <5> QED BY <1>1, <1>2, <2>1, <3>2, <4>1, <5>1 DEF CursorInv
            <4>2. CASE report.pc = "settle" /\ s = red.cursor
                <5>1. red.cursor < report.upto
                    BY <4>2, ZenonT(30) DEF TalliesInv, PhaseInv
                <5> QED BY <1>1, <1>2, <2>1, <4>2, <5>1 DEF CursorInv
            <4> QED BY <3>3, <4>1, <4>2, ZenonT(30)
        <3>5. /\ now <= p.sent + Trip /\ p.sent + Latency <= p.pt + Shift + Interval + Wake
              /\ rx.last + Trip + Shift + Interval + Wake <= now + Latency + Floor
            BY <1>2, <2>1, <2>5, ZenonT(30) DEF Timely, CursorInv
        <3> QED BY <1>1, <1>3, <3>4, <3>5, NotOverdue, ZenonT(30)
    <2> QED BY <1>4, <1>9, <2>1, <2>2, <2>3, <2>4, <2>5, ZenonT(30) DEF CursorInv
<1> QED BY <1>10, <1>11, <1>12, <1>13, <1>14, ZenonT(30) DEF TalliesInv, FloorCovers

LEMMA ReceiveKept ==
    ASSUME SetFacts, TalliesInv, NEW p \in air, Receive(p)
    PROVE  TalliesInv'
<1>1. /\ Listening /\ Own(p) /\ UNCHANGED <<now, tx, report>> /\ air' \in SUBSET air
      /\ session' \in Sessions /\ session'.phase = session.phase /\ session'.synced = session.synced
    <2>1. session \in Sessions
        BY DEF TalliesInv, TalliesTypes
    <2>2. session' = session \/ Mishap
        BY DEF Receive
    <2>3. session' \in Sessions /\ session'.phase = session.phase /\ session'.synced = session.synced
        BY <2>1, <2>2, MishapFields, ZenonT(30)
    <2> QED BY <2>3 DEF Receive
<1>2. CASE Heeded(p.pt)
    BY <1>1, <1>2, HeededKept
<1>3. CASE ~Heeded(p.pt)
    <2>1. UNCHANGED <<rx, red, past>>
        BY <1>1, <1>3 DEF Own
    <2>2. TalliesTypes'
        <3>1. air' \in SUBSET Datagrams
            BY <1>1 DEF TalliesInv, TalliesTypes
        <3> QED BY <1>1, <2>1, <3>1, ZenonT(30) DEF TalliesInv, TalliesTypes
    <2>3. PhaseInv'
        BY <1>1, <2>1, ZenonT(30) DEF TalliesInv, PhaseInv, LastPt
    <2>4. \A x : Timely(x)' <=> Timely(x)
        BY <1>1, <2>1, ZenonT(30) DEF Timely
    <2>5. TimeInv'
        BY <1>1, <2>1, <2>4, ZenonT(30) DEF TalliesInv, TimeInv
    <2>6. TallyInv'
        BY <1>1, <2>1, TallyFrame, ZenonT(30) DEF TalliesInv
    <2>7. FloorCovers => CursorInv'
        BY <1>1, <2>1, CursorFrame DEF TalliesInv
    <2> QED BY <2>2, <2>3, <2>5, <2>6, <2>7, ZenonT(30) DEF TalliesInv, FloorCovers
<1> QED BY <1>2, <1>3, ZenonT(30)

----------------------------------------------------------------------------
(* The whole session. *)

LEMMA SessionStart == SetFacts /\ SessionInit => SessionInv
<1> SUFFICES ASSUME SetFacts, SessionInit PROVE SessionInv
    OBVIOUS
<1>1. /\ now = 0 /\ air = {} /\ red = NewTracker /\ rx = [last |-> 0, longest |-> 0] /\ report = NoReport
      /\ past = [first |-> 0, heard |-> {}, behind |-> 0, overdue |-> FALSE, shared |-> FALSE, gap |-> FALSE]
    BY ZenonT(30) DEF SessionInit
<1>2. PICK due \in {Interval, Never} : tx = [due |-> due, sent |-> <<>>]
    BY ZenonT(30) DEF SessionInit
<1>3. PICK rt \in BOOLEAN, synced \in BOOLEAN :
         session = [rt |-> rt, phase |-> IF rt THEN "warmup" ELSE "running", synced |-> synced,
                    until |-> 0, left |-> Mishaps]
    BY ZenonT(30) DEF SessionInit
<1>4. due \in Nat /\ due > 0 /\ tx.due = due /\ tx.sent = <<>>
    BY <1>2, Constants DEF Never
<1>5. session \in Sessions /\ session.phase \in {"warmup", "running"}
    <2>1. Mishaps \in Nat
        BY SessionAssumption
    <2>2. CASE rt
        BY <1>3, <2>1, <2>2 DEF Sessions, Phases
    <2>3. CASE ~rt
        BY <1>3, <2>1, <2>3, ZenonT(30) DEF Sessions, Phases
    <2> QED BY <2>2, <2>3
<1>6. red \in Trackers /\ ~red.ready /\ DOMAIN red.map = {} /\ red.lost = 0 /\ red.recovered = 0 /\ red.primary = 0
    <2>1. <<>> \in [{} -> SUBSET Copies]
        OBVIOUS
    <2>2. <<>> \in Maps
        BY <2>1, ZenonT(30) DEF Maps
    <2> QED BY <1>1, <2>2 DEF NewTracker, Trackers
<1>7. report \in Reports /\ report.pc = "idle"
    BY <1>1 DEF NoReport, Reports
<1>8. past \in Histories /\ past.heard = {} /\ past.behind = 0 /\ past.overdue = FALSE /\ past.gap = FALSE
    BY <1>1, ZenonT(30) DEF Histories
<1>9. TalliesTypes
    <2>1. tx \in [due : Nat, sent : Seq(Entries)]
        BY <1>2, <1>4
    <2>2. now \in Nat /\ now <= LastTime
        BY <1>1, Constants
    <2>3. rx \in [last : Nat, longest : Nat] /\ air \in SUBSET Datagrams
        BY <1>1
    <2> QED BY <1>5, <1>6, <1>7, <1>8, <2>1, <2>2, <2>3, ZenonT(30) DEF TalliesTypes
<1>10. PhaseInv
    BY <1>1, <1>4, <1>5, <1>6, <1>7, ZenonT(30) DEF PhaseInv
<1>11. TimeInv
    <2>1. DOMAIN tx.sent = {}
        BY <1>4
    <2>2. now <= tx.due + Wake
        BY <1>1, <1>4, Constants
    <2> QED BY <1>1, <1>4, <2>1, <2>2, ZenonT(30) DEF TimeInv
<1>12. TallyInv
    BY <1>6, <1>8, EmptyFact, ZenonT(30) DEF TallyInv, SlotsTallied
<1>13. FloorCovers => CursorInv
    <2> SUFFICES ASSUME FloorCovers PROVE CursorInv
        BY ZenonT(30)
    <2>1. Floor >= Trip + Shift + Interval + Wake + Latency - Latency /\ rx.last = 0
        BY <1>1 DEF FloorCovers
    <2>2. rx.last + Trip + Shift + Interval + Wake <= now + Latency + Floor
        BY <1>1, <2>1, Constants
    <2> QED BY <1>6, <1>7, <1>8, <2>2 DEF CursorInv
<1>14. SourcesInv
    <2>1. /\ sources = [i \in 1 .. MaxSources |-> NoSource] /\ heardAt = [u \in Senders |-> -1]
          /\ SeqWrap \in Nat \ {0}
        BY SessionAssumption, ZenonT(30) DEF SessionInit
    <2>2. NoSource \in Slots /\ ~NoSource.used
        BY <2>1 DEF NoSource, Slots
    <2>3. /\ sources \in [1 .. MaxSources -> Slots] /\ \A i \in 1 .. MaxSources : ~sources[i].used
          /\ DOMAIN sources = 1 .. MaxSources
        BY <2>1, <2>2
    <2>4. /\ heardAt \in [Senders -> Nat \cup {-1}]
          /\ \A u \in Senders : heardAt[u] <= now /\ ~(heardAt[u] >= 0)
        BY <1>1, <2>1
    <2> QED BY <2>3, <2>4 DEF SourcesInv, SourcesKept
<1>15. SinkInv
    <2>1. sink = [ring |-> 0, appended |-> 0, dropped |-> 0, written |-> 0, failed |-> 0,
                  err |-> FALSE, stop |-> FALSE, pc |-> "drain"]
        BY ZenonT(30) DEF SessionInit
    <2> QED BY <2>1 DEF SinkInv, Sinks, RecordsAccounted
<1> QED BY <1>9, <1>10, <1>11, <1>12, <1>13, <1>14, <1>15 DEF SessionInv, TalliesInv

LEMMA TalliesStepKept == SetFacts /\ TalliesInv /\ TalliesStep => TalliesInv'
<1> SUFFICES ASSUME SetFacts, TalliesInv, TalliesStep PROVE TalliesInv'
    OBVIOUS
<1>1. ASSUME NEW d \in Skews, ReceiveRedundant(now + d) PROVE TalliesInv'
    BY <1>1, RemoteKept DEF ReceiveRedundant
<1> QED BY <1>1, SendPollingKept, SendRealtimeKept, ReceiveKept, ReadGraceKept, StartScanKept, StartFlushKept,
           WalkKept, PhaseStepKept, ElapseKept DEF TalliesStep

LEMMA TalliesIdle == TalliesInv /\ UNCHANGED <<now, talliesVars>> => TalliesInv'
<1> SUFFICES ASSUME TalliesInv, UNCHANGED <<now, talliesVars>> PROVE TalliesInv'
    OBVIOUS
<1>1. UNCHANGED <<now, session, tx, air, red, rx, report, past>>
    BY DEF talliesVars
<1>2. TalliesTypes'
    BY <1>1, ZenonT(30) DEF TalliesInv, TalliesTypes
<1>3. PhaseInv'
    BY <1>1 DEF TalliesInv, PhaseInv, LastPt
<1>4. TimeInv' /\ TallyInv' /\ (FloorCovers => CursorInv')
    BY <1>1, TimeFrame, TallyFrame, CursorFrame DEF TalliesInv
<1> QED BY <1>2, <1>3, <1>4 DEF TalliesInv, FloorCovers

LEMMA TimeMoves == TalliesInv /\ TalliesStep => now' \in Nat /\ now' >= now
<1> SUFFICES ASSUME TalliesInv, TalliesStep PROVE now' \in Nat /\ now' >= now
    OBVIOUS
<1>1. now \in Nat
    BY StateFields DEF TalliesInv
<1>2. now' = now \/ now' = now + 1
    BY DEF TalliesStep, SendPolling, SendRealtime, Receive, ReceiveRedundant, ReadGrace, StartScan, StartFlush,
           RetireSlot, LoadSlot, SettleSlot, LoseSync, GainSync, WarmedUp, StopSession, EndDrain, Elapse
<1> QED BY <1>1, <1>2

LEMMA SessionStepKept == SetFacts /\ SessionInv /\ [SessionNext]_sessionVars => SessionInv'
<1> SUFFICES ASSUME SetFacts, SessionInv, [SessionNext]_sessionVars PROVE SessionInv'
    OBVIOUS
<1>0. TalliesInv /\ SourcesInv /\ SinkInv /\ now \in Nat
    BY StateFields DEF SessionInv, TalliesInv
<1>1. CASE TalliesStep /\ UNCHANGED <<sourcesVars, sink>>
    <2>1. TalliesInv' /\ now' \in Nat /\ now' >= now
        BY <1>0, <1>1, TalliesStepKept, TimeMoves
    <2>2. SourcesInv' /\ SinkInv'
        BY <1>0, <1>1, <2>1, SourcesIdle, SinkStepKept
    <2> QED BY <2>1, <2>2 DEF SessionInv
<1>2. CASE SourcesStep /\ UNCHANGED sink
    <2>1. PICK u \in Senders, q \in 0 .. (SeqWrap - 1), d \in Skews : ReceiveRemote(u, q, now + d)
        BY <1>2 DEF SourcesStep
    <2>2. TalliesInv'
        BY <1>0, <2>1, RemoteKept DEF ReceiveRemote
    <2>3. SourcesInv'
        BY <1>0, <2>1, SourcesStepKept
    <2>4. SinkInv'
        BY <1>0, <1>2, SinkStepKept
    <2> QED BY <2>2, <2>3, <2>4 DEF SessionInv
<1>3. CASE SinkStep /\ UNCHANGED <<now, talliesVars, sourcesVars>>
    <2>1. UNCHANGED <<now, talliesVars>> /\ UNCHANGED sourcesVars /\ now' = now
        BY <1>3
    <2>2. TalliesInv' /\ SourcesInv'
        BY <1>0, <2>1, TalliesIdle, SourcesIdle
    <2> QED BY <1>0, <1>3, <2>2, SinkStepKept DEF SessionInv
<1>4. CASE UNCHANGED sessionVars
    <2>1. UNCHANGED <<now, talliesVars>> /\ UNCHANGED sourcesVars /\ now' = now /\ sink' = sink
        BY <1>4 DEF sessionVars
    <2>2. TalliesInv' /\ SourcesInv'
        BY <1>0, <2>1, TalliesIdle, SourcesIdle
    <2> QED BY <1>0, <2>1, <2>2, SinkStepKept DEF SessionInv
<1> QED BY <1>1, <1>2, <1>3, <1>4 DEF SessionNext

-----------------------------------------------------------------------------
(***************************************************************************)
(* The facts assumed so far, from the library.                             *)
(***************************************************************************)
INSTANCE FiniteSetTheorems

\* A set of natural numbers that is not empty has a least element.
LEMMA LeastExists ==
    ASSUME NEW S \in SUBSET Nat, S # {}
    PROVE  \E n \in S : \A m \in S : n <= m
<1> DEFINE R == {ss \in Nat \X Nat : ss[1] < ss[2]}
<1>1. IsWellFoundedOn(R, Nat)
  BY NatLessThanWellFounded DEF OpToRel
<1> HIDE DEF R
<1>2. PICK n \in S : \A m \in S : ~(<<m, n>> \in R)
  BY <1>1, WFMin, ZenonT(30)
<1>3. ASSUME NEW a \in Nat, NEW b \in Nat, a < b PROVE <<a, b>> \in R
  BY <1>3 DEF R
<1>4. \A m \in S : m \in Nat /\ n \in Nat /\ ~(m < n)
  BY <1>2, <1>3, ZenonT(30)
<1> QED BY <1>4

LEMMA SetFactsHold == SetFacts
<1>1. \A S : IsFiniteSet(S) => Cardinality(S) \in Nat
  BY FS_CardinalityType, ZenonT(30)
<1>2. \A S : IsFiniteSet(S) =>
        \A T \in SUBSET S : IsFiniteSet(T) /\ Cardinality(T) <= Cardinality(S)
  BY FS_Subset, ZenonT(30)
<1>3. \A S, x : IsFiniteSet(S) =>
        /\ IsFiniteSet(S \cup {x})
        /\ Cardinality(S \cup {x}) = IF x \in S THEN Cardinality(S)
                                               ELSE Cardinality(S) + 1
  BY FS_AddElement, ZenonT(30)
<1>4. \A a, b \in Int : IsFiniteSet(a .. b)
  BY FS_Interval, ZenonT(30)
<1>5. \A S \in SUBSET Nat : S # {} => \E n \in S : \A m \in S : n <= m
  BY LeastExists, ZenonT(30)
<1>6. \A x : IsFiniteSet({x}) /\ Cardinality({x}) = 1
  BY FS_Singleton, ZenonT(30)
<1> QED BY <1>1, <1>2, <1>3, <1>4, <1>5, <1>6, FS_EmptySet, ZenonT(30) DEF SetFacts

\* What the session reports is what happened (SessionAgrees): each slot behind
\* the cursor is in the one tally its arrivals call for, whatever the order of
\* arrivals and the walk of the reporter's thread; no copy comes for a slot that
\* was tallied without it while the session keeps its sync and the floor of the
\* grace covers the way and the shift; the summary leaves no slot out; the slots
\* of the remote senders are those heard last; and every record of the sink is
\* written, dropped or counted as failed.
THEOREM SessionCorrect == SessionSpec => []SessionAgrees
<1>1. SessionInv => SessionAgrees
    <2>1. FloorCovers /\ CursorInv /\ ~past.gap => ~past.overdue
        BY DEF CursorInv
    <2>2. SessionInv => GraceCovers
        BY <2>1 DEF SessionInv, TalliesInv, GraceCovers, FloorCovers
    <2>3. SessionInv => SlotsTallied /\ AllTallied /\ SourcesKept /\ RecordsAccounted
        BY ZenonT(30) DEF SessionInv, TalliesInv, TallyInv, PhaseInv, AllTallied, SourcesInv, SinkInv
    <2> QED BY <2>2, <2>3 DEF SessionAgrees
<1> QED BY <1>1, SetFactsHold, SessionStart, SessionStepKept, PTL DEF SessionSpec

=============================================================================
