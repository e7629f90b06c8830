-------------------------------- MODULE Maap --------------------------------
(***************************************************************************)
(* MaapHandler (src/statusbar/avtp) on several stations of one LAN, each   *)
(* with the MaapAddressAcquirer that publishes the acquired block to its   *)
(* talker (src/statusbar/avb_entity/avb_entity_maap.hpp).  A station       *)
(* claims a block of consecutive addresses of the dynamic pool by probing, *)
(* and defends it.  An address is its offset in the pool; a station's MAC  *)
(* is its place in the order of compare_mac.                               *)
(***************************************************************************)
EXTENDS Integers, Sequences

CONSTANTS Nodes,
          Rank,             \* the MACs in compare_mac's order
          PoolSize,
          Counts,           \* the block sizes acquire() is called with
          ProbeRetransmits,
          Lossy,            \* frames may be lost or late
          Window            \* frames in flight from one station to another

ASSUME MaapAssumption ==
    /\ Rank \in [Nodes -> Nat]
    /\ \A n, m \in Nodes : Rank[n] = Rank[m] => n = m
    /\ PoolSize \in Nat \ {0}
    /\ Counts \subseteq 1..PoolSize
    /\ ProbeRetransmits \in Nat
    /\ Lossy \in BOOLEAN
    /\ Window \in Nat \ {0}

VARIABLES node,     \* MaapHandler and MaapAddressAcquirer of each station
          net       \* net[n][m]: the frames on their way from n to m

vars == <<node, net>>

Frame == [kind : {"Probe", "Defend", "Announce"}, start : 0..(PoolSize - 1),
          count : Counts]

Node == [st        : {"Start", "Initial", "Probe", "Defend"},
         start     : 0..(PoolSize - 1),      \* requested_start
         count     : Counts \cup {0},        \* requested_count
         probes    : 0..ProbeRetransmits,    \* maap_probe_count
         probeT    : BOOLEAN,                \* probe_timer_active_
         announceT : BOOLEAN,                \* announce_timer_active_
         ready     : BOOLEAN,                \* ready_, the talker's gate
         dest      : 0..(PoolSize - 1)]      \* the published block

Init ==
    /\ node = [n \in Nodes |->
                 [st |-> "Start", start |-> 0, count |-> 0, probes |-> 0,
                  probeT |-> FALSE, announceT |-> FALSE,
                  ready |-> FALSE, dest |-> 0]]
    /\ net = [n \in Nodes |-> [m \in Nodes |-> <<>>]]

-----------------------------------------------------------------------------

\* pick_address: any start whose block fits in the pool.
PickAddress(count) == 0..(PoolSize - count)

Overlaps_mutTouching(x, f) == x.start < f.start + f.count /\ f.start = x.start

Overlaps(x, f) == x.start < f.start + f.count /\ f.start < x.start + x.count

CompareMac(ours, theirs) == Rank[ours] < Rank[theirs]

\* The actions that (re)start probing, from Initial and on a conflict.
Reprobe(x, start) ==
    [x EXCEPT !.st = "Probe", !.start = start, !.probes = ProbeRetransmits,
              !.probeT = TRUE, !.announceT = FALSE]

\* on_acquired: publish the block, then open the gate.
Acquired(x) == [x EXCEPT !.dest = x.start, !.ready = TRUE]

Dispatched_mutKeepsGate(x, y) ==
    IF x.st # "Defend" /\ y.st = "Defend" THEN Acquired(y) ELSE y

\* dispatch: report the Defend boundary.
Dispatched(x, y) ==
    IF x.st # "Defend" /\ y.st = "Defend" THEN Acquired(y)
    ELSE IF x.st = "Defend" /\ y.st # "Defend" THEN [y EXCEPT !.ready = FALSE]
    ELSE y

FrameOf(x, kind) == [kind |-> kind, start |-> x.start, count |-> x.count]

\* A multicast reaches every other station, except those that lose it.
Multicast(q, n, f, lost) ==
    [q EXCEPT ![n] = [m \in Nodes |->
        IF m = n \/ m \in lost \/ Len(@[m]) >= Window THEN @[m]
        ELSE Append(@[m], f)]]

Losses(n) == IF Lossy THEN SUBSET (Nodes \ {n}) ELSE {{}}

\* n handles an event that leaves it in y and sends kind.
Step(n, y, kind, lost, q) ==
    /\ Lossy \/ \A m \in Nodes : Len(q[n][m]) < Window
    /\ node' = [node EXCEPT ![n] = Dispatched(node[n], y)]
    /\ net' = Multicast(q, n, FrameOf(y, kind), lost)

Quiet == \A n, m \in Nodes : net[n][m] = <<>>

-----------------------------------------------------------------------------
Acquire(n, count) ==
    /\ node[n].st \in {"Start", "Initial"}
    /\ \E start \in PickAddress(count), lost \in Losses(n) :
          Step(n, Reprobe([node[n] EXCEPT !.count = count], start),
               "Probe", lost, net)

Release(n) ==
    /\ node[n].st \in {"Probe", "Defend"}
    /\ node' = [node EXCEPT ![n] = Dispatched(@,
                   [@ EXCEPT !.st = "Initial", !.probeT = FALSE, !.announceT = FALSE])]
    /\ UNCHANGED net

\* Frames cross the LAN in microseconds; the timers run for 400 ms or more.
TimersMayRun == Lossy \/ Quiet

ProbeComplete(x) ==
    [x EXCEPT !.st = "Defend", !.probeT = FALSE, !.announceT = TRUE]

\* tick(): probe again while probes remain, then claim the block.
ProbeTimer(n) ==
    /\ TimersMayRun
    /\ node[n].probeT
    /\ \E lost \in Losses(n) :
          IF node[n].probes > 0
          THEN Step(n, [node[n] EXCEPT !.probes = @ - 1], "Probe", lost, net)
          ELSE Step(n, ProbeComplete(node[n]), "Announce", lost, net)

AnnounceTimer(n) ==
    /\ TimersMayRun
    /\ node[n].announceT
    /\ \E lost \in Losses(n) : Step(n, node[n], "Announce", lost, net)

Reaction_mutStubborn(x, n, from, f) ==
    IF x.st \notin {"Probe", "Defend"} \/ ~Overlaps(x, f) THEN "none"
    ELSE IF x.st = "Defend" THEN "defend"
    ELSE IF f.kind = "Probe" /\ CompareMac(n, from) THEN "none"
    ELSE "reprobe"

\* What receive() dispatches for a frame of another station, if anything.
Reaction(x, n, from, f) ==
    IF x.st \notin {"Probe", "Defend"} \/ ~Overlaps(x, f) THEN "none"
    ELSE IF f.kind = "Probe" /\ x.st = "Defend" THEN "defend"
    ELSE IF f.kind = "Probe" /\ CompareMac(n, from) THEN "none"
    ELSE "reprobe"

Receive(from, n) ==
    /\ net[from][n] # <<>>
    /\ LET f == Head(net[from][n])
           q == [net EXCEPT ![from][n] = Tail(@)]
           r == Reaction(node[n], n, from, f)
       IN  \/ r = "none" /\ net' = q /\ UNCHANGED node
           \/ /\ r = "defend"
              /\ \E lost \in Losses(n) : Step(n, node[n], "Defend", lost, q)
           \/ /\ r = "reprobe"
              /\ \E start \in PickAddress(node[n].count), lost \in Losses(n) :
                    Step(n, Reprobe(node[n], start), "Probe", lost, q)

Next ==
    \/ \E n \in Nodes, count \in Counts : Acquire(n, count)
    \/ \E n \in Nodes : Release(n) \/ ProbeTimer(n) \/ AnnounceTimer(n)
    \/ \E n, m \in Nodes : Receive(n, m)

Spec == Init /\ [][Next]_vars

\* tick() runs on the reactor, so timers expire and frames that arrive are
\* read.  An announcement that is lost to all changes nothing, so fairness of
\* AnnounceTimer also says that not all of them are lost for ever.
FairSpec ==
    /\ Spec
    /\ \A n \in Nodes : WF_vars(ProbeTimer(n)) /\ WF_vars(AnnounceTimer(n))
    /\ \A n, m \in Nodes : WF_vars(Receive(n, m))

-----------------------------------------------------------------------------
(***************************************************************************)
(* Properties.                                                             *)
(***************************************************************************)
\* Every field has its type, and a claimed block lies inside the pool.
TypeOK ==
    /\ node \in [Nodes -> Node]
    /\ \A n \in Nodes : node[n].start + node[n].count <= PoolSize
    /\ net \in [Nodes -> [Nodes -> Seq(Frame)]]

\* The protocol never stalls and never runs two timers: a probing station has
\* the probe timer, a defending one the announce timer, any other none.
TimerFollowsState ==
    \A n \in Nodes : /\ node[n].probeT <=> node[n].st = "Probe"
                     /\ node[n].announceT <=> node[n].st = "Defend"

\* The talker's gate is open exactly while its block is defended, and the
\* published destination is that block's.
GateFollowsBlock ==
    \A n \in Nodes : /\ node[n].ready <=> node[n].st = "Defend"
                     /\ node[n].ready => node[n].dest = node[n].start

\* The state of a station, its timers, its block and its talker's gate agree
\* after every frame, expiry, acquire and release.
StationAgrees == TypeOK /\ TimerFollowsState /\ GateFollowsBlock

\* The addresses n defends.
Defended(n) ==
    IF node[n].st = "Defend"
    THEN node[n].start..(node[n].start + node[n].count - 1) ELSE {}

\* On a LAN that delivers its frames no address is defended by two stations: a
\* probe is answered by whoever defends any of the block, and of two stations
\* probing it the first to claim it announces that to the other.
UniqueBlocks ==
    \A n, m \in Nodes :
        n # m => Defended(n) \cap Defended(m) = {}

\* Where frames were lost and two stations did claim one address, announcing
\* ends it: they do not defend overlapping blocks for ever.
ConflictEnds ==
    \A n, m \in Nodes :
        n # m => []<>(Defended(n) \cap Defended(m) = {})

\* The addresses the talker of n may send to: the block its acquirer published,
\* while ready() holds.
Published(n) ==
    IF node[n].ready THEN node[n].dest..(node[n].dest + node[n].count - 1) ELSE {}

Blocks == INSTANCE AddressBlocks WITH Stations <- Nodes, Addresses <- 0..(PoolSize - 1),
                                      owned <- [n \in Nodes |-> Published(n)]

\* On such a LAN the stations implement AddressBlocks: seen by the talkers, a
\* block is claimed while nobody else owns any of it and is given up before
\* the next one is published.
ImplementsBlocks == Blocks!Spec
=============================================================================
