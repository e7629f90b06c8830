--------------------------- MODULE StationProofs ----------------------------
(***************************************************************************)
(* Proofs about two services of a station: MAAP, and the PTP client.       *)
(*                                                                         *)
(* Maap: for every set of stations, pool and block size.                   *)
(*                                                                         *)
(* UniqueBlocks is not inductive: that a station which has probed long     *)
(* enough finds its block undefended rests on the frames that were on      *)
(* their way meanwhile.  Warned keeps them: while a station probes a block *)
(* that overlaps a defended one, its probe is still on its way to the      *)
(* defender or the defender's answer on its way back.  Timers expire when  *)
(* nothing is on its way, so a station that claims its block was not so.   *)
(*                                                                         *)
(* PtpClient: for every set of timelines, size of the window, number of    *)
(* samples a fit needs and bound on the disturbances.                      *)
(***************************************************************************)
EXTENDS Maap, PtpClient, TLAPS

\* A leaf goes to the SMT solver, again if its translation ran out of time.
USE SMTT(60), SMTT(50), SMTT(40)

Net == [Nodes -> [Nodes -> Seq(Frame)]]

\* f is on its way from n to m.
In(q, n, m, f) == \E i \in 1..Len(q[n][m]) : q[n][m][i] = f

Warned(nd, q) ==
    \A n, m \in Nodes :
        (/\ n # m
         /\ nd[n].st = "Probe" /\ nd[m].st = "Defend"
         /\ Overlaps(nd[n], nd[m]))
        => \/ In(q, n, m, FrameOf(nd[n], "Probe"))
           \/ In(q, m, n, FrameOf(nd[m], "Defend"))
           \/ In(q, m, n, FrameOf(nd[m], "Announce"))

Apart(nd) ==
    \A n, m \in Nodes :
        n # m /\ nd[n].st = "Defend" /\ nd[m].st = "Defend"
            => ~Overlaps(nd[n], nd[m])

\* What holds of one station.
Sound(x) ==
    /\ x \in Node
    /\ x.start + x.count <= PoolSize
    /\ x.st \in {"Probe", "Defend"} => x.count \in Counts
    /\ x.probeT <=> x.st = "Probe"
    /\ x.announceT <=> x.st = "Defend"
    /\ x.ready <=> x.st = "Defend"
    /\ x.ready => x.dest = x.start

StationInv ==
    /\ node \in [Nodes -> Node]
    /\ net \in Net
    /\ \A n \in Nodes : Sound(node[n])

IInv == StationInv /\ Warned(node, net) /\ Apart(node)
-----------------------------------------------------------------------------
(***************************************************************************)
(* The helpers.                                                            *)
(***************************************************************************)
\* Two blocks that do not overlap have no address in common, and conversely.
LEMMA OverlapsIsIntersection ==
    ASSUME NEW x \in Node, NEW y \in Node,
           x.count \in 1..PoolSize, y.count \in 1..PoolSize
    PROVE  ~Overlaps(x, y) <=> (x.start..(x.start + x.count - 1))
                               \cap (y.start..(y.start + y.count - 1)) = {}
<1> DEFINE X == x.start..(x.start + x.count - 1)
           Y == y.start..(y.start + y.count - 1)
<1>1. x.start \in Nat /\ y.start \in Nat /\ x.count \in Nat \ {0} /\ y.count \in Nat \ {0}
  BY MaapAssumption DEF Node
<1>2. ASSUME ~Overlaps(x, y) PROVE X \cap Y = {}
  BY <1>1, <1>2 DEF Overlaps
<1>3. ASSUME Overlaps(x, y) PROVE X \cap Y # {}
  <2>1. CASE x.start >= y.start
    <3>1. x.start \in X /\ x.start \in Y
      BY <1>1, <1>3, <2>1 DEF Overlaps
    <3> QED BY <3>1
  <2>2. CASE x.start < y.start
    <3>1. y.start \in X /\ y.start \in Y
      BY <1>1, <1>3, <2>2 DEF Overlaps
    <3> QED BY <3>1
  <2> QED BY <1>1, <2>1, <2>2
<1> QED BY <1>2, <1>3

\* A multicast keeps every frame that was on its way.
LEMMA MulticastKeeps ==
    ASSUME NEW q \in Net, NEW n \in Nodes, NEW f \in Frame, NEW lost,
           NEW a \in Nodes, NEW b \in Nodes, NEW g, In(q, a, b, g)
    PROVE  In(Multicast(q, n, f, lost), a, b, g)
<1> DEFINE r == Multicast(q, n, f, lost)
<1>1. PICK i \in 1..Len(q[a][b]) : q[a][b][i] = g
  BY DEF In
<1>2. q[a][b] \in Seq(Frame)
  BY DEF Net
<1>3. r[a][b] = q[a][b] \/ r[a][b] = Append(q[a][b], f)
  BY DEF Multicast, Net
<1>4. i \in 1..Len(r[a][b]) /\ r[a][b][i] = g
  BY <1>1, <1>2, <1>3
<1> QED BY <1>4 DEF In

\* A multicast that nobody loses is on its way to every other station.
LEMMA MulticastReaches ==
    ASSUME NEW q \in Net, NEW n \in Nodes, NEW f \in Frame, NEW m \in Nodes, m # n,
           Len(q[n][m]) < Window
    PROVE  In(Multicast(q, n, f, {}), n, m, f)
<1> DEFINE r == Multicast(q, n, f, {})
<1>1. q[n][m] \in Seq(Frame) /\ Len(q[n][m]) \in Nat
  BY DEF Net
<1>2. r[n][m] = Append(q[n][m], f)
  BY <1>1, MaapAssumption DEF Multicast, Net
<1>3. (Len(q[n][m]) + 1) \in 1..Len(r[n][m]) /\ r[n][m][Len(q[n][m]) + 1] = f
  BY <1>1, <1>2
<1> QED BY <1>3 DEF In

LEMMA MulticastType ==
    ASSUME NEW q \in Net, NEW n \in Nodes, NEW f \in Frame, NEW lost
    PROVE  Multicast(q, n, f, lost) \in Net
BY DEF Multicast, Net

\* Taking the first frame off a channel keeps every other frame.
LEMMA PopKeeps ==
    ASSUME NEW q \in Net, NEW from \in Nodes, NEW n \in Nodes, q[from][n] # <<>>,
           NEW a \in Nodes, NEW b \in Nodes, NEW g, In(q, a, b, g),
           ~(a = from /\ b = n /\ g = Head(q[from][n]))
    PROVE  In([q EXCEPT ![from][n] = Tail(@)], a, b, g)
<1> DEFINE r == [q EXCEPT ![from][n] = Tail(@)]
<1>1. PICK i \in 1..Len(q[a][b]) : q[a][b][i] = g
  BY DEF In
<1>2. q[a][b] \in Seq(Frame)
  BY DEF Net
<1>3. CASE a = from /\ b = n
  <2>1. r[a][b] = Tail(q[a][b])
    BY <1>3 DEF Net
  <2>2. i # 1
    BY <1>1, <1>2, <1>3
  <2>3. Len(q[a][b]) \in Nat /\ i \in 2..Len(q[a][b])
    BY <1>2, <2>2
  <2>4. Len(Tail(q[a][b])) = Len(q[a][b]) - 1
    BY <1>2, <2>3
  <2>5. (i - 1) \in 1..Len(Tail(q[a][b]))
    BY <2>3, <2>4
  <2>6. Tail(q[a][b])[i - 1] = q[a][b][(i - 1) + 1]
    BY <1>2, <2>3, <2>5
  <2>7. Tail(q[a][b])[i - 1] = g
    BY <1>1, <2>3, <2>6
  <2> HIDE DEF r
  <2>8. (i - 1) \in 1..Len(r[a][b]) /\ r[a][b][i - 1] = g
    BY <2>1, <2>5, <2>7
  <2>9. In(r, a, b, g)
    BY <2>8 DEF In
  <2> QED BY <2>9 DEF r
<1>4. CASE ~(a = from /\ b = n)
  <2>1. r[a][b] = q[a][b]
    BY <1>4 DEF Net
  <2> QED BY <1>1, <2>1, ZenonT(30) DEF In
<1> QED BY <1>3, <1>4

LEMMA PopType ==
    ASSUME NEW q \in Net, NEW from \in Nodes, NEW n \in Nodes, q[from][n] # <<>>
    PROVE  /\ [q EXCEPT ![from][n] = Tail(@)] \in Net
           /\ Head(q[from][n]) \in Frame
<1>1. q[from][n] \in Seq(Frame)
  BY DEF Net
<1>2. Tail(q[from][n]) \in Seq(Frame) /\ Head(q[from][n]) \in Frame
  BY <1>1
<1> QED BY <1>2 DEF Net

-----------------------------------------------------------------------------
(***************************************************************************)
(* One station.                                                            *)
(***************************************************************************)
\* What the state machine left a station in, before dispatch reports it.
Consistent(x, y) ==
    /\ y \in Node
    /\ y.start + y.count <= PoolSize
    /\ y.st \in {"Probe", "Defend"} => y.count \in Counts
    /\ y.probeT <=> y.st = "Probe"
    /\ y.announceT <=> y.st = "Defend"
    /\ y.ready = x.ready /\ y.dest = x.dest
    /\ x.st = "Defend" /\ y.st = "Defend" => y.start = x.start

\* dispatch leaves the machine alone and brings the gate in line with it.
LEMMA DispatchSound ==
    ASSUME NEW x, NEW y, Sound(x), Consistent(x, y)
    PROVE  LET z == Dispatched(x, y)
           IN  Sound(z) /\ z.st = y.st /\ z.start = y.start /\ z.count = y.count
<1> USE DEF Sound, Consistent, Node
<1>1. CASE x.st # "Defend" /\ y.st = "Defend"
  <2>1. Dispatched(x, y) = [y EXCEPT !.dest = y.start, !.ready = TRUE]
    BY <1>1 DEF Dispatched, Acquired
  <2> QED BY <1>1, <2>1, ZenonT(30)
<1>2. CASE x.st = "Defend" /\ y.st # "Defend"
  <2>1. Dispatched(x, y) = [y EXCEPT !.ready = FALSE]
    BY <1>2 DEF Dispatched
  <2> QED BY <1>2, <2>1, ZenonT(30)
<1>3. CASE x.st = "Defend" <=> y.st = "Defend"
  <2>1. Dispatched(x, y) = y
    BY <1>3 DEF Dispatched
  <2> QED BY <1>3, <2>1
<1> QED BY <1>1, <1>2, <1>3

\* Probing starts with a block that fits in the pool.
LEMMA ReprobeConsistent ==
    ASSUME NEW x, Sound(x), NEW count \in Counts, NEW start \in PickAddress(count)
    PROVE  LET y == Reprobe([x EXCEPT !.count = count], start)
           IN  Consistent(x, y) /\ y.st = "Probe"
<1> DEFINE y == Reprobe([x EXCEPT !.count = count], start)
<1>1. y = [x EXCEPT !.count = count, !.st = "Probe", !.start = start,
                    !.probes = ProbeRetransmits, !.probeT = TRUE, !.announceT = FALSE]
  BY DEF Reprobe, Sound, Node
<1>2. count \in 1..PoolSize /\ start \in 0..(PoolSize - 1) /\ start + count <= PoolSize
  BY MaapAssumption DEF PickAddress
<1>3. ProbeRetransmits \in 0..ProbeRetransmits
  BY MaapAssumption
<1>4. y \in Node
  BY <1>1, <1>2, <1>3, ZenonT(30) DEF Sound, Node
<1>5. /\ y.st = "Probe" /\ y.start = start /\ y.count = count /\ y.probeT = TRUE
      /\ y.announceT = FALSE /\ y.ready = x.ready /\ y.dest = x.dest
  BY <1>1, ZenonT(30) DEF Sound, Node
<1> HIDE DEF y
<1>6. Consistent(x, y) /\ y.st = "Probe"
  BY <1>2, <1>4, <1>5 DEF Consistent
<1> QED BY <1>6 DEF y

LEMMA ReprobeSame ==
    ASSUME NEW x, Sound(x), x.st \in {"Probe", "Defend"},
           NEW start \in PickAddress(x.count)
    PROVE  LET y == Reprobe(x, start)
           IN  Consistent(x, y) /\ y.st = "Probe"
<1>1. x.count \in Counts /\ x = [x EXCEPT !.count = x.count]
  BY DEF Sound, Node
<1>2. \A c \in Counts : \A s \in PickAddress(c) :
        LET y == Reprobe([x EXCEPT !.count = c], s) IN Consistent(x, y) /\ y.st = "Probe"
  BY ReprobeConsistent
<1> QED BY <1>1, <1>2

LEMMA TimerConsistent ==
    ASSUME NEW x, Sound(x)
    PROVE  /\ x.probeT /\ x.probes > 0
              => LET y == [x EXCEPT !.probes = @ - 1]
                 IN  Consistent(x, y) /\ y.st = "Probe"
           /\ x.probeT => LET y == ProbeComplete(x)
                          IN  Consistent(x, y) /\ y.st = "Defend"
                              /\ y.start = x.start /\ y.count = x.count
           /\ Consistent(x, x)
           /\ x.st \in {"Probe", "Defend"}
              => LET y == [x EXCEPT !.st = "Initial", !.probeT = FALSE, !.announceT = FALSE]
                 IN  Consistent(x, y) /\ y.st = "Initial"
<1> USE DEF Sound, Node, Consistent
<1>1. ASSUME x.probeT, x.probes > 0
      PROVE  LET y == [x EXCEPT !.probes = @ - 1] IN Consistent(x, y) /\ y.st = "Probe"
  <2>1. x.probes - 1 \in 0..ProbeRetransmits
    BY <1>1, MaapAssumption
  <2> QED BY <1>1, <2>1
<1>2. ASSUME x.probeT
      PROVE  LET y == ProbeComplete(x)
             IN  Consistent(x, y) /\ y.st = "Defend" /\ y.start = x.start /\ y.count = x.count
  BY <1>2, ZenonT(30) DEF ProbeComplete
<1>3. Consistent(x, x)
  OBVIOUS
<1>4. LET y == [x EXCEPT !.st = "Initial", !.probeT = FALSE, !.announceT = FALSE]
      IN  Consistent(x, y) /\ y.st = "Initial"
  BY ZenonT(30)
<1> QED BY <1>1, <1>2, <1>3, <1>4

-----------------------------------------------------------------------------
(***************************************************************************)
(* The LAN.                                                                *)
(***************************************************************************)
LEMMA FrameType ==
    ASSUME NEW x \in Node, x.count \in Counts, NEW kind \in {"Probe", "Defend", "Announce"}
    PROVE  FrameOf(x, kind) \in Frame
BY DEF FrameOf, Frame, Node

\* A step that leaves a station in y and sends kind keeps what holds of each.
LEMMA StepStation ==
    ASSUME StationInv, NEW n \in Nodes, NEW y, Consistent(node[n], y), y.count \in Counts,
           NEW kind \in {"Probe", "Defend", "Announce"}, NEW lost, NEW q \in Net,
           Step(n, y, kind, lost, q)
    PROVE  StationInv'
<1> DEFINE z == Dispatched(node[n], y)
<1>1. Sound(z) /\ z \in Node
  BY DispatchSound DEF StationInv, Sound
<1>2. net' \in Net
  BY MulticastType, FrameType DEF Step, Consistent
<1>3. node' = [node EXCEPT ![n] = z]
  BY DEF Step
<1> HIDE DEF z
<1>4. node' \in [Nodes -> Node] /\ \A m \in Nodes : Sound(node'[m])
  BY <1>1, <1>3 DEF StationInv
<1> QED BY <1>2, <1>4, ZenonT(30) DEF StationInv, Net, Frame, Sound, Node

\* The warnings that do not concern n.
WarnedBesides(n, nd, q) ==
    \A a, b \in Nodes \ {n} :
        (/\ a # b
         /\ nd[a].st = "Probe" /\ nd[b].st = "Defend"
         /\ Overlaps(nd[a], nd[b]))
        => \/ In(q, a, b, FrameOf(nd[a], "Probe"))
           \/ In(q, b, a, FrameOf(nd[b], "Defend"))
           \/ In(q, b, a, FrameOf(nd[b], "Announce"))

\* Whoever probes sends a probe and whoever defends says so, which renews every
\* warning that concerns the station.
LEMMA StepWarned ==
    ASSUME StationInv, NEW n \in Nodes, NEW y, Consistent(node[n], y), y.count \in Counts,
           NEW kind \in {"Probe", "Defend", "Announce"}, NEW q \in Net,
           Step(n, y, kind, {}, q), ~Lossy,
           WarnedBesides(n, node, q),
           y.st = "Probe" => kind = "Probe",
           y.st = "Defend" => kind \in {"Defend", "Announce"}
    PROVE  Warned(node', net')
<1> DEFINE z == Dispatched(node[n], y)
           f == FrameOf(y, kind)
<1>1. z.st = y.st /\ z.start = y.start /\ z.count = y.count
  BY DispatchSound DEF StationInv
<1>2. f \in Frame
  BY FrameType DEF Consistent
<1>3. node' = [node EXCEPT ![n] = z] /\ net' = Multicast(q, n, f, {})
      /\ \A m \in Nodes : Len(q[n][m]) < Window
  BY DEF Step
<1>4. \A k : FrameOf(z, k) = FrameOf(y, k)
  BY <1>1 DEF FrameOf
<1>5. f = FrameOf(y, kind)
  OBVIOUS
<1> HIDE DEF z, f
<1>6. node'[n] = z /\ \A m \in Nodes \ {n} : node'[m] = node[m]
  BY <1>3 DEF StationInv
<1>7. \A m \in Nodes \ {n} : In(net', n, m, f)
  BY <1>2, <1>3, MulticastReaches
<1>8. SUFFICES ASSUME NEW a \in Nodes, NEW b \in Nodes, a # b,
                      node'[a].st = "Probe", node'[b].st = "Defend",
                      Overlaps(node'[a], node'[b])
               PROVE  \/ In(net', a, b, FrameOf(node'[a], "Probe"))
                      \/ In(net', b, a, FrameOf(node'[b], "Defend"))
                      \/ In(net', b, a, FrameOf(node'[b], "Announce"))
  BY DEF Warned
<1>9. CASE a = n
  <2>1. kind = "Probe"
    BY <1>1, <1>6, <1>8, <1>9
  <2> QED BY <1>4, <1>5, <1>6, <1>7, <1>8, <1>9, <2>1
<1>10. CASE b = n
  <2>1. kind \in {"Defend", "Announce"}
    BY <1>1, <1>6, <1>8, <1>10
  <2> QED BY <1>4, <1>5, <1>6, <1>7, <1>8, <1>10, <2>1
<1>11. CASE a # n /\ b # n
  <2>1. \/ In(q, a, b, FrameOf(node[a], "Probe"))
        \/ In(q, b, a, FrameOf(node[b], "Defend"))
        \/ In(q, b, a, FrameOf(node[b], "Announce"))
    BY <1>6, <1>8, <1>11 DEF WarnedBesides
  <2>2. \A c, d \in Nodes : \A g : In(q, c, d, g) => In(net', c, d, g)
    BY <1>2, <1>3, MulticastKeeps
  <2> QED BY <1>6, <1>11, <2>1, <2>2
<1> QED BY <1>9, <1>10, <1>11

\* Blocks stay apart when the station stops defending or keeps its block.
LEMMA StepApart ==
    ASSUME StationInv, Apart(node), NEW n \in Nodes, NEW y, Consistent(node[n], y),
           node' = [node EXCEPT ![n] = Dispatched(node[n], y)],
           \/ y.st # "Defend"
           \/ /\ y.start = node[n].start /\ y.count = node[n].count
              /\ \A m \in Nodes \ {n} : node[m].st = "Defend"
                                        => ~Overlaps(node[n], node[m])
    PROVE  Apart(node')
<1> DEFINE z == Dispatched(node[n], y)
<1>1. z.st = y.st /\ z.start = y.start /\ z.count = y.count
  BY DispatchSound DEF StationInv
<1> HIDE DEF z
<1>2. node'[n] = z /\ \A m \in Nodes \ {n} : node'[m] = node[m]
  BY DEF StationInv, z
<1>3. \A u, v : Overlaps(u, v) <=> Overlaps(v, u)
  BY DEF Overlaps
<1>4. SUFFICES ASSUME NEW a \in Nodes, NEW b \in Nodes, a # b,
                      node'[a].st = "Defend", node'[b].st = "Defend"
               PROVE  ~Overlaps(node'[a], node'[b])
  BY DEF Apart
<1>5. CASE a # n /\ b # n
  BY <1>2, <1>4, <1>5 DEF Apart
<1>6. ASSUME NEW m \in Nodes \ {n}, node[m].st = "Defend", z.st = "Defend"
      PROVE  ~Overlaps(z, node[m])
  BY <1>1, <1>6 DEF Overlaps
<1> QED BY <1>2, <1>3, <1>4, <1>5, <1>6

\* A frame that is taken off its channel leaves the warnings about others.
LEMMA PopBesides ==
    ASSUME NEW q \in Net, NEW from \in Nodes, NEW n \in Nodes, q[from][n] # <<>>,
           NEW nd, Warned(nd, q)
    PROVE  WarnedBesides(n, nd, [q EXCEPT ![from][n] = Tail(@)])
<1> DEFINE r == [q EXCEPT ![from][n] = Tail(@)]
<1>1. \A a, b \in Nodes \ {n} : \A g : In(q, a, b, g) => In(r, a, b, g)
  BY PopKeeps, ZenonT(30)
<1> HIDE DEF r
<1>2. WarnedBesides(n, nd, r)
  BY <1>1 DEF Warned, WarnedBesides
<1> QED BY <1>2 DEF r

\* A frame that calls for no reaction warned of nothing.
LEMMA PopWarned ==
    ASSUME NEW q \in Net, NEW from \in Nodes, NEW n \in Nodes, q[from][n] # <<>>,
           NEW nd, Warned(nd, q),
           Reaction(nd[n], n, from, Head(q[from][n])) = "none"
    PROVE  Warned(nd, [q EXCEPT ![from][n] = Tail(@)])
<1> DEFINE r == [q EXCEPT ![from][n] = Tail(@)]
           f == Head(q[from][n])
<1>1. \A a, b \in Nodes : \A g :
        In(q, a, b, g) /\ ~(a = from /\ b = n /\ g = f) => In(r, a, b, g)
  BY PopKeeps
<1> HIDE DEF r
<1>2. ASSUME NEW a \in Nodes, NEW b \in Nodes, a # b,
             nd[a].st = "Probe", nd[b].st = "Defend", Overlaps(nd[a], nd[b])
      PROVE  \/ In(r, a, b, FrameOf(nd[a], "Probe"))
             \/ In(r, b, a, FrameOf(nd[b], "Defend"))
             \/ In(r, b, a, FrameOf(nd[b], "Announce"))
  <2>1. CASE In(q, a, b, FrameOf(nd[a], "Probe"))
    <3>1. ~(a = from /\ b = n /\ FrameOf(nd[a], "Probe") = f)
      BY <1>2 DEF Reaction, FrameOf, Overlaps
    <3> QED BY <1>1, <2>1, <3>1
  <2>2. ASSUME NEW k \in {"Defend", "Announce"}, In(q, b, a, FrameOf(nd[b], k))
        PROVE  In(r, b, a, FrameOf(nd[b], k))
    <3>1. ~(b = from /\ a = n /\ FrameOf(nd[b], k) = f)
      BY <1>2, <2>2 DEF Reaction, FrameOf, Overlaps
    <3> QED BY <1>1, <2>2, <3>1
  <2> QED BY <1>2, <2>1, <2>2 DEF Warned
<1>3. Warned(nd, r)
  BY <1>2 DEF Warned
<1> QED BY <1>3 DEF r

-----------------------------------------------------------------------------
(***************************************************************************)
(* Every step.                                                             *)
(***************************************************************************)
LEMMA InitInv == Init => IInv
<1> SUFFICES ASSUME Init PROVE IInv
  OBVIOUS
<1> DEFINE x0 == [st |-> "Start", start |-> 0, count |-> 0, probes |-> 0,
                  probeT |-> FALSE, announceT |-> FALSE, ready |-> FALSE, dest |-> 0]
<1>1. Sound(x0) /\ x0 \in Node /\ x0.st = "Start"
  BY MaapAssumption DEF Sound, Node
<1>2. node = [n \in Nodes |-> x0] /\ net \in Net
  BY DEF Init, Net
<1> HIDE DEF x0
<1>3. \A n \in Nodes : node[n] = x0
  BY <1>2, ZenonT(30)
<1>4. StationInv
  BY <1>1, <1>2, <1>3 DEF StationInv
<1> QED BY <1>1, <1>3, <1>4 DEF IInv, Warned, Apart

\* Steps keep what holds of each station, whatever the LAN loses.
LEMMA NextStation == StationInv /\ [Next]_vars => StationInv'
<1> SUFFICES ASSUME StationInv, [Next]_vars PROVE StationInv'
  OBVIOUS
<1>0. \A n \in Nodes : Sound(node[n]) /\ net \in Net
  BY DEF StationInv
<1>1. ASSUME NEW n \in Nodes, NEW count \in Counts, Acquire(n, count)
      PROVE  StationInv'
  <2>1. PICK start \in PickAddress(count), lost \in Losses(n) :
          Step(n, Reprobe([node[n] EXCEPT !.count = count], start), "Probe", lost, net)
    BY <1>1 DEF Acquire
  <2> DEFINE y == Reprobe([node[n] EXCEPT !.count = count], start)
  <2>2. Consistent(node[n], y) /\ y.st = "Probe"
    BY <1>0, ReprobeConsistent
  <2> HIDE DEF y
  <2>3. y.count \in Counts
    BY <2>2 DEF Consistent
  <2>4. Step(n, y, "Probe", lost, net)
    BY <2>1 DEF y
  <2> QED BY <1>0, <2>2, <2>3, <2>4, StepStation
<1>2. ASSUME NEW n \in Nodes, Release(n)
      PROVE  StationInv'
  <2> DEFINE y == [node[n] EXCEPT !.st = "Initial", !.probeT = FALSE, !.announceT = FALSE]
             z == Dispatched(node[n], y)
  <2>1. Consistent(node[n], y)
    BY <1>0, <1>2, TimerConsistent, ZenonT(30) DEF Release
  <2>2. node' = [node EXCEPT ![n] = z] /\ net' = net
    BY <1>2 DEF Release
  <2> HIDE DEF y
  <2>3. Sound(z) /\ z \in Node
    BY <1>0, <2>1, DispatchSound DEF Sound
  <2> HIDE DEF z
  <2> QED BY <2>2, <2>3, ZenonT(30) DEF StationInv, Net, Frame, Sound, Node
<1>3. ASSUME NEW n \in Nodes, ProbeTimer(n)
      PROVE  StationInv'
  <2>1. PICK lost \in Losses(n) :
          IF node[n].probes > 0
          THEN Step(n, [node[n] EXCEPT !.probes = @ - 1], "Probe", lost, net)
          ELSE Step(n, ProbeComplete(node[n]), "Announce", lost, net)
    BY <1>3 DEF ProbeTimer
  <2>2. node[n].probeT
    BY <1>3 DEF ProbeTimer
  <2>3. CASE node[n].probes > 0
    <3> DEFINE y == [node[n] EXCEPT !.probes = @ - 1]
    <3>1. Consistent(node[n], y) /\ y.st = "Probe"
      BY <1>0, <2>2, <2>3, TimerConsistent, ZenonT(30)
    <3>2. Step(n, y, "Probe", lost, net)
      BY <2>1, <2>3
    <3> HIDE DEF y
    <3>3. y.count \in Counts
      BY <3>1 DEF Consistent
    <3> QED BY <1>0, <3>1, <3>2, <3>3, StepStation
  <2>4. CASE ~(node[n].probes > 0)
    <3> DEFINE y == ProbeComplete(node[n])
    <3>1. Consistent(node[n], y) /\ y.st = "Defend"
      BY <1>0, <2>2, TimerConsistent, ZenonT(30)
    <3>2. Step(n, y, "Announce", lost, net)
      BY <2>1, <2>4
    <3> HIDE DEF y
    <3>3. y.count \in Counts
      BY <3>1 DEF Consistent
    <3> QED BY <1>0, <3>1, <3>2, <3>3, StepStation
  <2> QED BY <2>3, <2>4
<1>4. ASSUME NEW n \in Nodes, AnnounceTimer(n)
      PROVE  StationInv'
  <2>1. PICK lost \in Losses(n) : Step(n, node[n], "Announce", lost, net)
    BY <1>4 DEF AnnounceTimer
  <2>2. Consistent(node[n], node[n]) /\ node[n].count \in Counts
    BY <1>0, <1>4, TimerConsistent, ZenonT(30) DEF AnnounceTimer, Sound
  <2> QED BY <1>0, <2>1, <2>2, StepStation
<1>5. ASSUME NEW from \in Nodes, NEW n \in Nodes, Receive(from, n)
      PROVE  StationInv'
  <2> DEFINE f == Head(net[from][n])
             q == [net EXCEPT ![from][n] = Tail(@)]
             r == Reaction(node[n], n, from, f)
  <2>1. q \in Net
    BY <1>0, <1>5, PopType, ZenonT(30) DEF Receive
  <2>2. \/ r = "none" /\ net' = q /\ UNCHANGED node
        \/ /\ r = "defend"
           /\ \E lost \in Losses(n) : Step(n, node[n], "Defend", lost, q)
        \/ /\ r = "reprobe"
           /\ \E start \in PickAddress(node[n].count), lost \in Losses(n) :
                 Step(n, Reprobe(node[n], start), "Probe", lost, q)
    BY <1>5, ZenonT(30) DEF Receive
  <2>3. r # "none" => node[n].st \in {"Probe", "Defend"} /\ node[n].count \in Counts
    BY <1>0 DEF Reaction, Sound
  <2> HIDE DEF q, r
  <2>4. CASE r = "none" /\ net' = q /\ UNCHANGED node
    BY <2>1, <2>4, ZenonT(30) DEF StationInv, Net, Frame, Sound, Node
  <2>5. CASE r = "defend" /\ \E lost \in Losses(n) : Step(n, node[n], "Defend", lost, q)
    <3>1. Consistent(node[n], node[n])
      BY <1>0, TimerConsistent, ZenonT(30)
    <3> QED BY <2>1, <2>3, <2>5, <3>1, StepStation
  <2>6. ASSUME r = "reprobe", NEW start \in PickAddress(node[n].count), NEW lost \in Losses(n),
               Step(n, Reprobe(node[n], start), "Probe", lost, q)
        PROVE  StationInv'
    <3> DEFINE y == Reprobe(node[n], start)
    <3>1. Consistent(node[n], y) /\ y.st = "Probe"
      BY <1>0, <2>3, <2>6, ReprobeSame
    <3> HIDE DEF y
    <3>2. y.count \in Counts
      BY <3>1 DEF Consistent
    <3> QED BY <2>1, <2>6, <3>1, <3>2, StepStation DEF y
  <2> QED BY <2>2, <2>4, <2>5, <2>6
<1>6. CASE UNCHANGED vars
  BY <1>6, ZenonT(30) DEF vars, StationInv, Net, Frame, Sound, Node
<1> QED BY <1>1, <1>2, <1>3, <1>4, <1>5, <1>6 DEF Next

\* On a LAN that loses nothing, steps keep the warnings and the blocks apart.
LEMMA NextLan == ~Lossy /\ IInv /\ [Next]_vars => Warned(node', net') /\ Apart(node')
<1> SUFFICES ASSUME ~Lossy, IInv, [Next]_vars
             PROVE  Warned(node', net') /\ Apart(node')
  OBVIOUS
<1>0. /\ StationInv /\ Warned(node, net) /\ Apart(node)
      /\ net \in Net /\ \A n \in Nodes : Sound(node[n]) /\ Losses(n) = {{}}
  BY DEF IInv, StationInv, Losses
<1>a. \A n \in Nodes : WarnedBesides(n, node, net)
  BY <1>0 DEF Warned, WarnedBesides
<1>1. ASSUME NEW n \in Nodes, NEW count \in Counts, Acquire(n, count)
      PROVE  Warned(node', net') /\ Apart(node')
  <2>1. PICK start \in PickAddress(count) :
          Step(n, Reprobe([node[n] EXCEPT !.count = count], start), "Probe", {}, net)
    BY <1>0, <1>1, ZenonT(30) DEF Acquire
  <2> DEFINE y == Reprobe([node[n] EXCEPT !.count = count], start)
  <2>2. Consistent(node[n], y) /\ y.st = "Probe"
    BY <1>0, ReprobeConsistent
  <2> HIDE DEF y
  <2>3. y.count \in Counts
    BY <2>2 DEF Consistent
  <2>4. Step(n, y, "Probe", {}, net)
    BY <2>1 DEF y
  <2>5. Warned(node', net')
    BY <1>0, <1>a, <2>2, <2>3, <2>4, StepWarned
  <2>6. Apart(node')
    BY <1>0, <2>2, <2>4, StepApart, ZenonT(30) DEF Step
  <2> QED BY <2>5, <2>6
<1>2. ASSUME NEW n \in Nodes, Release(n)
      PROVE  Warned(node', net') /\ Apart(node')
  <2> DEFINE y == [node[n] EXCEPT !.st = "Initial", !.probeT = FALSE, !.announceT = FALSE]
             z == Dispatched(node[n], y)
  <2>1. Consistent(node[n], y) /\ y.st = "Initial"
    BY <1>0, <1>2, TimerConsistent, ZenonT(30) DEF Release
  <2>2. node' = [node EXCEPT ![n] = z] /\ net' = net
    BY <1>2 DEF Release
  <2> HIDE DEF y
  <2>3. z.st = "Initial"
    BY <1>0, <2>1, DispatchSound
  <2>4. Apart(node')
    BY <1>0, <2>1, <2>2, StepApart, ZenonT(30)
  <2> HIDE DEF z
  <2>5. node'[n] = z /\ \A m \in Nodes \ {n} : node'[m] = node[m]
    BY <1>0, <2>2 DEF StationInv
  <2>6. Warned(node', net')
    BY <1>0, <2>2, <2>3, <2>5 DEF Warned
  <2> QED BY <2>4, <2>6
<1>3. ASSUME NEW n \in Nodes, ProbeTimer(n)
      PROVE  Warned(node', net') /\ Apart(node')
  <2>1. IF node[n].probes > 0
        THEN Step(n, [node[n] EXCEPT !.probes = @ - 1], "Probe", {}, net)
        ELSE Step(n, ProbeComplete(node[n]), "Announce", {}, net)
    BY <1>0, <1>3, ZenonT(30) DEF ProbeTimer
  <2>2. node[n].probeT /\ node[n].st = "Probe" /\ Quiet
    BY <1>0, <1>3 DEF ProbeTimer, TimersMayRun, Sound
  <2>3. CASE node[n].probes > 0
    <3> DEFINE y == [node[n] EXCEPT !.probes = @ - 1]
    <3>1. Consistent(node[n], y) /\ y.st = "Probe"
      BY <1>0, <2>2, <2>3, TimerConsistent, ZenonT(30)
    <3>2. Step(n, y, "Probe", {}, net)
      BY <2>1, <2>3
    <3> HIDE DEF y
    <3>3. y.count \in Counts
      BY <3>1 DEF Consistent
    <3>4. Warned(node', net')
      BY <1>0, <1>a, <3>1, <3>2, <3>3, StepWarned
    <3>5. Apart(node')
      BY <1>0, <3>1, <3>2, StepApart, ZenonT(30) DEF Step
    <3> QED BY <3>4, <3>5
  <2>4. CASE ~(node[n].probes > 0)
    <3> DEFINE y == ProbeComplete(node[n])
    <3>1. /\ Consistent(node[n], y) /\ y.st = "Defend"
          /\ y.start = node[n].start /\ y.count = node[n].count
      BY <1>0, <2>2, TimerConsistent, ZenonT(30)
    <3>2. Step(n, y, "Announce", {}, net)
      BY <2>1, <2>4
    <3> HIDE DEF y
    <3>3. y.count \in Counts
      BY <3>1 DEF Consistent
    <3>4. Warned(node', net')
      BY <1>0, <1>a, <3>1, <3>2, <3>3, StepWarned
    <3>5. \A a, b \in Nodes : \A g : ~In(net, a, b, g)
      BY <2>2 DEF Quiet, In
    <3>6. \A m \in Nodes \ {n} : node[m].st = "Defend" => ~Overlaps(node[n], node[m])
      BY <1>0, <2>2, <3>5 DEF Warned
    <3>7. Apart(node')
      BY <1>0, <3>1, <3>2, <3>6, StepApart, ZenonT(30) DEF Step
    <3> QED BY <3>4, <3>7
  <2> QED BY <2>3, <2>4
<1>b. \A n, m \in Nodes : m # n /\ node[n].st = "Defend" /\ node[m].st = "Defend"
        => ~Overlaps(node[n], node[m])
  BY <1>0 DEF Apart
<1>4. ASSUME NEW n \in Nodes, AnnounceTimer(n)
      PROVE  Warned(node', net') /\ Apart(node')
  <2>1. Step(n, node[n], "Announce", {}, net)
    BY <1>0, <1>4, ZenonT(30) DEF AnnounceTimer
  <2>2. Consistent(node[n], node[n])
    BY <1>0, TimerConsistent, ZenonT(30)
  <2>3. node[n].st = "Defend" /\ node[n].count \in Counts
    BY <1>0, <1>4 DEF AnnounceTimer, Sound
  <2>4. Warned(node', net')
    BY <1>0, <1>a, <2>1, <2>2, <2>3, StepWarned
  <2>5. Apart(node')
    BY <1>0, <1>b, <2>1, <2>2, <2>3, StepApart, ZenonT(30) DEF Step
  <2> QED BY <2>4, <2>5
<1>5. ASSUME NEW from \in Nodes, NEW n \in Nodes, Receive(from, n)
      PROVE  Warned(node', net') /\ Apart(node')
  <2> DEFINE q == [net EXCEPT ![from][n] = Tail(@)]
             r == Reaction(node[n], n, from, Head(net[from][n]))
  <2>1. q \in Net /\ WarnedBesides(n, node, q) /\ (r = "none" => Warned(node, q))
    BY <1>0, <1>5, PopType, PopBesides, PopWarned, ZenonT(30) DEF Receive
  <2>2. \/ r = "none" /\ net' = q /\ UNCHANGED node
        \/ /\ r = "defend" /\ Step(n, node[n], "Defend", {}, q)
        \/ /\ r = "reprobe"
           /\ \E start \in PickAddress(node[n].count) :
                 Step(n, Reprobe(node[n], start), "Probe", {}, q)
    BY <1>0, <1>5, ZenonT(30) DEF Receive
  <2>3. /\ r # "none" => node[n].st \in {"Probe", "Defend"} /\ node[n].count \in Counts
        /\ r = "defend" => node[n].st = "Defend"
    BY <1>0 DEF Reaction, Sound
  <2> HIDE DEF q, r
  <2>4. CASE r = "none" /\ net' = q /\ UNCHANGED node
    BY <1>0, <2>1, <2>4
  <2>5. CASE r = "defend" /\ Step(n, node[n], "Defend", {}, q)
    <3>1. Consistent(node[n], node[n])
      BY <1>0, TimerConsistent, ZenonT(30)
    <3>2. Warned(node', net')
      BY <1>0, <2>1, <2>3, <2>5, <3>1, StepWarned
    <3>3. Apart(node')
      BY <1>0, <1>b, <2>3, <2>5, <3>1, StepApart, ZenonT(30) DEF Step
    <3> QED BY <3>2, <3>3
  <2>6. ASSUME r = "reprobe", NEW start \in PickAddress(node[n].count),
               Step(n, Reprobe(node[n], start), "Probe", {}, q)
        PROVE  Warned(node', net') /\ Apart(node')
    <3> DEFINE y == Reprobe(node[n], start)
    <3>1. Consistent(node[n], y) /\ y.st = "Probe"
      BY <1>0, <2>3, <2>6, ReprobeSame
    <3> HIDE DEF y
    <3>2. Step(n, y, "Probe", {}, q)
      BY <2>6 DEF y
    <3>3. y.count \in Counts
      BY <3>1 DEF Consistent
    <3>4. Warned(node', net')
      BY <1>0, <2>1, <3>1, <3>2, <3>3, StepWarned
    <3>5. Apart(node')
      BY <1>0, <3>1, <3>2, StepApart, ZenonT(30) DEF Step
    <3> QED BY <3>4, <3>5
  <2> QED BY <2>2, <2>4, <2>5, <2>6
<1>6. CASE UNCHANGED vars
  BY <1>0, <1>6 DEF vars
<1> QED BY <1>1, <1>2, <1>3, <1>4, <1>5, <1>6 DEF Next

-----------------------------------------------------------------------------
\* Whatever the LAN loses, every station keeps its types and a block inside the
\* pool (pick_address), the timer of its state and the gate of its block.
THEOREM StationCorrect == Spec => []StationAgrees
<1>1. Init => StationInv
  BY InitInv DEF IInv
<1>2. StationInv => StationAgrees
  BY DEF StationInv, Sound, Net, StationAgrees, TypeOK, TimerFollowsState, GateFollowsBlock
<1> QED BY <1>1, <1>2, NextStation, PTL DEF Spec

\* The talker's gate (ready_) is open exactly while dispatch() has reported a
\* defended block, and the published destination is that block's.
THEOREM GateCorrect == Spec => []GateFollowsBlock
BY StationCorrect, PTL DEF StationAgrees

\* For any number of stations, any pool and any block sizes, on a LAN that
\* delivers its frames no address is defended by two stations.
THEOREM UniqueCorrect == ASSUME Lossy = FALSE PROVE Spec => []UniqueBlocks
<1>1. Init => IInv
  BY InitInv
<1>2. IInv /\ [Next]_vars => IInv'
  <2> SUFFICES ASSUME IInv, [Next]_vars PROVE IInv'
    OBVIOUS
  <2>1. StationInv' /\ Warned(node', net') /\ Apart(node')
    BY NextStation, NextLan DEF IInv
  <2> QED BY <2>1 DEF IInv, Warned, Apart, In, Overlaps, FrameOf
<1>3. IInv => UniqueBlocks
  <2> SUFFICES ASSUME IInv, NEW n \in Nodes, NEW m \in Nodes, n # m
               PROVE  Defended(n) \cap Defended(m) = {}
    BY DEF UniqueBlocks
  <2>1. CASE node[n].st = "Defend" /\ node[m].st = "Defend"
    <3>1. ~Overlaps(node[n], node[m])
      BY <2>1 DEF IInv, Apart
    <3>2. /\ node[n] \in Node /\ node[m] \in Node
          /\ node[n].count \in 1..PoolSize /\ node[m].count \in 1..PoolSize
      BY <2>1, MaapAssumption, ZenonT(30) DEF IInv, StationInv, Sound
    <3> QED BY <2>1, <3>1, <3>2, OverlapsIsIntersection DEF Defended
  <2>2. CASE ~(node[n].st = "Defend" /\ node[m].st = "Defend")
    BY <2>2 DEF Defended
  <2> QED BY <2>1, <2>2
<1> QED BY <1>1, <1>2, <1>3, PTL DEF Spec

-----------------------------------------------------------------------------
\* A step changes one station, and one that goes on defending keeps its block.
LEMMA OneStation ==
  ASSUME StationInv, [Next]_vars, Nodes # {}
  PROVE  \E n \in Nodes :
            /\ \A m \in Nodes \ {n} : node'[m] = node[m]
            /\ node[n].st = "Defend" /\ node'[n].st = "Defend"
                  => node'[n].start = node[n].start /\ node'[n].count = node[n].count
<1> DEFINE Kept(n) ==
             /\ \A m \in Nodes \ {n} : node'[m] = node[m]
             /\ node[n].st = "Defend" /\ node'[n].st = "Defend"
                   => node'[n].start = node[n].start /\ node'[n].count = node[n].count
<1>0. node \in [Nodes -> Node]
  BY DEF StationInv
<1>1. ASSUME NEW n \in Nodes, NEW y \in Node, NEW kind, NEW lost, NEW q, Step(n, y, kind, lost, q),
             node[n].st = "Defend" /\ y.st = "Defend"
                => y.start = node[n].start /\ y.count = node[n].count
      PROVE  Kept(n)
  <2>1. node' = [node EXCEPT ![n] = Dispatched(node[n], y)]
    BY <1>1 DEF Step
  <2>2. /\ Dispatched(node[n], y).st = y.st
        /\ Dispatched(node[n], y).start = y.start
        /\ Dispatched(node[n], y).count = y.count
    BY <1>0, <1>1 DEF Dispatched, Acquired, Node
  <2> QED BY <1>0, <1>1, <2>1, <2>2
<1> SUFFICES \E n \in Nodes : Kept(n)
  OBVIOUS
<1>2. ASSUME NEW n \in Nodes, NEW count \in Counts, Acquire(n, count) PROVE Kept(n)
  <2>1. node[n].st # "Defend"
    BY <1>2 DEF Acquire
  <2>2. \A m \in Nodes \ {n} : node'[m] = node[m]
    BY <1>0, <1>2 DEF Acquire, Step
  <2> QED BY <2>1, <2>2
<1>3. ASSUME NEW n \in Nodes, Release(n) PROVE Kept(n)
  <2>1. node' = [node EXCEPT ![n] = Dispatched(node[n],
                   [node[n] EXCEPT !.st = "Initial", !.probeT = FALSE, !.announceT = FALSE])]
    BY <1>3 DEF Release
  <2>2. node'[n].st # "Defend"
    BY <1>0, <2>1 DEF Dispatched, Acquired, Node
  <2> QED BY <1>0, <2>1, <2>2
<1>4. ASSUME NEW n \in Nodes, ProbeTimer(n) PROVE Kept(n)
  <2>1. node[n].st # "Defend"
    BY <1>4 DEF ProbeTimer, StationInv, Sound
  <2>2. \A m \in Nodes \ {n} : node'[m] = node[m]
    BY <1>0, <1>4 DEF ProbeTimer, Step
  <2> QED BY <2>1, <2>2
<1>5. ASSUME NEW n \in Nodes, AnnounceTimer(n) PROVE Kept(n)
  <2>1. PICK lost \in Losses(n) : Step(n, node[n], "Announce", lost, net)
    BY <1>5 DEF AnnounceTimer
  <2> QED BY <1>0, <1>1, <2>1
<1>6. ASSUME NEW from \in Nodes, NEW n \in Nodes, Receive(from, n) PROVE Kept(n)
  <2> DEFINE f == Head(net[from][n])
             q == [net EXCEPT ![from][n] = Tail(@)]
             r == Reaction(node[n], n, from, f)
  <2>1. CASE UNCHANGED node
    BY <2>1
  <2>2. CASE \E lost \in Losses(n) : Step(n, node[n], "Defend", lost, q)
    <3>1. PICK lost \in Losses(n) : Step(n, node[n], "Defend", lost, q)
      BY <2>2
    <3> HIDE DEF q
    <3> QED BY <1>0, <1>1, <3>1
  <2>3. CASE \E start \in PickAddress(node[n].count), lost \in Losses(n) :
                Step(n, Reprobe(node[n], start), "Probe", lost, q)
    <3>1. PICK start \in PickAddress(node[n].count), lost \in Losses(n) :
             Step(n, Reprobe(node[n], start), "Probe", lost, q)
      BY <2>3
    <3> HIDE DEF q
    <3>2. node' = [node EXCEPT ![n] = Dispatched(node[n], Reprobe(node[n], start))]
      BY <3>1 DEF Step
    <3>3. node'[n].st # "Defend"
      BY <1>0, <3>2 DEF Dispatched, Acquired, Reprobe, Node
    <3> QED BY <1>0, <3>2, <3>3
  <2> QED BY <1>6, <2>1, <2>2, <2>3, ZenonT(30) DEF Receive
<1>7. CASE UNCHANGED vars
  <2>1. PICK n \in Nodes : TRUE
    OBVIOUS
  <2>2. Kept(n)
    BY <1>7 DEF vars
  <2> QED BY <2>2
<1> HIDE DEF Kept
<1> QED BY <1>2, <1>3, <1>4, <1>5, <1>6, <1>7 DEF Next

\* Seen by the talkers, the stations on a LAN that delivers implement
\* AddressBlocks: a station publishes (ready_, dest_mac) a block that nobody
\* else has published any address of, and withdraws it before the next one.
THEOREM BlocksImplemented ==
  ASSUME Lossy = FALSE PROVE Spec => ImplementsBlocks
<1> DEFINE Safe == StationInv /\ UniqueBlocks
<1>1. Init => Blocks!Init
  BY DEF Init, Blocks!Init, Published
<1>2. Safe /\ Safe' /\ [Next]_vars => [Blocks!Next]_([n \in Nodes |-> Published(n)])
  <2> SUFFICES ASSUME Safe, Safe', [Next]_vars
               PROVE  Blocks!Next \/ UNCHANGED [n \in Nodes |-> Published(n)]
    OBVIOUS
  <2>1. CASE Nodes = {}
    BY <2>1
  <2>2. CASE Nodes # {}
    <3>1. PICK n \in Nodes :
            /\ \A m \in Nodes \ {n} : node'[m] = node[m]
            /\ node[n].st = "Defend" /\ node'[n].st = "Defend"
                  => node'[n].start = node[n].start /\ node'[n].count = node[n].count
      BY <2>2, OneStation
    <3>2. \A m \in Nodes : /\ Published(m) = Defended(m)
                           /\ Published(m)' = Defended(m)'
      BY DEF StationInv, Sound, Published, Defended
    <3>3. \A m \in Nodes \ {n} : Published(m)' = Published(m)
      BY <3>1 DEF Published
    <3>4. CASE Published(n)' = Published(n)
      BY <3>3, <3>4
    <3>5. CASE Published(n) # {} /\ Published(n)' # {}
      <4>1. node[n].st = "Defend" /\ node'[n].st = "Defend"
        BY <3>2, <3>5 DEF Defended
      <4>2. Defended(n)' = Defended(n)
        BY <3>1, <4>1 DEF Defended
      <4> QED BY <3>2, <3>4, <4>2
    <3>6. CASE Published(n)' = {} /\ Published(n) # {}
      <4>1. Blocks!GiveUp(n)
        BY <3>3, <3>6, ZenonT(30) DEF Blocks!GiveUp
      <4> QED BY <4>1 DEF Blocks!Next
    <3>7. CASE Published(n) = {} /\ Published(n)' # {}
      <4> DEFINE B == Published(n)'
      <4>1. B \in SUBSET (0..(PoolSize - 1))
        <5> DEFINE x == node'[n]
        <5>1. /\ x \in Node /\ x.start + x.count <= PoolSize
              /\ x.ready => x.dest = x.start
          BY DEF StationInv, Sound
        <5>2. x.start \in Nat /\ x.count \in Nat
          BY <5>1, MaapAssumption DEF Node
        <5>3. B = IF x.ready THEN x.dest..(x.dest + x.count - 1) ELSE {}
          BY DEF Published
        <5> HIDE DEF x, B
        <5> QED BY <5>1, <5>2, <5>3, MaapAssumption
      <4>2. \A m \in Nodes \ {n} : Published(m) \cap B = {}
        BY <3>2, <3>3 DEF UniqueBlocks
      <4>3. Blocks!Claim(n, B)
        BY <3>3, <3>7, <4>2, ZenonT(30) DEF Blocks!Claim
      <4> QED BY <4>1, <4>3 DEF Blocks!Next
    <3> QED BY <3>4, <3>5, <3>6, <3>7
  <2> QED BY <2>1, <2>2
<1>3. Spec => []StationInv
  <2>1. Init => StationInv
    BY InitInv DEF IInv
  <2> QED BY <2>1, NextStation, PTL DEF Spec
<1>4. Spec => []UniqueBlocks
  BY UniqueCorrect, ZenonT(30)
<1> QED BY <1>1, <1>2, <1>3, <1>4, PTL DEF Spec, ImplementsBlocks, Blocks!Spec

-----------------------------------------------------------------------------
(***************************************************************************)
(* The PTP bridge and its timer.                                           *)
(***************************************************************************)
Uniform(w) == \A i \in DOMAIN w : w[i] = w[1]

\* Some reading that a fit may still see is of a timeline the PHC has left.
OldReadings ==
    /\ sampler.pc \notin {"none", "step2", "step3"}
    /\ ~(sampler.pc = "top" /\ bridge.reset)
    /\ \E i \in DOMAIN sampler.window : sampler.window[i] # phc

Asked == IF api = "epoch" THEN 1 ELSE 0
Exposed == IF OldReadings THEN 1 ELSE 0

\* Every new epoch is paid for by a disturbance: by a reset_epoch() that has
\* begun, or by the step of the PHC that left old readings in the window.
Budget == bridge.epoch + env.left + Asked + Exposed <= MaxEvents

\* What update_mapping() carries from its fit to its last store.
Fitted ==
    /\ bridge.ro.ep <= bridge.epoch
    /\ sampler.last.ep <= bridge.epoch
    /\ sampler.pc \in {"fit", "pub", "good", "ever", "step1"} =>
           Len(sampler.window) >= MinSamples
    /\ sampler.pc = "step1" => ~Uniform(sampler.window)
    /\ sampler.pc \in {"pub", "good", "ever"} /\ sampler.quiet =>
           Uniform(sampler.window)
    /\ sampler.pc = "good" =>
           /\ bridge.ro.tl = FitOf(sampler.window)
           /\ bridge.ro.good = sampler.quiet
           /\ \/ bridge.ro.late
              \/ bridge.ro.ep < bridge.epoch
              \/ ~ResetPending
    /\ sampler.pc = "ever" => sampler.quiet

\* The epoch is still that of the last healthy mapping, so the next fit is of
\* its timeline or is seen as a step.
Guarded ==
    /\ ~ResetPending
    /\ sampler.pc \notin {"step2", "step3"}
    /\ bridge.ever \/ sampler.pc = "ever"
    /\ sampler.pc \in {"top", "read", "pub", "good", "ever"} =>
           /\ Len(sampler.window) >= MinSamples
           /\ \A i \in DOMAIN sampler.window : sampler.window[i] = sampler.last.tl
    /\ sampler.pc = "fit" => sampler.window[1] = sampler.last.tl

Trusted == sampler.last.good /\ ~sampler.last.late

Guard ==
    Trusted =>
        /\ sampler.last.ep < bridge.epoch \/ Guarded
        /\ sampler.pc = "good" /\ bridge.ro.tl # sampler.last.tl =>
               sampler.last.ep < bridge.ro.ep

\* A reading in progress: its mapping is no newer than the published one, and
\* its epoch, once loaded, no older than its mapping.
Loaded ==
    /\ conv.m.ro.ep <= bridge.ro.ep
    /\ EpochNotOlder

TimerLoaded ==
    /\ timer.m.ro.ep <= bridge.ro.ep
    /\ timer.before.ro.ep <= bridge.ro.ep
    /\ timer.pc \in {"healthy", "done"} => timer.m.ro.ep <= timer.m.epoch
    /\ timer.call = "after" /\ timer.pc \in {"epoch", "healthy", "done"} =>
           timer.before.ro.ep <= timer.m.ro.ep
    /\ WakeWithinEpoch

BridgeIInv == BridgeTypeOK /\ Budget /\ Fitted /\ Guard
ClientIInv == BridgeIInv /\ Loaded /\ TimerTypeOK /\ TimerLoaded

-----------------------------------------------------------------------------
(***************************************************************************)
(* Windows and fits.                                                       *)
(***************************************************************************)
\* A window takes a reading: it stays within its size, a full one drops its
\* oldest reading, and nothing in it is new but the reading.
LEMMA PushedWindow ==
    ASSUME phc \in Timelines, NEW w \in Seq(Timelines), Len(w) <= WindowSize
    PROVE  /\ Pushed(w) \in Seq(Timelines)
           /\ Len(Pushed(w)) <= WindowSize
           /\ Len(w) >= MinSamples => Len(Pushed(w)) >= MinSamples
           /\ \A i \in DOMAIN Pushed(w) :
                 Pushed(w)[i] = phc \/ \E j \in DOMAIN w : Pushed(w)[i] = w[j]
           /\ Len(w) >= MinSamples =>
                 \E j \in DOMAIN w : Pushed(w)[1] = w[j]
<1> DEFINE s == Append(w, phc)
<1>1. /\ s \in Seq(Timelines) /\ Len(s) = Len(w) + 1
      /\ \A i \in 1..Len(w) : s[i] = w[i]
      /\ s[Len(w) + 1] = phc
  OBVIOUS
<1>2. DOMAIN w = 1..Len(w) /\ Len(w) \in Nat
  OBVIOUS
<1>5. /\ MinSamples \in Nat /\ WindowSize \in Nat
      /\ 3 <= MinSamples /\ MinSamples <= WindowSize
  BY PtpBridgeAssumption
<1> HIDE DEF s
<1>3. CASE Len(s) > WindowSize
  <2> DEFINE t == Tail(s)
  <2>1. Pushed(w) = t
    BY <1>3 DEF Pushed, s
  <2>2. /\ t \in Seq(Timelines) /\ Len(t) = Len(w)
        /\ \A i \in 1..Len(w) : t[i] = s[i + 1]
    BY <1>1, <1>2, <1>3
  <2> HIDE DEF t
  <2>3. DOMAIN t = 1..Len(w)
    BY <2>2
  <2>4. ASSUME NEW i \in 1..Len(w)
        PROVE  t[i] = phc \/ \E j \in DOMAIN w : t[i] = w[j]
    <3>1. CASE i = Len(w)
      BY <1>1, <1>2, <2>2, <3>1
    <3>2. CASE i < Len(w)
      <4>1. i + 1 \in 1..Len(w) /\ t[i] = w[i + 1]
        BY <1>1, <1>2, <2>2, <3>2
      <4>2. \E j \in DOMAIN w : t[i] = w[j]
        <5>1. i + 1 \in DOMAIN w
          BY <1>2, <4>1
        <5> WITNESS i + 1 \in DOMAIN w
        <5> QED BY <4>1
      <4> QED BY <4>2
    <3>3. i = Len(w) \/ i < Len(w)
      OBVIOUS
    <3> QED BY <3>1, <3>2, <3>3, ZenonT(30)
  <2>5. Len(w) >= MinSamples => \E j \in DOMAIN w : t[1] = w[j]
    <3>1. Len(w) >= MinSamples => 2 \in DOMAIN w /\ t[1] = w[2]
      BY <1>1, <1>2, <1>5, <2>2
    <3> QED BY <3>1
  <2> QED BY <1>2, <2>1, <2>2, <2>3, <2>4, <2>5
<1>4. CASE ~(Len(s) > WindowSize)
  <2>1. Pushed(w) = s /\ DOMAIN s = 1..(Len(w) + 1)
    BY <1>1, <1>4 DEF Pushed, s
  <2>2. ASSUME NEW i \in 1..(Len(w) + 1)
        PROVE  s[i] = phc \/ \E j \in DOMAIN w : s[i] = w[j]
    BY <1>1, <1>2
  <2>3. Len(w) >= MinSamples => 1 \in DOMAIN w /\ s[1] = w[1]
    BY <1>1, <1>2, <1>5
  <2> QED BY <1>1, <1>2, <1>4, <1>5, <2>1, <2>2, <2>3
<1> QED BY <1>3, <1>4

\* A fit is Mixed exactly when the readings are of several timelines.
LEMMA FitOfWindow ==
    ASSUME NEW w \in Seq(Timelines), Len(w) >= MinSamples
    PROVE  /\ FitOf(w) \in Timelines \cup {Mixed}
           /\ Uniform(w) <=> FitOf(w) # Mixed
           /\ Uniform(w) => FitOf(w) = w[1]
           /\ 1 \in DOMAIN w
           /\ StepSeen(w) <=> ~Uniform(w)
<1>1. 1 \in DOMAIN w /\ w[1] \in Timelines /\ w[1] # Mixed
  BY PtpBridgeAssumption DEF Mixed
<1> QED BY <1>1 DEF FitOf, Uniform, StepSeen

\* Readings of one timeline make a uniform window of that timeline.
LEMMA AllOfOne ==
    ASSUME NEW w \in Seq(Timelines), Len(w) >= MinSamples, NEW t,
           \A i \in DOMAIN w : w[i] = t
    PROVE  Uniform(w) /\ FitOf(w) = t
BY FitOfWindow DEF Uniform


-----------------------------------------------------------------------------
(***************************************************************************)
(* Types.                                                                  *)
(***************************************************************************)
EnvOK == \E e \in Environments : env \in [kinds : {e.kinds}, left : 0..e.left]

Bridge == [running : BOOLEAN, ro : Mapping, epoch : Epoch,
           healthy : BOOLEAN, ever : BOOLEAN, reset : BOOLEAN]

Sampler == [pc : {"none", "top", "read", "fit", "pub", "good", "ever",
                  "step1", "step2", "step3"},
            window : Seq(Timelines), quiet : BOOLEAN, last : Mapping]

LEMMA TypeParts ==
    BridgeTypeOK <=>
        /\ EnvOK
        /\ phc \in Timelines
        /\ bridge \in Bridge
        /\ sampler \in Sampler
        /\ Len(sampler.window) <= WindowSize
        /\ api \in {"idle", "epoch", "healthy", "ever", "reset"}
        /\ conv \in [pc : {"ro", "epoch", "healthy", "done"}, m : Reading]
BY DEF BridgeTypeOK, EnvOK, Bridge, Sampler

LEMMA EnvBound ==
    ASSUME EnvOK
    PROVE  env.left \in Nat /\ env.left <= MaxEvents
<1> PICK e \in Environments : env \in [kinds : {e.kinds}, left : 0..e.left]
  BY DEF EnvOK
<1>1. e.left \in 0..MaxEvents /\ MaxEvents \in Nat
  BY PtpBridgeAssumption
<1> QED BY <1>1

LEMMA EnvSpent ==
    ASSUME EnvOK, env.left > 0, env' = Spent
    PROVE  EnvOK' /\ env'.left = env.left - 1 /\ env'.kinds = env.kinds
<1> PICK e \in Environments : env \in [kinds : {e.kinds}, left : 0..e.left]
  BY DEF EnvOK
<1>1. e.left \in 0..MaxEvents /\ MaxEvents \in Nat
  BY PtpBridgeAssumption
<1>2. env' \in [kinds : {e.kinds}, left : 0..e.left]
  BY <1>1 DEF Spent
<1> QED BY <1>1, <1>2 DEF EnvOK, Spent

LEMMA EpochNat == /\ Epoch \subseteq Nat
                  /\ 0 \in Epoch
                  /\ \A n \in Nat : n <= MaxEvents => n \in Epoch
                  /\ MaxEvents \in Nat
BY PtpBridgeAssumption DEF Epoch

\* The numbers of a well typed state.
LEMMA Numbers ==
    ASSUME BridgeTypeOK
    PROVE  /\ bridge.epoch \in Nat /\ bridge.ro.ep \in Nat
           /\ sampler.last.ep \in Nat /\ env.left \in Nat /\ MaxEvents \in Nat
           /\ Asked \in {0, 1} /\ Exposed \in {0, 1}
<1>1. EnvOK /\ bridge \in Bridge /\ sampler \in Sampler
  BY TypeParts
<1>2. bridge.epoch \in Nat /\ bridge.ro.ep \in Nat /\ sampler.last.ep \in Nat
  BY <1>1, EpochNat, ZenonT(30) DEF Bridge, Sampler, Mapping
<1> QED BY <1>1, <1>2, EnvBound, EpochNat DEF Asked, Exposed

LEMMA UnsetType == Unset \in Mapping /\ NoReading \in Reading
BY EpochNat DEF Unset, NoReading, Mapping, Reading

LEMMA BridgeInitInv ==
    ASSUME BridgeInit
    PROVE  BridgeIInv
<1>1. EnvOK
  <2>1. env \in Environments
    BY DEF BridgeInit
  <2>2. env \in [kinds : SUBSET {"forward", "backward", "restart", "reset",
                                 "signal", "convert", "timer"},
                 left : 0..MaxEvents]
    BY <2>1, PtpBridgeAssumption
  <2>3. env.left \in 0..env.left
    BY <2>2, EpochNat
  <2>4. env \in [kinds : {env.kinds}, left : 0..env.left]
    BY <2>2, <2>3
  <2> QED BY <2>1, <2>4 DEF EnvOK
<1>2. BridgeTypeOK
  <2>1. bridge \in Bridge
    BY UnsetType, EpochNat DEF BridgeInit, Bridge
  <2>2. sampler \in Sampler /\ Len(sampler.window) <= WindowSize
    BY UnsetType, PtpBridgeAssumption DEF BridgeInit, Sampler
  <2>3. conv \in [pc : {"ro", "epoch", "healthy", "done"}, m : Reading]
    BY UnsetType DEF BridgeInit
  <2> QED BY <1>1, <2>1, <2>2, <2>3, TypeParts DEF BridgeInit
<1>3. Budget
  BY <1>1, EnvBound, EpochNat DEF BridgeInit, Budget, Asked, Exposed, OldReadings
<1>4. Fitted
  BY DEF BridgeInit, Fitted, Unset
<1>5. Guard
  BY DEF BridgeInit, Guard, Trusted, Unset
<1> QED BY <1>2, <1>3, <1>4, <1>5 DEF BridgeIInv


-----------------------------------------------------------------------------
(***************************************************************************)
(* The steps of the bridge.                                                *)
(***************************************************************************)
\* What a step that leaves the sampler and the bridge alone may do.
LEMMA PhcStepInv ==
    ASSUME BridgeIInv, NEW t \in Timelines, PhcStep(t)
    PROVE  BridgeIInv'
<1>1. EnvOK /\ env.left > 0
  <2>1. t > phc \/ t < phc
    BY PtpBridgeAssumption DEF BridgeIInv, BridgeTypeOK, PhcStep
  <2> QED BY <2>1, TypeParts DEF BridgeIInv, PhcStep, Meets
<1>2. EnvOK' /\ env'.left = env.left - 1
  BY <1>1, EnvSpent, ZenonT(30) DEF PhcStep
<1>3. BridgeTypeOK'
  BY <1>2, TypeParts DEF BridgeIInv, PhcStep, BridgeTypeOK, EnvOK
<1>4. Budget'
  BY <1>2, Numbers DEF BridgeIInv, PhcStep, Budget, Asked, Exposed
<1>5. Fitted' /\ Guard'
  BY ZenonT(30) DEF BridgeIInv, PhcStep, Fitted, Guard, Trusted, Guarded, ResetPending
<1> QED BY <1>3, <1>4, <1>5 DEF BridgeIInv


LEMMA StartSamplingInv ==
    ASSUME BridgeIInv, StartSampling
    PROVE  BridgeIInv'
<1>1. EnvOK' /\ env'.left = env.left
  BY TypeParts DEF BridgeIInv, StartSampling, EnvOK
<1>2. bridge' \in Bridge /\ sampler' \in Sampler /\ Len(sampler'.window) <= WindowSize
  <2>1. bridge \in Bridge /\ sampler \in Sampler
    BY TypeParts DEF BridgeIInv
  <2>2. /\ sampler' = [sampler EXCEPT !.pc = "top", !.window = <<>>, !.last = Unset]
        /\ bridge' = [bridge EXCEPT !.running = TRUE, !.reset = FALSE]
    BY DEF StartSampling
  <2>3. <<>> \in Seq(Timelines) /\ Len(<<>>) = 0 /\ 0 <= WindowSize
    BY PtpBridgeAssumption
  <2> QED BY <2>1, <2>2, <2>3, UnsetType, ZenonT(30) DEF Bridge, Sampler
<1>3. BridgeTypeOK'
  BY <1>1, <1>2, TypeParts DEF BridgeIInv, StartSampling, BridgeTypeOK, EnvOK, Bridge, Sampler
<1>4. /\ sampler'.window = <<>> /\ sampler'.pc = "top" /\ sampler'.last = Unset
      /\ bridge'.epoch = bridge.epoch /\ bridge'.ro = bridge.ro
  BY TypeParts DEF BridgeIInv, StartSampling, Bridge, Sampler
<1>5. Budget'
  BY <1>1, <1>4, Numbers
     DEF BridgeIInv, StartSampling, Budget, Asked, Exposed, OldReadings
<1>6. Fitted' /\ Guard'
  BY <1>4, Numbers DEF BridgeIInv, Fitted, Guard, Trusted, Unset
<1> QED BY <1>3, <1>5, <1>6 DEF BridgeIInv

LEMMA StopSamplingInv ==
    ASSUME BridgeIInv, StopSampling
    PROVE  BridgeIInv'
<1>1. EnvOK' /\ env'.left = env.left - 1
  BY TypeParts, EnvSpent DEF BridgeIInv, StopSampling, Meets
<1>2. /\ bridge' \in Bridge /\ bridge'.epoch = bridge.epoch /\ bridge'.ro = bridge.ro
      /\ bridge'.reset = bridge.reset /\ bridge'.ever = bridge.ever
  BY TypeParts, ZenonT(30) DEF BridgeIInv, StopSampling, Bridge
<1>3. BridgeTypeOK'
  BY <1>1, <1>2, TypeParts
     DEF BridgeIInv, StopSampling, BridgeTypeOK, EnvOK, Bridge
<1>4. Budget'
  BY <1>1, <1>2, Numbers
     DEF BridgeIInv, StopSampling, Budget, Asked, Exposed, OldReadings
<1>5. Fitted' /\ Guard'
  BY <1>2 DEF BridgeIInv, StopSampling, Fitted, Guard, Trusted, Guarded, ResetPending
<1> QED BY <1>3, <1>4, <1>5 DEF BridgeIInv

\* The stores of reset_epoch(), one after the other.
LEMMA ResetEpochInv ==
    ASSUME BridgeIInv, ResetEpoch
    PROVE  BridgeIInv'
<1>0. /\ BridgeTypeOK /\ EnvOK /\ bridge \in Bridge /\ sampler \in Sampler
      /\ api \in {"idle", "epoch", "healthy", "ever", "reset"}
      /\ sampler' = sampler /\ phc' = phc /\ conv' = conv
  BY TypeParts DEF BridgeIInv, ResetEpoch
<1>1. CASE api = "idle"
  <2>1. api' = "epoch" /\ bridge' = bridge /\ env' = Spent /\ env.left > 0
    BY <1>1 DEF ResetEpoch, Meets
  <2>2. EnvOK' /\ env'.left = env.left - 1
    BY <1>0, <2>1, EnvSpent
  <2>3. BridgeTypeOK'
    BY <1>0, <2>1, <2>2 DEF BridgeTypeOK, EnvOK
  <2>4. Budget'
    BY <1>0, <1>1, <2>1, <2>2, Numbers
       DEF BridgeIInv, Budget, Asked, Exposed, OldReadings
  <2>5. Fitted' /\ Guard'
    BY <1>0, <1>1, <2>1, ZenonT(30)
       DEF BridgeIInv, Fitted, Guard, Trusted, Guarded, ResetPending
  <2> QED BY <2>3, <2>4, <2>5 DEF BridgeIInv
<1>2. CASE api = "epoch"
  <2>1. /\ api' = "healthy" /\ env' = env
        /\ bridge' = [bridge EXCEPT !.epoch = @ + 1]
    BY <1>2 DEF ResetEpoch
  <2>2. bridge.epoch + 1 \in Epoch
    BY <1>0, <1>2, Numbers, EpochNat DEF BridgeIInv, Budget, Asked
  <2>3. /\ bridge' \in Bridge /\ bridge'.epoch = bridge.epoch + 1
        /\ bridge'.ro = bridge.ro /\ bridge'.reset = bridge.reset
        /\ bridge'.ever = bridge.ever
    BY <1>0, <2>1, <2>2 DEF Bridge
  <2>4. BridgeTypeOK'
    BY <1>0, <2>1, <2>3 DEF BridgeTypeOK, Bridge
  <2>5. Budget'
    BY <1>0, <1>2, <2>1, <2>3, Numbers
       DEF BridgeIInv, Budget, Asked, Exposed, OldReadings
  <2>6. Fitted' /\ Guard'
    BY <1>0, <1>2, <2>1, <2>3, Numbers
       DEF BridgeIInv, Fitted, Guard, Trusted, Guarded, ResetPending
  <2> QED BY <2>4, <2>5, <2>6 DEF BridgeIInv
<1>3. CASE api \in {"healthy", "ever", "reset"}
  <2>1. /\ api' \in {"ever", "reset", "idle"} /\ env' = env
        /\ bridge' \in Bridge /\ bridge'.epoch = bridge.epoch
        /\ bridge'.ro = bridge.ro
        /\ api' = "idle" => bridge'.reset
        /\ bridge.reset => bridge'.reset
    BY <1>0, <1>3, ZenonT(30) DEF ResetEpoch, Bridge
  <2>2. ResetPending /\ ResetPending'
    BY <1>3, <2>1 DEF ResetPending
  <2>3. BridgeTypeOK'
    BY <1>0, <2>1 DEF BridgeTypeOK, Bridge
  <2>4. Budget'
    BY <1>0, <1>3, <2>1, Numbers
       DEF BridgeIInv, Budget, Asked, Exposed, OldReadings
  <2>5. Fitted' /\ Guard'
    BY <1>0, <2>1, <2>2, Numbers, ZenonT(30) DEF BridgeIInv, Fitted, Guard, Trusted, Guarded
  <2> QED BY <2>3, <2>4, <2>5 DEF BridgeIInv
<1> QED BY <1>0, <1>1, <1>2, <1>3

\* The loop's test and the exchange of the reset request.
LEMMA SamplerTopInv ==
    ASSUME BridgeIInv, SamplerTop
    PROVE  BridgeIInv'
<1>0. /\ BridgeTypeOK /\ EnvOK /\ bridge \in Bridge /\ sampler \in Sampler
      /\ sampler.pc = "top"
      /\ env' = env /\ phc' = phc /\ conv' = conv /\ api' = api
  BY TypeParts DEF BridgeIInv, SamplerTop, At
<1>1. CASE bridge.running
  <2>1. /\ bridge' = [bridge EXCEPT !.reset = FALSE]
        /\ sampler' = [sampler EXCEPT !.pc = "read",
                          !.window = IF bridge.reset THEN <<>> ELSE @]
    BY <1>1 DEF SamplerTop
  <2>2. /\ bridge' \in Bridge /\ bridge'.epoch = bridge.epoch
        /\ bridge'.ro = bridge.ro /\ ~bridge'.reset /\ bridge'.ever = bridge.ever
    BY <1>0, <2>1, ZenonT(30) DEF Bridge
  <2>3. /\ sampler' \in Sampler /\ sampler'.pc = "read"
        /\ sampler'.last = sampler.last
        /\ sampler'.window = IF bridge.reset THEN <<>> ELSE sampler.window
    <3>1. <<>> \in Seq(Timelines)
      OBVIOUS
    <3> QED BY <1>0, <2>1, <3>1, ZenonT(30) DEF Sampler
  <2>4. Len(sampler'.window) <= WindowSize
    BY <1>0, <2>3, PtpBridgeAssumption DEF BridgeTypeOK
  <2>5. BridgeTypeOK'
    BY <1>0, <2>2, <2>3, <2>4 DEF BridgeTypeOK, Bridge, Sampler
  <2>6. Budget'
    BY <1>0, <2>2, <2>3, Numbers
       DEF BridgeIInv, Budget, Asked, Exposed, OldReadings
  <2>7. Fitted' /\ Guard'
    BY <1>0, <2>2, <2>3, ZenonT(30)
       DEF BridgeIInv, Fitted, Guard, Trusted, Guarded, ResetPending
  <2> QED BY <2>5, <2>6, <2>7 DEF BridgeIInv
<1>2. CASE ~bridge.running
  <2>1. bridge' = bridge /\ sampler' = [sampler EXCEPT !.pc = "none"]
    BY <1>2 DEF SamplerTop, Goto
  <2>2. /\ sampler' \in Sampler /\ sampler'.pc = "none"
        /\ sampler'.last = sampler.last /\ sampler'.window = sampler.window
    BY <1>0, <2>1 DEF Sampler
  <2>3. BridgeTypeOK'
    BY <1>0, <2>1, <2>2 DEF BridgeTypeOK, Sampler
  <2>4. Budget'
    BY <1>0, <2>1, <2>2, Numbers
       DEF BridgeIInv, Budget, Asked, Exposed, OldReadings
  <2>5. Fitted' /\ Guard'
    BY <1>0, <2>1, <2>2
       DEF BridgeIInv, Fitted, Guard, Trusted, Guarded, ResetPending
  <2> QED BY <2>3, <2>4, <2>5 DEF BridgeIInv
<1> QED BY <1>1, <1>2

\* Readings that are rejected and readings that are taken.
LEMMA SampleInv ==
    ASSUME BridgeIInv, SampleRejected \/ SampleAccepted
    PROVE  BridgeIInv'
<1>0. /\ BridgeTypeOK /\ bridge \in Bridge /\ sampler \in Sampler
      /\ phc \in Timelines /\ Len(sampler.window) <= WindowSize
      /\ sampler.pc = "read" /\ sampler.window \in Seq(Timelines)
      /\ env' = env /\ phc' = phc /\ conv' = conv /\ api' = api /\ bridge' = bridge
  BY TypeParts DEF BridgeIInv, SampleRejected, SampleAccepted, At, Sampler
<1>1. CASE SampleRejected
  <2>1. /\ sampler' \in Sampler /\ sampler'.pc = "top"
        /\ sampler'.last = sampler.last /\ sampler'.window = sampler.window
    BY <1>0, <1>1 DEF SampleRejected, Goto, Sampler
  <2>2. BridgeTypeOK'
    BY <1>0, <2>1 DEF BridgeTypeOK, Sampler
  <2>3. Budget'
    BY <1>0, <2>1, Numbers DEF BridgeIInv, Budget, Asked, Exposed, OldReadings
  <2>4. Fitted' /\ Guard'
    BY <1>0, <2>1, ZenonT(30) DEF BridgeIInv, Fitted, Guard, Trusted, Guarded, ResetPending
  <2> QED BY <2>2, <2>3, <2>4 DEF BridgeIInv
<1>2. CASE SampleAccepted
  <2> DEFINE w == sampler.window
             pw == Pushed(w)
  <2>1. /\ pw \in Seq(Timelines) /\ Len(pw) <= WindowSize
        /\ Len(w) >= MinSamples => Len(pw) >= MinSamples
        /\ \A i \in DOMAIN pw : pw[i] = phc \/ \E j \in DOMAIN w : pw[i] = w[j]
        /\ Len(w) >= MinSamples => \E j \in DOMAIN w : pw[1] = w[j]
    BY <1>0, PushedWindow, ZenonT(30)
  <2>2. sampler' = [sampler EXCEPT !.window = pw,
                       !.pc = IF Len(pw) >= MinSamples THEN "fit" ELSE "top"]
    BY <1>2 DEF SampleAccepted
  <2> HIDE DEF pw
  <2>3. /\ sampler' \in Sampler /\ sampler'.window = pw
        /\ sampler'.pc = IF Len(pw) >= MinSamples THEN "fit" ELSE "top"
        /\ sampler'.last = sampler.last
    BY <1>0, <2>1, <2>2, ZenonT(30) DEF Sampler
  <2>4. BridgeTypeOK'
    BY <1>0, <2>1, <2>3 DEF BridgeTypeOK, Sampler
  <2>5. Budget'
    <3>1. OldReadings' => OldReadings
      BY <1>0, <2>1, <2>3 DEF OldReadings
    <3> QED BY <1>0, <3>1, Numbers DEF BridgeIInv, Budget, Asked, Exposed
  <2>6. Fitted'
    BY <1>0, <2>3 DEF BridgeIInv, Fitted
  <2>7. Guard'
    <3>1. Trusted /\ Guarded => Guarded'
      <4> SUFFICES ASSUME Trusted, Guarded PROVE Guarded'
        OBVIOUS
      <4>1. Len(w) >= MinSamples /\ \A j \in DOMAIN w : w[j] = sampler.last.tl
        BY <1>0 DEF Guarded
      <4>2. Len(pw) >= MinSamples /\ pw[1] = sampler.last.tl
        BY <2>1, <4>1
      <4> QED BY <1>0, <2>3, <4>2 DEF Guarded, ResetPending
    <3> QED BY <1>0, <2>3, <3>1 DEF BridgeIInv, Guard, Trusted
  <2> QED BY <2>4, <2>5, <2>6, <2>7 DEF BridgeIInv
<1> QED BY <1>1, <1>2

\* The decision of update_mapping(): the step path or the normal one.
LEMMA UpdateMappingInv ==
    ASSUME BridgeIInv, UpdateMapping
    PROVE  BridgeIInv'
<1> DEFINE w == sampler.window
<1>0. /\ BridgeTypeOK /\ bridge \in Bridge /\ sampler \in Sampler
      /\ sampler.pc = "fit" /\ w \in Seq(Timelines) /\ Len(w) >= MinSamples
      /\ env' = env /\ phc' = phc /\ conv' = conv /\ api' = api /\ bridge' = bridge
  BY TypeParts, ZenonT(30) DEF BridgeIInv, UpdateMapping, At, Sampler, Fitted
<1>1. StepSeen(w) <=> ~Uniform(w)
  BY <1>0, FitOfWindow
<1>2. FitOf(w) = Mixed <=> ~Uniform(w)
  BY <1>0, FitOfWindow
<1>3. /\ sampler' \in Sampler /\ sampler'.last = sampler.last
      /\ sampler'.window = w
      /\ \/ sampler'.pc = "step1" /\ bridge.ever /\ ~Uniform(w)
         \/ /\ sampler'.pc = "pub" /\ ~(bridge.ever /\ ~Uniform(w))
            /\ sampler'.quiet => Uniform(w)
  <2>1. CASE bridge.ever /\ StepSeen(w)
    BY <1>0, <1>1, <2>1 DEF UpdateMapping, Goto, Sampler
  <2>2. CASE ~(bridge.ever /\ StepSeen(w))
    <3>1. PICK quiet \in BOOLEAN :
            /\ FitOf(w) = Mixed => ~quiet
            /\ sampler' = [sampler EXCEPT !.pc = "pub", !.quiet = quiet]
      BY <2>2, ZenonT(30) DEF UpdateMapping
    <3> QED BY <1>0, <1>1, <1>2, <2>2, <3>1, ZenonT(30) DEF Sampler
  <2> QED BY <2>1, <2>2
<1>4. BridgeTypeOK'
  BY <1>0, <1>3, ZenonT(30) DEF BridgeTypeOK, Sampler
<1>5. Budget'
  <2>1. OldReadings' => OldReadings
    BY <1>0, <1>3 DEF OldReadings
  <2> QED BY <1>0, <2>1, Numbers DEF BridgeIInv, Budget, Asked, Exposed
<1>6. Fitted'
  BY <1>0, <1>3, ZenonT(30) DEF BridgeIInv, Fitted
<1>7. Guard'
  <2>1. Trusted /\ Guarded => Guarded'
    <3> SUFFICES ASSUME Guarded PROVE Guarded'
      OBVIOUS
    <3>1. bridge.ever /\ w[1] = sampler.last.tl
      BY <1>0 DEF Guarded
    <3>2. sampler'.pc = "pub" => \A i \in DOMAIN w : w[i] = sampler.last.tl
      BY <1>3, <3>1 DEF Uniform
    <3> QED BY <1>0, <1>3, <3>1, <3>2 DEF Guarded, ResetPending
  <2> QED BY <1>0, <1>3, <2>1 DEF BridgeIInv, Guard, Trusted
<1> QED BY <1>4, <1>5, <1>6, <1>7 DEF BridgeIInv

\* The step path: the new epoch is paid for by the old readings.
LEMMA NewEpochInv ==
    ASSUME BridgeIInv, NewEpoch
    PROVE  BridgeIInv'
<1> DEFINE w == sampler.window
<1>0. /\ BridgeTypeOK /\ bridge \in Bridge /\ sampler \in Sampler
      /\ w \in Seq(Timelines)
      /\ env' = env /\ phc' = phc /\ conv' = conv /\ api' = api
  BY TypeParts DEF BridgeIInv, NewEpoch, Sampler
<1>1. CASE sampler.pc = "step1"
  <2>1. /\ bridge' = [bridge EXCEPT !.epoch = @ + 1]
        /\ sampler' = [sampler EXCEPT !.pc = "step2"]
    BY <1>1 DEF NewEpoch, At, Goto
  <2>2. Exposed = 1
    <3>1. ~Uniform(w) /\ Len(w) >= MinSamples
      BY <1>1 DEF BridgeIInv, Fitted
    <3>3. 1 \in DOMAIN w
      BY <1>0, <3>1, FitOfWindow
    <3>2. \E i \in DOMAIN w : w[i] # phc
      BY <3>1, <3>3 DEF Uniform
    <3> QED BY <1>1, <3>2 DEF Exposed, OldReadings
  <2>3. bridge.epoch + 1 \in Epoch
    BY <1>0, <2>2, Numbers, EpochNat DEF BridgeIInv, Budget
  <2>4. /\ bridge' \in Bridge /\ bridge'.epoch = bridge.epoch + 1
        /\ bridge'.ro = bridge.ro
        /\ sampler' \in Sampler /\ sampler'.pc = "step2"
        /\ sampler'.last = sampler.last /\ sampler'.window = w
    BY <1>0, <2>1, <2>3 DEF Bridge, Sampler
  <2>5. BridgeTypeOK'
    BY <1>0, <2>4 DEF BridgeTypeOK, Bridge, Sampler
  <2>6. Budget'
    BY <1>0, <2>2, <2>4, Numbers
       DEF BridgeIInv, Budget, Asked, Exposed, OldReadings
  <2>7. Fitted' /\ Guard'
    BY <1>0, <2>4, Numbers DEF BridgeIInv, Fitted, Guard, Trusted
  <2> QED BY <2>5, <2>6, <2>7 DEF BridgeIInv
<1>2. CASE sampler.pc \in {"step2", "step3"}
  <2>1. /\ bridge' \in Bridge /\ bridge'.epoch = bridge.epoch
        /\ bridge'.ro = bridge.ro
        /\ sampler' \in Sampler
        /\ sampler'.pc = "step3" \/ (sampler'.pc = "top" /\ bridge'.reset)
        /\ sampler'.last = sampler.last /\ sampler'.window = w
    BY <1>0, <1>2, ZenonT(30) DEF NewEpoch, At, Goto, Bridge, Sampler
  <2>2. BridgeTypeOK'
    BY <1>0, <2>1 DEF BridgeTypeOK, Bridge, Sampler
  <2>3. Budget'
    BY <1>0, <1>2, <2>1, Numbers
       DEF BridgeIInv, Budget, Asked, Exposed, OldReadings
  <2>4. Fitted' /\ Guard'
    BY <1>0, <1>2, <2>1, Numbers, ZenonT(30) DEF BridgeIInv, Fitted, Guard, Trusted, Guarded
  <2> QED BY <2>2, <2>3, <2>4 DEF BridgeIInv
<1> QED BY <1>0, <1>1, <1>2 DEF NewEpoch, At

\* The normal path, and what it may never do: replace a trusted healthy
\* mapping by one of another timeline in the same epoch.
LEMMA PublishInv ==
    ASSUME BridgeIInv, PublishMapping
    PROVE  /\ BridgeIInv'
           /\ Trusted /\ sampler'.last.tl # sampler.last.tl =>
                  sampler'.last.ep > sampler.last.ep
<1> DEFINE w == sampler.window
<1>0. /\ BridgeTypeOK /\ bridge \in Bridge /\ sampler \in Sampler
      /\ w \in Seq(Timelines)
      /\ env' = env /\ phc' = phc /\ conv' = conv /\ api' = api
  BY TypeParts DEF BridgeIInv, PublishMapping, Sampler
<1>1. CASE sampler.pc = "pub"
  <2> DEFINE ro == [tl |-> FitOf(w), ep |-> bridge.epoch,
                    good |-> sampler.quiet, late |-> ResetPending]
  <2>1. /\ bridge' = [bridge EXCEPT !.ro = ro]
        /\ sampler' = [sampler EXCEPT !.pc = "good"]
    BY <1>1 DEF PublishMapping, At, Goto
  <2>2. Len(w) >= MinSamples
    BY <1>1 DEF BridgeIInv, Fitted
  <2>3. ro \in Mapping
    <3>1. FitOf(w) \in Timelines \cup {Mixed}
      BY <1>0, <2>2, FitOfWindow
    <3>2. ResetPending \in BOOLEAN
      BY <1>0 DEF ResetPending, Bridge
    <3> QED BY <1>0, <3>1, <3>2 DEF Mapping, Bridge, Sampler
  <2>4. /\ bridge' \in Bridge /\ bridge'.ro = ro /\ bridge'.epoch = bridge.epoch
        /\ bridge'.reset = bridge.reset /\ bridge'.ever = bridge.ever
        /\ sampler' \in Sampler /\ sampler'.pc = "good"
        /\ sampler'.last = sampler.last /\ sampler'.window = w
        /\ sampler'.quiet = sampler.quiet
    BY <1>0, <2>1, <2>3 DEF Bridge, Sampler
  <2>5. /\ ro.tl = FitOf(w) /\ ro.ep = bridge.epoch /\ ro.good = sampler.quiet
        /\ ro.late = ResetPending
    BY ZenonT(30)
  <2> HIDE DEF ro
  <2>6. BridgeTypeOK'
    BY <1>0, <2>4 DEF BridgeTypeOK, Bridge, Sampler
  <2>7. Budget'
    <3>1. OldReadings' => OldReadings
      BY <1>0, <1>1, <2>4, ZenonT(30) DEF OldReadings
    <3> QED BY <1>0, <2>4, <3>1, Numbers DEF BridgeIInv, Budget, Asked, Exposed
  <2>8. Fitted'
    <3>1. ResetPending' <=> ResetPending
      BY <1>0, <2>4, ZenonT(30) DEF ResetPending
    <3>2. Uniform(w)' <=> Uniform(w)
      BY <2>4 DEF Uniform
    <3> QED BY <1>0, <1>1, <2>2, <2>4, <2>5, <3>1, Numbers
            DEF BridgeIInv, Fitted
  <2>9. Guard'
    <3>1. Trusted /\ Guarded => Guarded' /\ ro.tl = sampler.last.tl
      <4> SUFFICES ASSUME Guarded PROVE Guarded' /\ ro.tl = sampler.last.tl
        OBVIOUS
      <4>1. \A i \in DOMAIN w : w[i] = sampler.last.tl
        BY <1>1 DEF Guarded
      <4>2. FitOf(w) = sampler.last.tl
        BY <1>0, <2>2, <4>1, AllOfOne, ZenonT(30)
      <4>3. Guarded'
        BY <1>0, <1>1, <2>2, <2>4, <4>1 DEF Guarded, ResetPending
      <4> QED BY <2>5, <4>2, <4>3, ZenonT(30)
    <3> QED BY <1>0, <2>4, <2>5, <3>1, ZenonT(30) DEF BridgeIInv, Guard, Trusted
  <2> QED BY <2>4, <2>6, <2>7, <2>8, <2>9 DEF BridgeIInv
<1>2. CASE sampler.pc = "good" /\ sampler.quiet
  <2>1. /\ bridge' = [bridge EXCEPT !.healthy = sampler.quiet]
        /\ sampler' = [sampler EXCEPT !.pc = "ever", !.last = bridge.ro]
    BY <1>2 DEF PublishMapping, At
  <2>2. /\ bridge' \in Bridge /\ bridge'.ro = bridge.ro
        /\ bridge'.epoch = bridge.epoch
        /\ bridge'.reset = bridge.reset /\ bridge'.ever = bridge.ever
        /\ sampler' \in Sampler /\ sampler'.pc = "ever"
        /\ sampler'.last = bridge.ro /\ sampler'.window = w
        /\ sampler'.quiet
    BY <1>0, <1>2, <2>1, ZenonT(30) DEF Bridge, Sampler
  <2>3. /\ Len(w) >= MinSamples /\ Uniform(w) /\ bridge.ro.tl = FitOf(w)
        /\ bridge.ro.late \/ bridge.ro.ep < bridge.epoch \/ ~ResetPending
    BY <1>2, ZenonT(30) DEF BridgeIInv, Fitted
  <2>4. BridgeTypeOK'
    BY <1>0, <2>2, ZenonT(30) DEF BridgeTypeOK, Bridge, Sampler
  <2>5. Budget'
    <3>1. OldReadings' => OldReadings
      BY <1>0, <1>2, <2>2, ZenonT(30) DEF OldReadings
    <3> QED BY <1>0, <2>2, <3>1, Numbers DEF BridgeIInv, Budget, Asked, Exposed
  <2>6. Fitted'
    BY <1>0, <2>2, <2>3, Numbers, ZenonT(30) DEF BridgeIInv, Fitted, Uniform
  <2>7. Guard'
    <3>1. \A i \in DOMAIN w : w[i] = bridge.ro.tl
      BY <1>0, <2>3, FitOfWindow, ZenonT(30) DEF Uniform
    <3>2. ~ResetPending => Guarded'
      BY <1>0, <2>2, <2>3, <3>1 DEF Guarded, ResetPending
    <3> QED BY <2>2, <2>3, <3>2 DEF Guard, Trusted
  <2>8. Trusted /\ bridge.ro.tl # sampler.last.tl => bridge.ro.ep > sampler.last.ep
    BY <1>0, <1>2, Numbers DEF BridgeIInv, Guard
  <2> QED BY <2>2, <2>4, <2>5, <2>6, <2>7, <2>8 DEF BridgeIInv
<1>3. CASE \/ sampler.pc = "good" /\ ~sampler.quiet
           \/ sampler.pc = "ever"
  <2>1. /\ bridge' \in Bridge /\ bridge'.ro = bridge.ro
        /\ bridge'.epoch = bridge.epoch /\ bridge'.reset = bridge.reset
        /\ bridge'.ever = IF sampler.pc = "ever" THEN TRUE ELSE bridge.ever
        /\ sampler' \in Sampler /\ sampler'.pc = "top"
        /\ sampler'.last = sampler.last /\ sampler'.window = w
    BY <1>0, <1>3, ZenonT(30) DEF PublishMapping, At, Goto, Bridge, Sampler
  <2>2. BridgeTypeOK'
    BY <1>0, <2>1 DEF BridgeTypeOK, Bridge, Sampler
  <2>3. Budget'
    <3>1. OldReadings' => OldReadings
      BY <1>0, <1>3, <2>1 DEF OldReadings
    <3> QED BY <1>0, <2>1, <3>1, Numbers DEF BridgeIInv, Budget, Asked, Exposed
  <2>4. Fitted' /\ Guard'
    BY <1>0, <1>3, <2>1, Numbers, ZenonT(30)
       DEF BridgeIInv, Fitted, Guard, Trusted, Guarded, ResetPending
  <2> QED BY <2>1, <2>2, <2>3, <2>4 DEF BridgeIInv
<1> QED BY <1>0, <1>1, <1>2, <1>3 DEF PublishMapping, At


-----------------------------------------------------------------------------
(***************************************************************************)
(* Readers.                                                                *)
(***************************************************************************)
\* The published mapping is never replaced by one of an earlier epoch.
Forward == bridge'.ro.ep >= bridge.ro.ep

LEMMA LoadsType ==
    ASSUME bridge \in Bridge, NEW m \in Reading, NEW pc \in {"ro", "epoch", "healthy"}
    PROVE  LET n == LoadsNext(pc, m)
           IN  /\ n.m \in Reading
               /\ pc = "ro" => n.pc = "epoch" /\ n.m.ro = bridge.ro
               /\ pc = "epoch" => /\ n.pc = "healthy" /\ n.m.ro = m.ro
                                  /\ n.m.epoch = bridge.epoch
               /\ pc = "healthy" => /\ n.pc = "done" /\ n.m.ro = m.ro
                                    /\ n.m.epoch = m.epoch
<1>1. CASE pc = "ro"
  BY <1>1 DEF LoadsNext, Bridge, Reading
<1>2. CASE pc = "epoch"
  BY <1>2 DEF LoadsNext, Bridge, Reading
<1>3. CASE pc = "healthy"
  BY <1>3 DEF LoadsNext, Bridge, Reading
<1> QED BY <1>1, <1>2, <1>3, ZenonT(30)

ReadingEpochs(m) == m.ro.ep \in Nat /\ m.epoch \in Nat

LEMMA ReadingNumbers == \A m \in Reading : ReadingEpochs(m)
BY EpochNat, ZenonT(30) DEF Reading, Mapping, ReadingEpochs

\* A thread inside convert_raw_to_ptp().
LEMMA ConvertInv ==
    ASSUME BridgeIInv, Loaded, Convert
    PROVE  BridgeIInv' /\ Loaded' /\ UNCHANGED <<bridge, sampler>>
<1>0. /\ BridgeTypeOK /\ bridge \in Bridge
      /\ conv \in [pc : {"ro", "epoch", "healthy", "done"}, m : Reading]
      /\ env' = env /\ phc' = phc /\ api' = api /\ bridge' = bridge
      /\ sampler' = sampler
  BY TypeParts DEF BridgeIInv, Convert
<1>1. /\ conv' \in [pc : {"ro", "epoch", "healthy", "done"}, m : Reading]
      /\ Loaded'
  <2>1. CASE conv.pc = "done"
    <3>1. conv' = [pc |-> "ro", m |-> NoReading]
      BY <2>1 DEF Convert
    <3>2. bridge.ro.ep \in Nat
      BY <1>0, Numbers
    <3> QED BY <1>0, <3>1, <3>2, UnsetType DEF Loaded, EpochNotOlder, NoReading, Unset
  <2>2. CASE conv.pc \in {"ro", "epoch", "healthy"}
    <3> DEFINE n == LoadsNext(conv.pc, conv.m)
    <3>1. conv' = n
      BY <2>2 DEF Convert
    <3>2. n = [pc |-> n.pc, m |-> n.m]
      BY <2>2, ZenonT(30) DEF LoadsNext
    <3>3. /\ n.m \in Reading
          /\ conv.pc = "ro" => n.pc = "epoch" /\ n.m.ro = bridge.ro
          /\ conv.pc = "epoch" => /\ n.pc = "healthy" /\ n.m.ro = conv.m.ro
                                  /\ n.m.epoch = bridge.epoch
          /\ conv.pc = "healthy" => /\ n.pc = "done" /\ n.m.ro = conv.m.ro
                                    /\ n.m.epoch = conv.m.epoch
      BY <1>0, <2>2, LoadsType
    <3> HIDE DEF n
    <3>4. conv' \in [pc : {"ro", "epoch", "healthy", "done"}, m : Reading]
      BY <2>2, <3>1, <3>2, <3>3
    <3>5. /\ bridge.ro.ep \in Nat /\ bridge.epoch \in Nat
          /\ bridge.ro.ep <= bridge.epoch /\ conv.m.ro.ep \in Nat
      BY <1>0, Numbers, ReadingNumbers DEF BridgeIInv, Fitted, ReadingEpochs
    <3>6. Loaded'
      BY <1>0, <2>2, <3>1, <3>3, <3>5 DEF Loaded, EpochNotOlder
    <3> QED BY <3>4, <3>6
  <2> QED BY <1>0, <2>1, <2>2, ZenonT(30)
<1>2. BridgeTypeOK'
  BY <1>0, <1>1 DEF BridgeTypeOK
<1>3. Budget' /\ Fitted' /\ Guard'
  BY <1>0, ZenonT(30) DEF BridgeIInv, Budget, Asked, Exposed, OldReadings, Fitted, Guard,
              Trusted, Guarded, ResetPending
<1> QED BY <1>0, <1>1, <1>2, <1>3 DEF BridgeIInv

\* The action property of the bridge alone.
Guards ==
    Trusted /\ sampler'.last.good /\ sampler'.last.tl # sampler.last.tl =>
        sampler'.last.ep > sampler.last.ep

LEMMA BridgeStep ==
    ASSUME BridgeIInv, Loaded, BridgeNext
    PROVE  BridgeIInv' /\ Loaded' /\ Forward /\ Guards
<1>0. /\ bridge.ro.ep \in Nat /\ bridge.ro.ep <= bridge.epoch /\ bridge.epoch \in Nat
      /\ conv.m.ro.ep \in Nat /\ bridge \in Bridge /\ sampler \in Sampler
  BY TypeParts, Numbers, ReadingNumbers, ZenonT(30) DEF BridgeIInv, Fitted, ReadingEpochs
<1>1. ASSUME conv' = conv, Forward, BridgeIInv' PROVE Loaded'
  <2>1. bridge'.ro.ep \in Nat
    BY <1>1, EpochNat, ZenonT(30) DEF BridgeIInv, BridgeTypeOK, Mapping
  <2> QED BY <1>0, <1>1, <2>1 DEF Forward, Loaded, EpochNotOlder
<1>2. ASSUME NEW t \in Timelines, PhcStep(t) PROVE BridgeIInv' /\ Loaded' /\ Forward /\ Guards
  BY <1>0, <1>1, <1>2, PhcStepInv DEF PhcStep, Forward, Guards
<1>3. ASSUME StartSampling PROVE BridgeIInv' /\ Loaded' /\ Forward /\ Guards
  <2>1. bridge'.ro = bridge.ro /\ ~sampler'.last.good
    BY <1>0, <1>3 DEF StartSampling, Bridge, Sampler, Unset
  <2> QED BY <1>0, <1>1, <1>3, <2>1, StartSamplingInv DEF StartSampling, Forward, Guards
<1>4. ASSUME StopSampling PROVE BridgeIInv' /\ Loaded' /\ Forward /\ Guards
  <2>1. bridge'.ro = bridge.ro
    BY <1>0, <1>4 DEF StopSampling, Bridge
  <2> QED BY <1>0, <1>1, <1>4, <2>1, StopSamplingInv DEF StopSampling, Forward, Guards
<1>5. ASSUME ResetEpoch PROVE BridgeIInv' /\ Loaded' /\ Forward /\ Guards
  <2>1. bridge'.ro = bridge.ro /\ sampler' = sampler /\ conv' = conv
    <3>1. api \in {"idle", "epoch", "healthy", "ever", "reset"}
      BY TypeParts DEF BridgeIInv
    <3> QED BY <1>0, <1>5, <3>1, ZenonT(30) DEF ResetEpoch, Bridge
  <2> QED BY <1>0, <1>1, <1>5, <2>1, ResetEpochInv DEF Forward, Guards
<1>6. ASSUME SamplerTop PROVE BridgeIInv' /\ Loaded' /\ Forward /\ Guards
  <2>1. bridge'.ro = bridge.ro /\ sampler'.last = sampler.last
    BY <1>0, <1>6, ZenonT(30) DEF SamplerTop, Goto, Bridge, Sampler
  <2> QED BY <1>0, <1>1, <1>6, <2>1, SamplerTopInv DEF SamplerTop, Forward, Guards
<1>7. ASSUME SampleRejected \/ SampleAccepted PROVE BridgeIInv' /\ Loaded' /\ Forward /\ Guards
  <2>1. bridge' = bridge /\ conv' = conv /\ sampler'.last = sampler.last
    BY <1>0, <1>7, ZenonT(30) DEF SampleRejected, SampleAccepted, Goto, Sampler
  <2> QED BY <1>0, <1>1, <1>7, <2>1, SampleInv DEF Forward, Guards
<1>8. ASSUME UpdateMapping PROVE BridgeIInv' /\ Loaded' /\ Forward /\ Guards
  <2>1. bridge' = bridge /\ conv' = conv /\ sampler'.last = sampler.last
    BY <1>0, <1>8, ZenonT(30) DEF UpdateMapping, Goto, Sampler
  <2> QED BY <1>0, <1>1, <1>8, <2>1, UpdateMappingInv DEF Forward, Guards
<1>9. ASSUME NewEpoch PROVE BridgeIInv' /\ Loaded' /\ Forward /\ Guards
  <2>1. bridge'.ro = bridge.ro /\ conv' = conv /\ sampler'.last = sampler.last
    BY <1>0, <1>9, ZenonT(30) DEF NewEpoch, Goto, Bridge, Sampler
  <2> QED BY <1>0, <1>1, <1>9, <2>1, NewEpochInv DEF Forward, Guards
<1>10. ASSUME PublishMapping PROVE BridgeIInv' /\ Loaded' /\ Forward /\ Guards
  <2>1. conv' = conv /\ Forward
    BY <1>0, <1>10 DEF PublishMapping, Goto, Bridge, Sampler, Forward
  <2> QED BY <1>1, <1>10, <2>1, PublishInv DEF Guards
<1>11. ASSUME Convert PROVE BridgeIInv' /\ Loaded' /\ Forward /\ Guards
  BY <1>0, <1>11, ConvertInv DEF Forward, Guards
<1> QED BY <1>2, <1>3, <1>4, <1>5, <1>6, <1>7, <1>8, <1>9, <1>10, <1>11
        DEF BridgeNext, SamplerStep


-----------------------------------------------------------------------------
(***************************************************************************)
(* The timer.                                                              *)
(***************************************************************************)
TimerPc == {"off", "top", "prepare", "ro", "epoch", "healthy", "done", "now",
            "sleep", "callback"}

TimerState == [running : BOOLEAN, pc : TimerPc, call : {"align", "before", "after"},
               aligned : BOOLEAN, wake : Timelines \cup {Mixed},
               m : Reading, before : Reading]

\* What the timer's own steps need of the bridge.
LEMMA BridgeFacts ==
    ASSUME BridgeIInv
    PROVE  /\ bridge \in Bridge /\ bridge.ro.ep \in Nat /\ bridge.epoch \in Nat
           /\ bridge.ro.ep <= bridge.epoch
           /\ bridge.ro.tl \in Timelines \cup {Mixed}
BY TypeParts, Numbers DEF BridgeIInv, Fitted, Bridge, Mapping

\* The invariants of the bridge do not look at the timer.
LEMMA BridgeUntouched ==
    ASSUME BridgeIInv, Loaded, UNCHANGED bridgeVars
    PROVE  BridgeIInv' /\ Loaded'
<1>1. /\ env' = env /\ phc' = phc /\ bridge' = bridge /\ sampler' = sampler
      /\ api' = api /\ conv' = conv
  BY DEF bridgeVars
<1>2. BridgeTypeOK'
  BY <1>1 DEF BridgeIInv, BridgeTypeOK
<1>3. Budget' /\ Fitted' /\ Guard'
  BY <1>1, ZenonT(30) DEF BridgeIInv, Budget, Asked, Exposed, OldReadings, Fitted, Guard,
              Trusted, Guarded, ResetPending
<1>4. Loaded'
  BY <1>1, ZenonT(30) DEF Loaded, EpochNotOlder
<1> QED BY <1>2, <1>3, <1>4 DEF BridgeIInv

\* A disturbance that only the timer meets.
LEMMA BridgeSpends ==
    ASSUME BridgeIInv, Loaded, env.left > 0, env' = Spent,
           UNCHANGED <<phc, bridge, sampler, api, conv>>
    PROVE  BridgeIInv' /\ Loaded'
<1>1. EnvOK' /\ env'.left = env.left - 1
  BY TypeParts, EnvSpent DEF BridgeIInv
<1>2. BridgeTypeOK'
  BY <1>1 DEF BridgeIInv, BridgeTypeOK, EnvOK
<1>3. Budget'
  BY <1>1, Numbers DEF BridgeIInv, Budget, Asked, Exposed, OldReadings
<1>4. Fitted' /\ Guard' /\ Loaded'
  BY ZenonT(30) DEF BridgeIInv, Fitted, Guard, Trusted, Guarded, ResetPending, Loaded,
         EpochNotOlder
<1> QED BY <1>2, <1>3, <1>4 DEF BridgeIInv

\* The steps of the timer between its loads leave its readings alone or put a
\* complete one aside.
LEMMA TimerMoves ==
    ASSUME BridgeIInv, TimerTypeOK, TimerLoaded, bridge' = bridge,
           timer' \in TimerState,
           timer'.pc \in {"off", "top", "prepare", "now", "sleep"},
           timer'.m = timer.m,
           timer'.before = timer.before \/ timer'.before = timer.m
    PROVE  TimerTypeOK' /\ TimerLoaded'
BY BridgeFacts, ZenonT(30) DEF TimerTypeOK, TimerState, TimerPc, TimerLoaded, WakeWithinEpoch, TimerAt

\* A get_mapping() begins.
LEMMA TimerReads ==
    ASSUME BridgeIInv, TimerTypeOK, TimerLoaded, bridge' = bridge,
           NEW call \in {"align", "before", "after"}, timer' = Reads(timer, call)
    PROVE  TimerTypeOK' /\ TimerLoaded'
<1>1. /\ timer' \in TimerState /\ timer'.pc = "ro" /\ timer'.m = NoReading
      /\ timer'.before = timer.before
  BY UnsetType, ZenonT(30) DEF Reads, TimerTypeOK, TimerState, TimerPc
<1>2. NoReading.ro.ep = 0
  BY DEF NoReading, Unset
<1> QED BY <1>1, <1>2, BridgeFacts
        DEF TimerTypeOK, TimerState, TimerPc, TimerLoaded, WakeWithinEpoch, TimerAt

\* One load of get_mapping().
LEMMA GetMappingInv ==
    ASSUME BridgeIInv, TimerTypeOK, TimerLoaded, GetMapping, bridge' = bridge
    PROVE  TimerTypeOK' /\ TimerLoaded'
<1> DEFINE n == LoadsNext(timer.pc, timer.m)
<1>0. /\ bridge \in Bridge /\ bridge.ro.ep \in Nat /\ bridge.epoch \in Nat
      /\ bridge.ro.ep <= bridge.epoch /\ timer \in TimerState
      /\ timer.m \in Reading /\ timer.pc \in {"ro", "epoch", "healthy"}
  BY BridgeFacts DEF TimerTypeOK, TimerState, TimerPc, GetMapping
<1>1. timer' = [timer EXCEPT !.pc = n.pc, !.m = n.m]
  BY DEF GetMapping
<1>2. /\ n.m \in Reading
      /\ timer.pc = "ro" => n.pc = "epoch" /\ n.m.ro = bridge.ro
      /\ timer.pc = "epoch" => /\ n.pc = "healthy" /\ n.m.ro = timer.m.ro
                               /\ n.m.epoch = bridge.epoch
      /\ timer.pc = "healthy" => /\ n.pc = "done" /\ n.m.ro = timer.m.ro
                                 /\ n.m.epoch = timer.m.epoch
  BY <1>0, LoadsType, ZenonT(30)
<1> HIDE DEF n
<1>3. /\ timer' \in TimerState /\ timer'.pc = n.pc /\ timer'.m = n.m
      /\ timer'.before = timer.before /\ timer'.call = timer.call
  BY <1>0, <1>1, <1>2, ZenonT(30) DEF TimerState, TimerPc
<1>4. TimerTypeOK'
  BY <1>3 DEF TimerTypeOK, TimerState, TimerPc
<1>5. timer.m.ro.ep \in Nat /\ timer.before.ro.ep \in Nat
  BY <1>0, ReadingNumbers DEF TimerState, ReadingEpochs
<1>6. TimerLoaded'
  <2>1. CASE timer.pc = "ro"
    BY <1>0, <1>2, <1>3, <1>5, <2>1 DEF TimerLoaded, WakeWithinEpoch, TimerAt
  <2>2. CASE timer.pc = "epoch"
    BY <1>0, <1>2, <1>3, <1>5, <2>2 DEF TimerLoaded, WakeWithinEpoch, TimerAt
  <2>3. CASE timer.pc = "healthy"
    BY <1>0, <1>2, <1>3, <1>5, <2>3, ZenonT(30) DEF TimerLoaded, WakeWithinEpoch, TimerAt
  <2> QED BY <1>0, <2>1, <2>2, <2>3, ZenonT(30)
<1> QED BY <1>4, <1>6

\* sleep_until_ptp() gives up.
LEMMA FailedInv ==
    ASSUME BridgeIInv, TimerTypeOK, TimerLoaded, bridge' = bridge,
           timer' = Failed(timer)
    PROVE  TimerTypeOK' /\ TimerLoaded'
<1>1. timer \in TimerState
  BY DEF TimerTypeOK, TimerState, TimerPc
<1>2. /\ timer' \in TimerState /\ timer'.pc \in {"off", "top"}
      /\ timer'.m = timer.m /\ timer'.before = timer.before
  BY <1>1, ZenonT(30) DEF Failed, TimerState, TimerPc
<1> QED BY <1>2, TimerMoves

\* A get_mapping() has returned to its caller.
LEMMA UseMappingInv ==
    ASSUME BridgeIInv, TimerTypeOK, TimerLoaded, UseMapping, bridge' = bridge
    PROVE  TimerTypeOK' /\ TimerLoaded'
<1>0. /\ timer \in TimerState /\ timer.pc = "done"
      /\ timer.call \in {"align", "before", "after"}
  BY DEF UseMapping, TimerAt, TimerTypeOK, TimerState, TimerPc
<1>1. CASE timer.call = "align"
  <2>1. timer' = Aligns(timer)
    BY <1>1 DEF UseMapping
  <2>2. /\ timer' \in TimerState /\ timer'.pc \in {"now", "top"}
        /\ timer'.m = timer.m /\ timer'.before = timer.before
    BY <1>0, <2>1 DEF Aligns, TimerState, TimerPc
  <2> QED BY <2>2, TimerMoves
<1>2. CASE timer.call = "before"
  <2>1. timer' = Plans(timer)
    BY <1>2 DEF UseMapping
  <2>2. CASE timer.m.healthy /\ timer.running
    <3>1. /\ timer' \in TimerState /\ timer'.pc = "sleep"
          /\ timer'.m = timer.m /\ timer'.before = timer.m
      BY <1>0, <2>1, <2>2, ZenonT(30) DEF Plans, TimerState, TimerPc
    <3> QED BY <3>1, TimerMoves
  <2>3. CASE ~(timer.m.healthy /\ timer.running)
    BY <2>1, <2>3, FailedInv DEF Plans
  <2> QED BY <2>2, <2>3
<1>3. CASE timer.call = "after"
  <2>1. timer' = Finalizes(timer)
    BY <1>3 DEF UseMapping
  <2>2. CASE timer.m.epoch = timer.before.epoch /\ timer.m.healthy
    <3>1. /\ timer' \in TimerState /\ timer'.pc = "callback"
          /\ timer'.m = timer.m /\ timer'.before = timer.before
      BY <1>0, <2>1, <2>2 DEF Finalizes, TimerState, TimerPc
    <3>2. TimerTypeOK'
      BY <3>1, ZenonT(30) DEF TimerTypeOK, TimerState, TimerPc
    <3>3. TimerLoaded'
      BY <1>0, <1>3, <2>2, <3>1 DEF TimerLoaded, WakeWithinEpoch, TimerAt
    <3> QED BY <3>2, <3>3
  <2>3. CASE ~(timer.m.epoch = timer.before.epoch /\ timer.m.healthy)
    BY <2>1, <2>3, FailedInv DEF Finalizes
  <2> QED BY <2>2, <2>3
<1> QED BY <1>0, <1>1, <1>2, <1>3

\* The timer loop.
LEMMA TimerStepInv ==
    ASSUME ClientIInv, TimerStep \/ StartTimer \/ SpinStops
    PROVE  ClientIInv'
<1>0. /\ BridgeIInv /\ Loaded /\ TimerTypeOK /\ TimerLoaded /\ timer \in TimerState
      /\ UNCHANGED bridgeVars
  BY DEF ClientIInv, TimerTypeOK, TimerState, TimerPc, TimerStep, StartTimer,
         SpinStops, LoopTop, PrepareSleep, GetMapping, UseMapping, Align, Wakes,
         ProcessWake
<1>1. bridge' = bridge /\ BridgeIInv' /\ Loaded'
  BY <1>0, BridgeUntouched DEF bridgeVars
<1>2. CASE StartTimer
  <2>1. /\ timer' \in TimerState /\ timer'.pc = "top"
        /\ timer'.m = timer.m /\ timer'.before = timer.before
    BY <1>0, <1>2, ZenonT(30) DEF StartTimer, TimerState, TimerPc
  <2> QED BY <1>0, <1>1, <2>1, TimerMoves DEF ClientIInv
<1>3. CASE LoopTop
  <2>1. CASE timer' = Reads(timer, "align")
    BY <1>0, <1>1, <2>1, TimerReads DEF ClientIInv
  <2>2. CASE timer' # Reads(timer, "align")
    <3>1. /\ timer' \in TimerState /\ timer'.pc \in {"off", "prepare"}
          /\ timer'.m = timer.m /\ timer'.before = timer.before
      BY <1>0, <1>3, <2>2 DEF LoopTop, TimerState, TimerPc
    <3> QED BY <1>0, <1>1, <3>1, TimerMoves DEF ClientIInv
  <2> QED BY <2>1, <2>2
<1>4. CASE PrepareSleep
  BY <1>0, <1>1, <1>4, TimerReads, FailedInv DEF PrepareSleep, ClientIInv
<1>5. CASE GetMapping
  BY <1>0, <1>1, <1>5, GetMappingInv DEF ClientIInv
<1>6. CASE UseMapping
  BY <1>0, <1>1, <1>6, UseMappingInv DEF ClientIInv
<1>7. CASE Align
  <2>1. bridge.ro.tl \in Timelines \cup {Mixed}
    BY <1>0, BridgeFacts
  <2>2. /\ timer' \in TimerState /\ timer'.pc = "prepare"
        /\ timer'.m = timer.m /\ timer'.before = timer.before
    BY <1>0, <1>7, <2>1, ZenonT(30) DEF Align, TimerState, TimerPc
  <2> QED BY <1>0, <1>1, <2>2, TimerMoves DEF ClientIInv
<1>8. CASE Wakes
  BY <1>0, <1>1, <1>8, TimerReads DEF Wakes, ClientIInv
<1>9. CASE ProcessWake
  <2>1. Advance(timer.wake, timer.m.ro.tl) \in Timelines \cup {Mixed}
    BY <1>0 DEF Advance, TimerState, Reading, Mapping
  <2>2. /\ timer' \in TimerState /\ timer'.pc = "top"
        /\ timer'.m = timer.m /\ timer'.before = timer.before
    BY <1>0, <1>9, <2>1, ZenonT(30) DEF ProcessWake, TimerState, TimerPc
  <2> QED BY <1>0, <1>1, <2>2, TimerMoves DEF ClientIInv
<1>10. CASE SpinStops
  BY <1>0, <1>1, <1>10, FailedInv DEF SpinStops, ClientIInv
<1> QED BY <1>2, <1>3, <1>4, <1>5, <1>6, <1>7, <1>8, <1>9, <1>10 DEF TimerStep

\* stop(), and a signal during the sleep.
LEMMA TimerDisturbed ==
    ASSUME ClientIInv, StopTimer \/ Interrupted
    PROVE  ClientIInv'
<1>0. /\ BridgeIInv /\ Loaded /\ TimerTypeOK /\ TimerLoaded /\ timer \in TimerState
  BY DEF ClientIInv, TimerTypeOK, TimerState, TimerPc
<1>1. bridge' = bridge /\ BridgeIInv' /\ Loaded'
  BY <1>0, BridgeSpends DEF StopTimer, Interrupted, Meets
<1>2. CASE StopTimer
  <2>1. /\ timer' \in TimerState /\ timer'.pc = timer.pc /\ timer'.call = timer.call
        /\ timer'.m = timer.m /\ timer'.before = timer.before
    BY <1>0, <1>2, ZenonT(30) DEF StopTimer, TimerState
  <2>2. TimerTypeOK'
    BY <2>1, ZenonT(30) DEF TimerTypeOK, TimerState, TimerPc
  <2>3. TimerLoaded'
    BY <1>0, <1>1, <2>1 DEF TimerLoaded, WakeWithinEpoch, TimerAt
  <2> QED BY <1>1, <2>2, <2>3 DEF ClientIInv
<1>3. CASE Interrupted
  BY <1>0, <1>1, <1>3, FailedInv DEF Interrupted, ClientIInv
<1> QED BY <1>2, <1>3

LEMMA ClientInitInv ==
    ASSUME BridgeInit, TimerInit
    PROVE  ClientIInv
<1>1. BridgeIInv
  BY BridgeInitInv
<1>2. Loaded
  <2>1. conv.pc = "ro" /\ conv.m.ro.ep = 0
    BY ZenonT(30) DEF BridgeInit, NoReading, Unset
  <2> QED BY <1>1, <2>1, BridgeFacts DEF Loaded, EpochNotOlder
<1>3. timer \in TimerState
  BY UnsetType, ZenonT(30) DEF TimerInit, TimerState, TimerPc
<1>4. /\ timer.pc = "off" /\ timer.m.ro.ep = 0 /\ timer.before.ro.ep = 0
  BY DEF TimerInit, NoReading, Unset
<1>5. TimerTypeOK
  BY <1>3 DEF TimerTypeOK, TimerState, TimerPc
<1>6. TimerLoaded
  BY <1>1, <1>4, BridgeFacts DEF TimerLoaded, WakeWithinEpoch, TimerAt
<1> QED BY <1>1, <1>2, <1>5, <1>6 DEF ClientIInv

\* The inductive step, with what a step does to the last published mapping.
LEMMA ClientStep ==
    ASSUME ClientIInv, [TimerNext]_timerVars
    PROVE  ClientIInv' /\ (Guards \/ UNCHANGED bridgeVars)
<1>0. BridgeIInv /\ Loaded /\ TimerTypeOK /\ TimerLoaded
  BY DEF ClientIInv
<1>1. CASE BridgeNext /\ UNCHANGED timer
  <2>1. BridgeIInv' /\ Loaded' /\ Forward /\ Guards
    BY <1>0, <1>1, BridgeStep
  <2>2. /\ timer.m \in Reading /\ timer.before \in Reading
        /\ timer.m.ro.ep \in Nat /\ timer.before.ro.ep \in Nat
    BY <1>0, ReadingNumbers DEF TimerTypeOK, ReadingEpochs
  <2>3. bridge.ro.ep \in Nat /\ bridge'.ro.ep \in Nat
    BY <1>0, <2>1, BridgeFacts, EpochNat, ZenonT(30) DEF BridgeIInv, BridgeTypeOK, Mapping
  <2>4. TimerTypeOK' /\ TimerLoaded'
    BY <1>0, <1>1, <2>1, <2>2, <2>3
       DEF Forward, TimerTypeOK, TimerLoaded, WakeWithinEpoch, TimerAt
  <2> QED BY <2>1, <2>4 DEF ClientIInv
<1>2. CASE TimerStep \/ StartTimer \/ SpinStops
  <2>1. UNCHANGED bridgeVars
    BY <1>2 DEF TimerStep, StartTimer, SpinStops, LoopTop, PrepareSleep, GetMapping,
                UseMapping, Align, Wakes, ProcessWake
  <2> QED BY <1>2, <2>1, TimerStepInv
<1>3. CASE StopTimer \/ Interrupted
  <2>1. Guards
    BY <1>3 DEF StopTimer, Interrupted, Guards
  <2> QED BY <1>3, <2>1, TimerDisturbed
<1>4. CASE UNCHANGED timerVars
  <2>1. UNCHANGED bridgeVars /\ timer' = timer
    BY <1>4 DEF timerVars, bridgeVars
  <2>2. BridgeIInv' /\ Loaded' /\ bridge' = bridge
    BY <1>0, <2>1, BridgeUntouched, ZenonT(30) DEF bridgeVars
  <2>3. TimerTypeOK' /\ TimerLoaded'
    BY <1>0, <2>1, <2>2 DEF TimerTypeOK, TimerLoaded, WakeWithinEpoch, TimerAt
  <2> QED BY <2>1, <2>2, <2>3 DEF ClientIInv
<1> QED BY <1>1, <1>2, <1>3, <1>4 DEF TimerNext

\* Readers of the bridge pair a mapping with an epoch that is not older than
\* it, and no callback of PtpTimer spans two epochs: the separate loads of
\* get_mapping() and the comparison in finalize_wake().
THEOREM TimerCorrect == TimerSpec => []EpochsAgree
<1>1. BridgeInit /\ TimerInit => ClientIInv
  BY ClientInitInv
<1>2. ClientIInv /\ [TimerNext]_timerVars => ClientIInv'
  BY ClientStep
<1>3. ClientIInv => EpochsAgree
  BY DEF ClientIInv, BridgeIInv, Loaded, TimerLoaded, EpochsAgree
<1> QED BY <1>1, <1>2, <1>3, PTL DEF TimerSpec

\* While sampling runs, a healthy mapping gives way to a healthy mapping of
\* another timeline only in a later epoch: update_mapping()'s step detection,
\* for every number of PHC steps, restarts and calls of reset_epoch().
THEOREM TimelineGuarded == TimerSpec => EpochGuardsTimeline
<1>1. BridgeInit /\ TimerInit => ClientIInv
  BY ClientInitInv
<1>2. ClientIInv /\ [TimerNext]_timerVars => ClientIInv'
  BY ClientStep
<1>3. ClientIInv /\ [TimerNext]_timerVars =>
          [(/\ sampler.last.good /\ ~sampler.last.late
            /\ sampler'.last.good /\ sampler'.last.tl # sampler.last.tl)
              => sampler'.last.ep > sampler.last.ep]_bridgeVars
  BY ClientStep DEF Guards, Trusted
<1> QED BY <1>1, <1>2, <1>3, PTL DEF TimerSpec, EpochGuardsTimeline
=============================================================================
