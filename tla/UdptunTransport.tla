--------------------------- MODULE UdptunTransport ---------------------------
(***************************************************************************)
(* The tunnel transport of avb_entity_udptun_transport.cpp on two sites:   *)
(* the punch worker (udptun_punch_loop), the media thread's service() that *)
(* installs the socket the worker staged and watches it, and the STUN      *)
(* rendezvous of src/statusbar/stun that both workers go through: one      *)
(* client per site (StunClientPollable, as perform_rendezvous drives it),  *)
(* the server and its session table (ServerCore), and the datagram network *)
(* between them.                                                           *)
(*                                                                         *)
(* A client's source address is <<node, window>>: the worker opens a new   *)
(* ephemeral socket for every attempt and makes one attempt per window.    *)
(* Client EUI-64s are a function of the address and are left out.  Time is *)
(* counted in units of the initial RTO.  A datagram arrives within the     *)
(* unit it was sent in unless the network spends one of its Faults on it.  *)
(*                                                                         *)
(* The sites share the TAI clock the session id is derived from.  A site   *)
(* hears the other through its NAT only when each sends to the socket the  *)
(* other uses.  Every datagram on the tunnel socket counts as liveness,    *)
(* a late STUN reply included.                                             *)
(***************************************************************************)
EXTENDS Naturals, FiniteSets

CONSTANTS Nodes, None,
          Windows,         \* rendezvous windows before a session id recurs
          MaxSessions,     \* MaxSessions of the server's table
          MaxRetransmits,  \* max_retransmits
          Poll,            \* waiting_poll_interval_ms
          Refresh,         \* refresh_interval_ms
          Expiry,          \* session_expiry_ms
          Faults           \* datagrams the network may lose, delay or repeat

ASSUME StunAssumption ==
    /\ {Windows, MaxSessions, MaxRetransmits, Poll, Refresh, Expiry} \subseteq Nat \ {0}
    /\ Faults \in Nat /\ None \notin Nodes

VARIABLES stun,      \* the client of each node
          sessions,  \* the server's session table
          net,       \* datagrams in flight
          faults     \* faults spent

stunVars == <<stun, sessions, net, faults>>

Addr == Nodes \X (0 .. Windows - 1)

----------------------------------------------------------------------------
(* The client state machine and the Pollable around it. *)

NoClient == [st |-> "None", addr |-> None, tx |-> 0, retx |-> 0, age |-> 0, failed |-> FALSE]

\* open_client_socket + StunClientPollable::create
NewClient(a) == [NoClient EXCEPT !.st = "Idle", !.addr = a]

\* client_table: the state an event leads to; an event without a row is ignored
ClientStep(st, ev) ==
    CASE st = "Idle" /\ ev = "Start"                                        -> "Registering"
      [] st = "Registering" /\ ev = "ResponseWaiting"                       -> "Waiting"
      [] st \in {"Registering", "Waiting", "Paired"} /\ ev = "ResponsePaired" -> "Paired"
      [] st \in {"Registering", "Waiting"} /\ ev = "ResponseError"          -> "Failed"
      [] st = "Registering" /\ ev \in {"Rto", "ResponseSessionExpired"}     -> "Registering"
      [] st = "Registering" /\ ev = "RetryBudgetExhausted"                  -> "Failed"
      [] st \in {"Waiting", "Paired"} /\ ev = "RefreshTick"                 -> "Registering"
      [] OTHER                                                              -> st

\* handle_event + apply_action_flags: mark_send / mark_retransmit make
\* send_register_request draw a new transaction id and note the time
Sends(ev) == ev \in {"Start", "Rto", "RefreshTick", "ResponseSessionExpired"}

ClientEvent(c, ev) ==
    LET to == ClientStep(c.st, ev)
    IN  [c EXCEPT !.st = to,
                  !.retx = CASE ev = "Rto" -> @ + 1
                             [] Sends(ev) \/ to \in {"Waiting", "Paired"} -> 0
                             [] OTHER -> @,
                  !.tx = IF Sends(ev) THEN @ + 1 ELSE @,
                  !.age = IF Sends(ev) THEN 0 ELSE @]

\* the session id the worker derives from the window of the attempt

Sid(a) == a[2]

Request(c) == [to |-> None, from |-> c.addr, sid |-> Sid(c.addr), tx |-> c.tx, late |-> FALSE]

\* the event tick() raises, if any
TickEvent(c) ==
    CASE c.st = "Idle" -> "Start"
      [] c.st = "Registering" /\ c.age >= 2 ^ c.retx ->
             IF c.retx >= MaxRetransmits THEN "RetryBudgetExhausted" ELSE "Rto"
      [] c.st = "Waiting" /\ c.age >= (IF Poll < Refresh THEN Poll ELSE Refresh) -> "RefreshTick"
      [] c.st = "Paired" /\ c.age >= Refresh -> "RefreshTick"
      [] OTHER -> "None"

\* tick(): a client in Failed reports the failure once, on its next tick
ClientTick(c) ==
    CASE c.st = "Failed"         -> [c EXCEPT !.failed = TRUE]
      [] TickEvent(c) = "None"   -> c
      [] OTHER                   -> ClientEvent(c, TickEvent(c))

ClientSends(c) == IF c.st # "Failed" /\ Sends(TickEvent(c)) THEN {Request(ClientTick(c))} ELSE {}

\* handle_datagram: only the reply to the outstanding transaction counts
Accepts(c, m) == c.addr = m.to /\ c.tx = m.tx

Answered(c, m) ==
    ClientEvent(c, CASE m.kind = "paired"  -> "ResponsePaired"
                     [] m.kind = "waiting" -> "ResponseWaiting"
                     [] OTHER              -> "ResponseError")

----------------------------------------------------------------------------
(* The server. *)

Absent == [present |-> FALSE, addr |-> None, age |-> 0]
FreeSession == [occupied |-> FALSE, sid |-> 0, sm |-> "Empty", first |-> Absent, second |-> Absent]

\* find_session, else allocate_session; 0 when the table is full
Holding(sid) == {i \in 1 .. MaxSessions : sessions[i].occupied /\ sessions[i].sid = sid}
FreeEntries  == {i \in 1 .. MaxSessions : ~sessions[i].occupied}
Lowest(S)    == CHOOSE i \in S : \A j \in S : i <= j

SessionFor(sid) ==
    IF Holding(sid) # {} THEN Lowest(Holding(sid))
    ELSE IF FreeEntries # {} THEN Lowest(FreeEntries) ELSE 0

Opened(i, sid) ==
    IF sessions[i].occupied THEN sessions[i]
    ELSE [FreeSession EXCEPT !.occupied = TRUE, !.sid = sid]

PickPairSlot_mutFirstFree(e, from) ==
    CASE ~e.first.present -> "first" [] ~e.second.present -> "second" [] OTHER -> "full"

\* pick_pair_slot, by source address and not by EUI-64
PickPairSlot(e, from) ==
    CASE e.first.present  /\ e.first.addr  = from -> "first"
      [] e.second.present /\ e.second.addr = from -> "second"
      [] ~e.first.present                         -> "first"
      [] ~e.second.present                        -> "second"
      [] OTHER                                    -> "full"

\* event_for_arrival looks at the table after populate_pair_slot
ServerStep(sm, isNew, both) ==
    CASE ~isNew                                   -> sm      \* DuplicateEui64
      [] isNew /\ ~both /\ sm = "Empty"           -> "OneRegistered"
      [] isNew /\ both /\ sm = "OneRegistered"    -> "Paired"
      [] OTHER                                    -> sm

Registered(e, slot, from) ==
    LET isNew == ~e[slot].present
        p == [e EXCEPT ![slot] = [present |-> TRUE, addr |-> from, age |-> 0]]
    IN  [p EXCEPT !.sm = ServerStep(@, isNew, p.first.present /\ p.second.present)]

PeerOf(e, slot) == IF slot = "first" THEN e.second ELSE e.first

\* build_success
Reply(m, e, slot) ==
    [to |-> m.from, tx |-> m.tx, late |-> FALSE,
     kind |-> IF PeerOf(e, slot).present THEN "paired" ELSE "waiting",
     peer |-> PeerOf(e, slot).addr]

Refusal(m) == [to |-> m.from, tx |-> m.tx, late |-> FALSE, kind |-> "error", peer |-> None]

\* ServerCore::on_datagram, with the table and the reply plan_reply makes
ServerReceive(m, rest) ==
    LET i == SessionFor(m.sid)
        e == Opened(i, m.sid)
        slot == PickPairSlot(e, m.from)
        r == Registered(e, slot, m.from)
    IN  /\ m.to = None
        /\ IF i = 0
           THEN net' = rest \cup {Refusal(m)} /\ UNCHANGED sessions
           ELSE IF slot = "full"
           THEN /\ net' = rest \cup {Refusal(m)}
                /\ sessions' = [sessions EXCEPT ![i] = e]
           ELSE /\ net' = rest \cup {Reply(m, r, slot)}
                /\ sessions' = [sessions EXCEPT ![i] = r]

\* expire_old: a session goes when neither of its clients refreshed in time;
\* the entry of a client that stopped refreshing stays as long as its peer's
Aged(slot) == IF slot.present /\ slot.age < Expiry THEN [slot EXCEPT !.age = @ + 1] ELSE slot
Live(slot) == slot.present /\ slot.age < Expiry

ExpireOld(table) ==
    [i \in 1 .. MaxSessions |->
        LET e == [table[i] EXCEPT !.first = Aged(@), !.second = Aged(@)]
        IN  IF e.occupied /\ ~Live(e.first) /\ ~Live(e.second) THEN FreeSession ELSE e]

----------------------------------------------------------------------------
(* The network. *)

StunInit ==
    /\ stun = [n \in Nodes |-> NoClient]
    /\ sessions = [i \in 1 .. MaxSessions |-> FreeSession]
    /\ net = {} /\ faults = 0

Lose(m) ==
    /\ faults < Faults /\ m \in net
    /\ net' = net \ {m} /\ faults' = faults + 1
    /\ UNCHANGED <<stun, sessions>>

\* held up past the end of the unit: later datagrams overtake it
Delay(m) ==
    /\ faults < Faults /\ m \in net /\ ~m.late
    /\ net' = (net \ {m}) \cup {[m EXCEPT !.late = TRUE]}
    /\ faults' = faults + 1
    /\ UNCHANGED <<stun, sessions>>

\* a datagram is delivered, and stays in the network when it is repeated
Leaves(m, rest) ==
    \/ rest = net \ {m} /\ UNCHANGED faults
    \/ faults < Faults /\ rest = net /\ faults' = faults + 1

----------------------------------------------------------------------------
(* The two sites. *)

CONSTANTS Window,      \* WINDOW_NS
          Grace,       \* GRACE_NS
          Stall        \* STALL_NS

ASSUME TransportAssumption == {Window, Grace, Stall} \subseteq Nat \ {0}

VARIABLES clock,    \* TAI, modulo Windows * Window
          worker,   \* the punch worker of each node
          media,    \* what the media thread of each node knows
          todo      \* workers that still have to run in this unit

transportVars == <<clock, worker, media, todo>>
tunnelVars == <<stunVars, transportVars>>

NoTunnel == [fd |-> None, peer |-> None, installed |-> 0, quiet |-> 0, saw |-> FALSE, heard |-> FALSE]

\* the constructor: the worker runs once start_punch_worker was called
NewWorker == [pc |-> "off", spent |-> 0, limit |-> 0, staged |-> None, stagedPeer |-> None, retry |-> FALSE]

TunnelInit ==
    /\ StunInit
    /\ clock = 0 /\ todo = {}
    /\ worker = [n \in Nodes |-> NewWorker]
    /\ media = [n \in Nodes |-> NoTunnel]

----------------------------------------------------------------------------
(* The punch worker. *)

WindowNow == clock \div Window
Clamp(x, lo, hi) == IF x < lo THEN lo ELSE IF x > hi THEN hi ELSE x

\* timeout_ms: what is left of the window less a margin, within limits
TimeoutNow == Clamp((Window - (clock % Window)) - 1, 1, Window - 1)

\* The session id and the local socket of an attempt made in this window.
AttemptAddr(n) == <<n, WindowNow>>

Attempt(n) ==
    /\ stun' = [stun EXCEPT ![n] = NewClient(AttemptAddr(n))]
    /\ worker' = [worker EXCEPT ![n].pc = "punch", ![n].spent = 0, ![n].limit = TimeoutNow]

\* start_punch_worker, at any time within a window
StartPunchWorker(n) ==
    /\ worker[n].pc = "off" /\ clock < Window
    /\ Attempt(n)
    /\ UNCHANGED <<sessions, net, faults, clock, media, todo>>

\* perform_rendezvous gave up: retry at the next window boundary
GivesUp(n) == stun[n].failed \/ worker[n].spent >= worker[n].limit

WorkerTurn_mutOversleeps(n) ==
    CASE worker[n].pc = "punch" /\ GivesUp(n) ->
             /\ worker' = [worker EXCEPT ![n].pc = "sleep"]
             /\ stun' = [stun EXCEPT ![n] = NoClient]
             /\ UNCHANGED net
      [] worker[n].pc = "punch" /\ ~GivesUp(n) ->
             /\ stun' = [stun EXCEPT ![n] = ClientTick(@)]
             /\ net' = net \cup ClientSends(stun[n])
             /\ UNCHANGED worker
      [] worker[n].pc = "hold" /\ worker[n].retry ->
             /\ worker' = [worker EXCEPT ![n].retry = FALSE, ![n].pc = "sleep"]
             /\ UNCHANGED <<stun, net>>
      [] OTHER -> UNCHANGED <<worker, stun, net>>

\* one turn of the worker: perform_rendezvous polls its client, the hold loop
\* looks for a retry request, the sleep ends at a window boundary
WorkerTurn(n) ==
    CASE worker[n].pc = "punch" /\ GivesUp(n) ->
             /\ worker' = [worker EXCEPT ![n].pc = "sleep"]
             /\ stun' = [stun EXCEPT ![n] = NoClient]
             /\ UNCHANGED net
      [] worker[n].pc = "punch" /\ ~GivesUp(n) ->
             /\ stun' = [stun EXCEPT ![n] = ClientTick(@)]
             /\ net' = net \cup ClientSends(stun[n])
             /\ UNCHANGED worker
      [] worker[n].pc = "hold" /\ worker[n].retry ->
             /\ worker' = [worker EXCEPT ![n].retry = FALSE, ![n].pc = "sleep"]
             /\ UNCHANGED <<stun, net>>
      [] worker[n].pc = "sleep" /\ clock % Window = 0 -> Attempt(n) /\ UNCHANGED net
      [] OTHER -> UNCHANGED <<worker, stun, net>>

WorkerRuns(n) ==
    /\ n \in todo /\ todo' = todo \ {n}
    /\ WorkerTurn(n)
    /\ UNCHANGED <<sessions, faults, clock, media>>

\* A reply reaches the client; when it pairs, perform_rendezvous hands the
\* socket over and the worker stages it and clears punch_retry_.
Staged(w, c, m) == [w EXCEPT !.staged = c.addr, !.stagedPeer = m.peer, !.retry = FALSE, !.pc = "hold"]

ClientReceive(n, m) ==
    /\ Accepts(stun[n], m)
    /\ IF m.kind = "paired"
       THEN /\ worker' = [worker EXCEPT ![n] = Staged(@, stun[n], m)]
            /\ stun' = [stun EXCEPT ![n] = NoClient]
       ELSE /\ stun' = [stun EXCEPT ![n] = Answered(@, m)]
            /\ UNCHANGED worker
    /\ UNCHANGED media

\* A reply to a socket that is now the tunnel's is read by drain_rx.
TunnelReceive(n, m) ==
    /\ m.to \in {media[n].fd, worker[n].staged}
    /\ media' = [media EXCEPT ![n].heard = TRUE]
    /\ UNCHANGED <<stun, worker>>

Ignored(m) == \A n \in Nodes : ~Accepts(stun[n], m) /\ m.to \notin {media[n].fd, worker[n].staged}

Deliver ==
    \E m \in net : \E rest \in {net, net \ {m}} :
        /\ Leaves(m, rest)
        /\ \/ ServerReceive(m, rest) /\ UNCHANGED <<stun, worker, media>>
           \/ /\ m.to # None /\ net' = rest /\ UNCHANGED sessions
              /\ \/ \E n \in Nodes : ClientReceive(n, m) \/ TunnelReceive(n, m)
                 \/ Ignored(m) /\ UNCHANGED <<stun, worker, media>>
        /\ UNCHANGED <<clock, todo>>

----------------------------------------------------------------------------
(* The media thread's service(). *)

\* install the staged socket: a fresh grace period, nothing heard yet
Installed(w, m) ==
    IF w.staged = None THEN m
    ELSE [NoTunnel EXCEPT !.fd = w.staged, !.peer = w.stagedPeer, !.heard = m.heard]

\* the watchdog's view after looking at the any-rx counter
Watched(m) == IF m.heard THEN [m EXCEPT !.saw = TRUE, !.quiet = 0, !.heard = FALSE] ELSE m

Dead(m) == (~m.saw /\ m.installed > Grace) \/ (m.saw /\ m.quiet > Stall)

\* teardown_for_repunch closes the socket and wakes the worker
AskRepunch(w) == [w EXCEPT !.staged = None, !.retry = TRUE]

\* service() of one media thread; escalates: the egress path found playout
\* beyond repair (self_heal)
Serviced(n, m, escalates) == LET k == Watched(Installed(worker[n], m))
                             IN  [after |-> k, torn |-> k.fd # None /\ (escalates \/ Dead(k))]

----------------------------------------------------------------------------
(* Time.  In every unit the media threads drain their sockets and run      *)
(* service(), the server expires its sessions and the workers take a turn. *)
(* A unit without tunnel data (cut) and an escalation count as Faults.     *)

Facing(n, k) == media[n].fd # None /\ media[n].peer = media[k].fd
Linked(n) == \E k \in Nodes \ {n} : Facing(n, k) /\ Facing(k, n)

Capped(x, cap) == IF x > cap THEN x ELSE x + 1

Drained(n, cut) ==
    IF media[n].fd = None THEN media[n]
    ELSE [media[n] EXCEPT !.installed = Capped(@, Grace), !.quiet = Capped(@, Stall),
                          !.heard = @ \/ (Linked(n) /\ ~cut)]

\* the window of the attempt a datagram belongs to: none outlives the next one
InWindow(m) == IF m.to = None THEN m.from[2] ELSE m.to[2]

Elapse(cut, escalating) ==
    LET served == [n \in Nodes |-> Serviced(n, Drained(n, cut), n \in escalating)]
        spent == faults + Cardinality(escalating) + (IF cut THEN 1 ELSE 0)
    IN  /\ todo = {} /\ \A m \in net : m.late
        /\ \A n \in escalating : media[n].saw
        /\ spent <= Faults /\ faults' = spent
        /\ clock' = (clock + 1) % (Windows * Window)
        /\ todo' = {n \in Nodes : worker[n].pc # "off"}
        /\ media' = [n \in Nodes |-> IF served[n].torn THEN NoTunnel ELSE served[n].after]
        /\ worker' = [n \in Nodes |->
               LET w == IF served[n].torn THEN AskRepunch(worker[n]) ELSE [worker[n] EXCEPT !.staged = None]
               IN  IF w.pc = "punch" THEN [w EXCEPT !.spent = @ + 1] ELSE w]
        /\ stun' = [n \in Nodes |-> IF stun[n].st \in {"None", "Idle"} THEN stun[n]
                                    ELSE [stun[n] EXCEPT !.age = Capped(@, 2 ^ MaxRetransmits)]]
        /\ sessions' = ExpireOld(sessions)
        /\ net' = {m \in net : InWindow(m) \in {clock' \div Window, WindowNow}}

TunnelStep ==
    \/ \E n \in Nodes : StartPunchWorker(n) \/ WorkerRuns(n)
    \/ Deliver
    \/ \E cut \in BOOLEAN, escalating \in SUBSET Nodes : Elapse(cut, escalating)

NetworkFault == \E m \in net : (Lose(m) \/ Delay(m)) /\ UNCHANGED transportVars

TunnelNext == TunnelStep \/ NetworkFault

\* Time passes, and what is due within a unit of it happens before its end
\* (the guards of Elapse): the threads run, and a datagram that met no fault
\* arrives.
TimePasses == clock' = (clock + 1) % (Windows * Window)

TunnelSpec == TunnelInit /\ [][TunnelNext]_tunnelVars /\ WF_clock(TimePasses)

----------------------------------------------------------------------------
(* Properties. *)

\* The socket a worker stages, and the tunnel it becomes, leads to the other
\* site's socket of the same rendezvous window: never to itself, and never to a
\* socket of another window, whatever was lost, delayed or repeated.
PeerIsTheOtherSite ==
    \A n \in Nodes : \A p \in {<<media[n].fd, media[n].peer>>, <<worker[n].staged, worker[n].stagedPeer>>} :
        p[1] # None => p[2] # None /\ p[2][1] # n /\ p[2][2] = p[1][2]

\* The comment on the punch loop: "rotating the id every window avoids stale
\* STUN-server state".  The server never refuses a site as session full or out
\* of capacity.
NeverRefused == \A m \in net : m.to # None => m.kind # "error"

\* The server's session machine agrees with the slots of its session: Paired
\* exactly when two clients are registered, OneRegistered when one is.
MachineFollowsSlots ==
    \A i \in 1 .. MaxSessions :
        LET e == sessions[i]
            here == Cardinality({s \in {"first", "second"} : e[s].present})
        IN  e.sm = CASE here = 0 -> "Empty" [] here = 1 -> "OneRegistered" [] OTHER -> "Paired"

\* A worker that holds waits for a socket that exists or for a retry that is on
\* its way: a torn down tunnel always leaves its worker with something to do.
HoldingHasReason ==
    \A n \in Nodes : worker[n].pc = "hold" =>
        media[n].fd # None \/ worker[n].staged # None \/ worker[n].retry

\* What a site holds of a rendezvous, and what the server does, agree.
RendezvousAgrees ==
    PeerIsTheOtherSite /\ NeverRefused /\ MachineFollowsSlots /\ HoldingHasReason

\* However the first rendezvous went, once the faults are over both sites end
\* up with sockets that face each other, and the watchdogs leave them alone.
TunnelConverges ==
    (\A n \in Nodes : worker[n].pc # "off") ~> [](\A n \in Nodes : Linked(n))
=============================================================================
