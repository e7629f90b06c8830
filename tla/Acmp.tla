-------------------------------- MODULE Acmp --------------------------------
(***************************************************************************)
(* ACMP (src/statusbar/atdecc, src/statusbar/nanoavb): controllers that    *)
(* order connections, the talkers, and one listener entity with its sinks, *)
(* its fast-connect goals mirrored to disk, and the MSRP reservations that *)
(* ListenerStreams attaches and withdraws from the listener's callbacks.   *)
(* A talker has one stream and stands for it.  Messages may be lost or     *)
(* late; two equal messages in flight count as one.                        *)
(***************************************************************************)
EXTENDS Naturals, Sequences, FiniteSets

CONSTANTS Talkers,
          Sinks,          \* the listener's stream indices
          Indices,        \* the listener_unique_ids a command may name
          Controllers,
          Self,           \* the listener, as the controller of a fast connect
          NoTalker,
          MaxListeners,   \* max_connected_listeners
          MaxInflight,    \* max_inflight
          SeqSpace,       \* the sequence ids of fast connects, 2^16 in the code
          MaxCommands,    \* bound: the commands one controller orders
          MaxFaults       \* bound: losses, late messages, restarts, departures

ASSUME AcmpAssumption ==
    /\ Sinks \subseteq Indices
    /\ Self \notin Controllers
    /\ NoTalker \notin Talkers
    /\ {MaxListeners, MaxInflight, MaxCommands, MaxFaults} \subseteq Nat
    /\ SeqSpace \in Nat \ {0}

VARIABLES listener,   \* NanoAvbAcmpListener and what its callbacks keep
          conns,      \* connected_listeners of each talker's stream
          inflight,   \* the inflight table of each controller
          nextSeq,    \* next_sequence_id of each controller
          net,        \* the messages on the wire
          faults

vars == <<listener, conns, inflight, nextSeq, net, faults>>

RxCommands == {"CONNECT_RX", "DISCONNECT_RX"}
TxCommands == {"CONNECT_TX", "DISCONNECT_TX"}
RxResponses == {"CONNECT_RX_RESPONSE", "DISCONNECT_RX_RESPONSE"}
TxResponses == {"CONNECT_TX_RESPONSE", "DISCONNECT_TX_RESPONSE"}

Statuses == {"SUCCESS", "LISTENER_UNKNOWN_ID", "TALKER_NO_STREAM_INDEX",
             "LISTENER_TALKER_TIMEOUT", "LISTENER_EXCLUSIVE",
             "NO_SUCH_CONNECTION"}

SeqIds == 0..(MaxCommands + SeqSpace)

\* AcmpCommandResponse, with the fields the three machines look at.
Message == [kind   : RxCommands \cup TxCommands \cup RxResponses \cup TxResponses,
            ctl    : Controllers \cup {Self},
            seq    : SeqIds,
            talker : Talkers,
            sink   : Indices,
            status : Statuses]

Goal == [sink : Sinks, talker : Talkers]

Command(kind, ctl, seq, talker, sink) ==
    [kind |-> kind, ctl |-> ctl, seq |-> seq, talker |-> talker,
     sink |-> sink, status |-> "SUCCESS"]

Reply(m, kind, status) == [m EXCEPT !.kind = kind, !.status = status]

\* The response type that answers a command: message_type + 1.
ResponseTo(kind) ==
    CASE kind = "CONNECT_RX"    -> "CONNECT_RX_RESPONSE"
      [] kind = "DISCONNECT_RX" -> "DISCONNECT_RX_RESPONSE"
      [] kind = "CONNECT_TX"    -> "CONNECT_TX_RESPONSE"
      [] kind = "DISCONNECT_TX" -> "DISCONNECT_TX_RESPONSE"

ToTalker(m) ==
    [m EXCEPT !.kind = IF m.kind = "CONNECT_RX" THEN "CONNECT_TX"
                                                ELSE "DISCONNECT_TX"]

\* A listener that has just started with the bindings found on disk.
Started(bindings) ==
    [sinks   |-> [s \in Sinks |-> NoTalker],  \* the talker of a connected sink
     pending |-> {},                          \* at most one pending_command
     retried |-> FALSE,
     goals   |-> bindings,                    \* fast_connect_goals_
     disk    |-> bindings,                    \* the bindings file
     fcSeq   |-> 0,                           \* fast_connect_sequence_
     srp     |-> {},                          \* streams with a declared Listener
     out     |-> {}]                          \* the messages of this step

Init ==
    /\ listener = Started(<<>>)
    /\ conns = [t \in Talkers |-> {}]
    /\ inflight = [c \in Controllers |-> {}]
    /\ nextSeq = [c \in Controllers |-> 0]
    /\ net = {}
    /\ faults = 0

-----------------------------------------------------------------------------
(* The goals, and the file they are mirrored to.                           *)

\* set_on_goals_changed: every change of the goals is saved.
GoalsChanged(x, goals) == [x EXCEPT !.goals = goals, !.disk = goals]

GoalsOf(goals, s) == {i \in DOMAIN goals : goals[i].sink = s}

HasGoal(x, s) == GoalsOf(x.goals, s) # {}

\* The goal of the sink is retargeted, or recorded last.
WithGoal(goals, s, t) ==
    IF GoalsOf(goals, s) # {}
    THEN [i \in 1..Len(goals) |->
            IF goals[i].sink = s THEN [sink |-> s, talker |-> t] ELSE goals[i]]
    ELSE Append(goals, [sink |-> s, talker |-> t])

\* The first goal of the sink is erased.
WithoutGoal(goals, s) ==
    IF GoalsOf(goals, s) = {} THEN goals
    ELSE LET i == CHOOSE j \in GoalsOf(goals, s) : \A k \in GoalsOf(goals, s) : j <= k
         IN  [j \in 1..(Len(goals) - 1) |-> IF j < i THEN goals[j] ELSE goals[j + 1]]

set_fast_connect_goal(x, s, t) == GoalsChanged(x, WithGoal(x.goals, s, t))

clear_fast_connect_goal(x, s) == GoalsChanged(x, WithoutGoal(x.goals, s))

-----------------------------------------------------------------------------
(* The listener.  x is the listener while a handler runs.                  *)

\* ListenerStreams::on_listener_connected: listener_attach.
on_connect(x, s) == [x EXCEPT !.srp = @ \cup {x.sinks[s]}]

\* ListenerStreams::on_listener_disconnected: listener_withdraw of the stream
\* the sink holds at the time of the call.
on_disconnect(x, s) == [x EXCEPT !.srp = @ \ {x.sinks[s]}]

\* The wired tx_response: the goal and the callbacks, then the wire.  What a
\* listener answers to itself nobody reads.
Told(x, r) ==
    CASE r.status # "SUCCESS" -> x
      [] r.status = "SUCCESS" /\ r.kind = "CONNECT_RX_RESPONSE" ->
           on_connect(set_fast_connect_goal(x, r.sink, x.sinks[r.sink]), r.sink)
      [] r.status = "SUCCESS" /\ r.kind = "DISCONNECT_RX_RESPONSE" ->
           on_disconnect(x, r.sink)

TxResponse(x, r) ==
    [Told(x, r) EXCEPT !.out = IF r.ctl = Self THEN @ ELSE @ \cup {r}]

ClearPending(x) == [x EXCEPT !.pending = {}, !.retried = FALSE]

TxCommand(x, cmd) == [x EXCEPT !.out = @ \cup {ToTalker(cmd)}]

StorePending(x, cmd) ==
    TxCommand([x EXCEPT !.pending = {cmd}, !.retried = FALSE], cmd)

send_connect_tx_mutOverwrites(x, cmd) ==
    IF cmd.sink \notin Sinks
    THEN TxResponse(x, Reply(cmd, "CONNECT_RX_RESPONSE", "LISTENER_UNKNOWN_ID"))
    ELSE CASE x.sinks[cmd.sink] = NoTalker -> StorePending(x, cmd)
           [] x.sinks[cmd.sink] = cmd.talker ->
                TxResponse(x, Reply(cmd, "CONNECT_RX_RESPONSE", "SUCCESS"))
           [] OTHER ->
                TxResponse(x, Reply(cmd, "CONNECT_RX_RESPONSE", "LISTENER_EXCLUSIVE"))

send_connect_tx(x, cmd) ==
    CASE x.pending # {} -> x
      [] x.pending = {} /\ cmd.sink \notin Sinks ->
           TxResponse(x, Reply(cmd, "CONNECT_RX_RESPONSE", "LISTENER_UNKNOWN_ID"))
      [] x.pending = {} /\ cmd.sink \in Sinks ->
           CASE x.sinks[cmd.sink] = NoTalker -> StorePending(x, cmd)
             [] x.sinks[cmd.sink] = cmd.talker ->
                  TxResponse(x, Reply(cmd, "CONNECT_RX_RESPONSE", "SUCCESS"))
             [] OTHER ->
                  TxResponse(x, Reply(cmd, "CONNECT_RX_RESPONSE", "LISTENER_EXCLUSIVE"))

send_disconnect_tx(x, cmd) ==
    CASE x.pending # {} -> x
      [] x.pending = {} /\ cmd.sink \notin Sinks ->
           TxResponse(x, Reply(cmd, "DISCONNECT_RX_RESPONSE", "LISTENER_UNKNOWN_ID"))
      [] x.pending = {} /\ cmd.sink \in Sinks ->
           CASE x.sinks[cmd.sink] = NoTalker ->
                  TxResponse(x, Reply(cmd, "DISCONNECT_RX_RESPONSE", "SUCCESS"))
             [] x.sinks[cmd.sink] = cmd.talker -> StorePending(x, cmd)
             [] OTHER ->
                  TxResponse(x, Reply(cmd, "DISCONNECT_RX_RESPONSE", "NO_SUCH_CONNECTION"))

\* A talker's answer to the pending command, or one taken for it.
handle_connect_tx_response(x, cmd, resp) ==
    LET set == IF resp.status = "SUCCESS"
               THEN [x EXCEPT !.sinks[cmd.sink] = resp.talker] ELSE x
    IN  ClearPending(TxResponse(set, Reply(cmd, "CONNECT_RX_RESPONSE", resp.status)))

handle_disconnect_tx_response(x, cmd, resp) ==
    LET set == IF resp.status = "SUCCESS"
               THEN [x EXCEPT !.sinks[cmd.sink] = NoTalker] ELSE x
    IN  ClearPending(TxResponse(set, Reply(cmd, "DISCONNECT_RX_RESPONSE", resp.status)))

\* A connect is tried once more, then the originator is told.
handle_timeout(x, cmd) ==
    IF cmd.kind = "CONNECT_RX" /\ ~x.retried
    THEN TxCommand([x EXCEPT !.retried = TRUE], cmd)
    ELSE ClearPending(TxResponse(x, Reply(cmd, ResponseTo(cmd.kind),
                                          "LISTENER_TALKER_TIMEOUT")))

\* A disconnect forgets the goal before the machine looks at the command.
receive_controller_command(x, cmd) ==
    IF cmd.kind = "CONNECT_RX" THEN send_connect_tx(x, cmd)
    ELSE send_disconnect_tx(clear_fast_connect_goal(x, cmd.sink), cmd)

\* Only the sequence id tells whose answer it is.
receive_talker_response(x, resp) ==
    LET mine == {cmd \in x.pending : cmd.seq = resp.seq}
    IN  IF mine = {} THEN x
        ELSE LET cmd == CHOOSE c \in mine : TRUE
             IN  IF resp.kind = "CONNECT_TX_RESPONSE"
                 THEN handle_connect_tx_response(x, cmd, resp)
                 ELSE handle_disconnect_tx_response(x, cmd, resp)

check_timeout(x, due) ==
    IF ~due \/ x.pending = {} THEN x
    ELSE handle_timeout(x, CHOOSE cmd \in x.pending : TRUE)

fast_connect(x, s, t) ==
    receive_controller_command(
        [x EXCEPT !.fcSeq = (@ + 1) % SeqSpace],
        Command("CONNECT_RX", Self, x.fcSeq, t, s))

Disconnected(x) == {i \in DOMAIN x.goals : x.sinks[x.goals[i].sink] = NoTalker}

fast_connect_tick_mutFirstGoal(x, due) ==
    IF x.goals = <<>> \/ x.pending # {} \/ ~due THEN x
    ELSE IF x.sinks[x.goals[1].sink] # NoTalker THEN x
         ELSE fast_connect(x, x.goals[1].sink, x.goals[1].talker)

\* The first goal whose sink is not connected.
fast_connect_tick(x, due) ==
    IF Disconnected(x) = {} \/ x.pending # {} \/ ~due THEN x
    ELSE LET i == CHOOSE j \in Disconnected(x) : \A k \in Disconnected(x) : j <= k
         IN  fast_connect(x, x.goals[i].sink, x.goals[i].talker)

on_talker_departed_mutKeepsSink(x, t) == [x EXCEPT !.srp = @ \ {t}]

\* clear_talker_connections: each sink is reset after its callback.
on_talker_departed(x, t) ==
    IF \A s \in Sinks : x.sinks[s] # t THEN x
    ELSE [x EXCEPT !.srp = @ \ {t},
                   !.sinks = [s \in Sinks |-> IF @[s] = t THEN NoTalker ELSE @[s]]]

\* The listener takes a step that sends x.out; gone is what it received.
ListenerStep(x, gone) ==
    /\ listener' = [x EXCEPT !.out = {}]
    /\ net' = (net \ gone) \cup x.out
    /\ UNCHANGED <<conns, inflight, nextSeq>>

Fault == faults < MaxFaults /\ faults' = faults + 1

ListenerReceive ==
    /\ \E m \in net :
         \/ /\ m.kind \in RxCommands
            /\ ListenerStep(receive_controller_command(listener, m), {m})
         \/ /\ m.kind \in TxResponses
            /\ ListenerStep(receive_talker_response(listener, m), {m})
    /\ UNCHANGED faults

\* A message of the pending exchange is still on its way.
Underway == \E m \in net, cmd \in listener.pending :
               /\ m.kind \in TxCommands \cup TxResponses
               /\ m.seq = cmd.seq
               /\ m.ctl = cmd.ctl

\* tick: the timeout, and then the goals.  FAST_CONNECT_RETRY has passed when
\* a fast connect times out for the second time.
Tick(timeoutDue, retryDue) ==
    LET late == timeoutDue /\ Underway
        x == check_timeout(listener, timeoutDue)
    IN  /\ (x.pending = {} /\ \E cmd \in listener.pending : cmd.ctl = Self) => retryDue
        /\ ListenerStep(fast_connect_tick(x, retryDue), {})
        /\ IF late THEN Fault ELSE UNCHANGED faults

\* ENTITY_DEPARTING, or the age-out of the discovery.
TalkerDeparted(t) ==
    /\ ListenerStep(on_talker_departed(listener, t), {})
    /\ Fault

\* The entity restarts and reloads its bindings.
ListenerRestart ==
    /\ listener' = Started(listener.disk)
    /\ Fault
    /\ UNCHANGED <<conns, inflight, nextSeq, net>>

-----------------------------------------------------------------------------
(* The talkers.                                                            *)

add_listener(t, s) ==
    IF Cardinality(conns[t]) < MaxListeners THEN conns[t] \cup {s} ELSE conns[t]

TalkerReceive(t) ==
    \E m \in net :
        /\ m.kind \in TxCommands
        /\ m.talker = t
        /\ LET after == IF m.kind = "CONNECT_TX" THEN add_listener(t, m.sink)
                                                 ELSE conns[t] \ {m.sink}
               status == IF m.kind = "CONNECT_TX" /\ m.sink \notin after
                         THEN "TALKER_NO_STREAM_INDEX" ELSE "SUCCESS"
           IN  /\ conns' = [conns EXCEPT ![t] = after]
               /\ net' = (net \ {m}) \cup {Reply(m, ResponseTo(m.kind), status)}
        /\ UNCHANGED <<listener, inflight, nextSeq, faults>>

TalkerRestart(t) ==
    /\ conns' = [conns EXCEPT ![t] = {}]
    /\ Fault
    /\ UNCHANGED <<listener, inflight, nextSeq, net>>

-----------------------------------------------------------------------------
(* The controllers.                                                        *)

\* send_command: refused when the table is full; a command that the port
\* fails to send uses up its sequence id and nothing else.
DoCommand(c, kind, t, s, sent) ==
    LET cmd == Command(kind, c, nextSeq[c], t, s)
    IN  /\ nextSeq[c] < MaxCommands
        /\ Cardinality(inflight[c]) < MaxInflight
        /\ nextSeq' = [nextSeq EXCEPT ![c] = @ + 1]
        /\ IF sent
           THEN /\ inflight' = [inflight EXCEPT ![c] = @ \cup {[cmd |-> cmd, retried |-> FALSE]}]
                /\ net' = net \cup {cmd}
           ELSE UNCHANGED <<inflight, net>>
        /\ UNCHANGED <<listener, conns, faults>>

ControllerReceive(c) ==
    \E m \in net :
        /\ m.kind \in RxResponses
        /\ m.ctl = c
        /\ inflight' = [inflight EXCEPT ![c] =
                          {e \in @ : e.cmd.seq # m.seq \/ ResponseTo(e.cmd.kind) # m.kind}]
        /\ net' = net \ {m}
        /\ UNCHANGED <<listener, conns, nextSeq, faults>>

\* tick: every entry that is due is sent once more, or given up.
ControllerTick(c) ==
    \E due \in SUBSET inflight[c] :
        LET again == {e \in due : ~e.retried}
        IN  /\ due # {}
            /\ inflight' = [inflight EXCEPT ![c] =
                              (@ \ due) \cup {[e EXCEPT !.retried = TRUE] : e \in again}]
            /\ net' = net \cup {e.cmd : e \in again}
            /\ UNCHANGED <<listener, conns, nextSeq, faults>>

-----------------------------------------------------------------------------
Lose ==
    /\ \E m \in net : net' = net \ {m}
    /\ Fault
    /\ UNCHANGED <<listener, conns, inflight, nextSeq>>

Next ==
    \/ ListenerReceive
    \/ \E timeoutDue, retryDue \in BOOLEAN : Tick(timeoutDue, retryDue)
    \/ \E t \in Talkers : TalkerDeparted(t) \/ TalkerReceive(t) \/ TalkerRestart(t)
    \/ ListenerRestart
    \/ \E c \in Controllers :
         \/ \E kind \in RxCommands, t \in Talkers, s \in Indices, sent \in BOOLEAN :
              DoCommand(c, kind, t, s, sent)
         \/ ControllerReceive(c)
         \/ ControllerTick(c)
    \/ Lose

Spec == Init /\ [][Next]_vars

\* The reactor of each entity delivers what arrives and ticks for ever.
FairSpec ==
    /\ Spec
    /\ WF_vars(ListenerReceive)
    /\ WF_vars(Tick(TRUE, TRUE))
    /\ \A t \in Talkers : WF_vars(TalkerReceive(t))

-----------------------------------------------------------------------------
(* Properties.                                                             *)

Exchange == [cmd : Message, retried : BOOLEAN]

\* The talkers' and controllers' tables stay within their capacity, and every
\* part of the state has its type.
TypeOK ==
    /\ listener.sinks \in [Sinks -> Talkers \cup {NoTalker}]
    /\ listener.pending \subseteq {m \in Message : m.kind \in RxCommands /\ m.sink \in Sinks}
    /\ Cardinality(listener.pending) <= 1
    /\ listener.retried \in BOOLEAN
    /\ listener.goals \in Seq(Goal)
    /\ listener.srp \subseteq Talkers
    /\ listener.fcSeq \in 0..(SeqSpace - 1)
    /\ \A t \in Talkers : conns[t] \subseteq Sinks /\ Cardinality(conns[t]) <= MaxListeners
    /\ \A c \in Controllers : /\ inflight[c] \subseteq Exchange
                              /\ Cardinality(inflight[c]) <= MaxInflight
    /\ net \subseteq Message

\* A connected sink has its stream's Listener declared: no order of connects,
\* disconnects, departures and late answers leaves a sink that reports a
\* connection without the reservation that carries it.
SinkReserved ==
    \A s \in Sinks : listener.sinks[s] # NoTalker => listener.sinks[s] \in listener.srp

\* The bindings survive: the file holds the goals, a sink has at most one, and
\* the goal of a connected sink is the talker it is connected to, so that a
\* restart reconnects what was connected (enable_listener_binding_persistence).
BindingsRemembered ==
    /\ listener.disk = listener.goals
    /\ \A i, j \in DOMAIN listener.goals :
         listener.goals[i].sink = listener.goals[j].sink => i = j
    /\ \A i \in DOMAIN listener.goals :
         listener.sinks[listener.goals[i].sink] \in {NoTalker, listener.goals[i].talker}

\* The sinks, the reservations and the bindings of a listener agree after every
\* message, loss, timeout, departure and restart, and no table, the talkers'
\* and the controllers' included, ever exceeds its capacity.
ListenerAgrees == TypeOK /\ SinkReserved /\ BindingsRemembered

\* A controller's command that the listener has taken up leaves the slot only
\* with an answer that carries the controller's sequence id, or when the
\* listener restarts (send_connect_tx: "drop this command rather than overwrite
\* pending_command").
TakenUpIsAnswered ==
    [][\A cmd \in listener.pending :
         cmd.ctl # Self /\ cmd \notin listener'.pending
         => \/ \E r \in net' : r.kind \in RxResponses /\ r.ctl = cmd.ctl /\ r.seq = cmd.seq
            \/ listener' = Started(listener.disk)]_vars

\* A sink with a remembered talker is connected again, whatever was lost,
\* restarted or departed, once that ends (set_fast_connect_goal: "keep
\* fast-connecting until it succeeds").
FastConnectHeals ==
    \A s \in Sinks : HasGoal(listener, s) ~>
                        (listener.sinks[s] # NoTalker \/ ~HasGoal(listener, s))

\* A stream has a declared Listener only while a sink is connected to it: a
\* disconnect releases the reservation ("invoke on_cleared(index) while the
\* sink is still populated (so the caller can release SRP for the stream)").
ReservationReleased ==
    \A t \in listener.srp : \E s \in Sinks : listener.sinks[s] = t
=============================================================================
