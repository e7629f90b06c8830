-------------------------- MODULE ControllerSimple --------------------------
(***************************************************************************)
(* The controller's table of AEM commands in flight                        *)
(* (src/statusbar/atdecc/atdecc_aecp_aem_controller.{hpp,cpp} and the      *)
(* AemCommandTracker of atdecc_aecp_aem.hpp), as driven by                 *)
(* NanoAvbAemController (src/statusbar/nanoavb/nanoavb_controller.cpp).    *)
(*                                                                         *)
(* The table is a bag of exchanges [key, user]: what was asked and whether *)
(* a completion callback waits for the outcome.  An exchange in the table  *)
(* may be answered at any time, for as long as it is there; one whose      *)
(* command or answer was lost, or comes too late, ends by its timeout.     *)
(* Deadlines are abstracted: a tick may find any exchanges overdue, and an *)
(* IN_PROGRESS, which moves the deadline, changes nothing else.  Responses *)
(* are matched by their 16-bit sequence id alone; the ids outlast every    *)
(* packet, so a response to an exchange that has left the table finds none.*)
(***************************************************************************)
EXTENDS Naturals, Sequences, Bags, FiniteSets
LOCAL INSTANCE SequencesExt

CONSTANT MaxAemInflight    \* AemControllerContext::MAX_INFLIGHT

AemExchange(key, user) == [key |-> key, user |-> user]

IsFull(fl) == BagCardinality(fl) >= MaxAemInflight

\* tx_command fails for an entity whose MAC address discovery does not know.
Delivered(fl, reachable) == ~IsFull(fl) /\ reachable

\* send_aem_command: an exchange that cannot be tracked is not sent.
SendAemCommand(fl, reachable, key, user) ==
    IF Delivered(fl, reachable) THEN fl (+) SetToBag({AemExchange(key, user)}) ELSE fl

\* handle_aem_response: the final response ends exchange x.
HandleResponse(fl, x) == fl (-) SetToBag({x})

\* handle_aem_timeout for every exchange of X that the tick finds overdue.
HandleTimeouts(fl, X) == fl (-) X

\* The completion callbacks that the exchanges of fl owe.
Completions(fl) == BagCardinality([x \in {y \in DOMAIN fl : y.user} |-> fl[x]])

-----------------------------------------------------------------------------
(***************************************************************************)
(* The controller's descriptor crawl of one entity                         *)
(* (src/statusbar/atdecc_tools/atdecc_controller_simple.{hpp,cpp}) over    *)
(* the table of commands in flight.                                        *)
(*   csListed    the directory lists the entity;                           *)
(*   csIndex     last_available_index_, NoIndex when it has none;          *)
(*   csRec       the EntityRecord, NoRec when the map has none;            *)
(*   csQueue     descriptor_read_queue_, [key, wait]: wait while a read    *)
(*               was sent less than STREAM_QUERY_RETRY_NS ago;             *)
(*   csCursor    descriptor_read_cursor_;                                  *)
(*   csFormat    the GET_STREAM_FORMAT query of the stream;                *)
(*   csStrings, csWaiting   whether the STRINGS payload is cached, and     *)
(*               whether the stream waits for it;                          *)
(*   csInflight  the exchanges in flight;                                  *)
(*   csOwed      user commands without a CommandCompletedEvent so far (a   *)
(*               history variable);                                        *)
(*   csEvents    directory events and user commands still to come          *)
(*               (MaxEvents bounds them).                                  *)
(* Auto-probing of listener states is off, its default.                    *)
(***************************************************************************)
CONSTANTS DescriptorCounts,  \* descriptor_counts of the CONFIGURATION, in order
          Answering,         \* descriptors the entity can answer with success
          MaxIndex,          \* largest available_index
          MaxEvents          \* directory events and user commands

VARIABLES csListed, csIndex, csRec, csQueue, csCursor, csFormat, csStrings,
          csWaiting, csInflight, csOwed, csEvents

csVars == <<csListed, csIndex, csRec, csQueue, csCursor, csFormat,
            csStrings, csWaiting, csInflight, csOwed, csEvents>>

\* Clock stands for every descriptor the detail view wants and nothing else
\* leads to; Format and Other are the commands that read no descriptor.
Key == {"Entity", "Configuration", "Clock", "Stream", "Locale", "Strings"}

NoIndex == MaxIndex + 1

NoDetail == [seen |-> {}, expected |-> {}]

NewRec == [exists |-> TRUE, requested |-> {}, cache |-> {}, detail |-> NoDetail,
           named |-> FALSE, stream |-> "none"]

NoRec == [NewRec EXCEPT !.exists = FALSE]

\* entities_[target]: a record that does not exist is made.
RecordOf(r) == IF r = NoRec THEN NewRec ELSE r

-----------------------------------------------------------------------------
(***************************************************************************)
(* The read queue.  A crawl is what enqueue_descriptor_read changes:       *)
(* [rec, queue].                                                           *)
(***************************************************************************)
NewReads(keys) == [k \in DOMAIN keys |-> [key |-> keys[k], wait |-> FALSE]]

\* enqueue_descriptor_read of one key after another: once per record,
\* whatever becomes of the read.
EnqueueDescriptorRead(c, keys) ==
    LET r == RecordOf(c.rec)
        fresh == SelectSeq(keys, LAMBDA key : key \notin r.requested)
    IN  [rec   |-> [r EXCEPT !.requested = @ \cup ToSet(fresh)],
         queue |-> c.queue \o NewReads(fresh)]

ClearDescriptorRead(queue, key) == SelectSeq(queue, LAMBDA q : q.key # key)

\* The index of the entry that is step entries away from the cursor.
At(queue, cursor, step) == ((cursor + step) % Len(queue)) + 1

\* The entries send_next_descriptor_read sends, as steps from the cursor: one
\* after the other, those outside their retry window, until the window is
\* full (a read that cannot be sent takes no room).
ReadsToSend(queue, cursor, fl, reachable) ==
    LET due == {step \in 0..(Len(queue) - 1) : ~queue[At(queue, cursor, step)].wait}
        room == CASE IsFull(fl) -> 0
                  [] ~IsFull(fl) /\ reachable -> MaxAemInflight - BagCardinality(fl)
                  [] OTHER -> Len(queue)
    IN  {step \in due : Cardinality({t \in due : t <= step}) <= room}

\* Each of them is in its retry window now, and the cursor is past the last.
SendNextDescriptorRead(queue, cursor, fl, reachable) ==
    LET steps == ReadsToSend(queue, cursor, fl, reachable)
        sent == {At(queue, cursor, step) : step \in steps}
    IN  [queue  |-> [k \in DOMAIN queue |->
                        [queue[k] EXCEPT !.wait = @ \/ k \in sent]],
         cursor |-> IF steps = {} THEN cursor
                    ELSE At(queue, cursor, CHOOSE s \in steps : \A t \in steps : t <= s),
         fl     |-> IF reachable
                    THEN fl (+) SetToBag({AemExchange(queue[k].key, FALSE) : k \in sent})
                    ELSE fl]

-----------------------------------------------------------------------------
(***************************************************************************)
(* The detail view.                                                        *)
(***************************************************************************)
\* ENTITY, CONFIGURATION, the clock descriptors, and the streams the ADPDU
\* announces when the entity is listed.
ExpectedDetail ==
    {"Entity", "Configuration", "Clock"} \cup (IF csListed THEN {"Stream"} ELSE {})

\* The builder stores how many it expects, not which.
IsComplete(d) == Cardinality(d.seen) >= Cardinality(d.expected)

\* EntityDetailBuilder::receive and the completion check that follows it.
DetailReceives(r, key) ==
    LET d == [r.detail EXCEPT !.seen = @ \cup {key}] IN
    IF r.detail = NoDetail THEN r
    ELSE [r EXCEPT !.detail = IF IsComplete(d) THEN NoDetail ELSE d]

-----------------------------------------------------------------------------
(***************************************************************************)
(* Responses.  s is the state they change: [rec, queue, format, strings,   *)
(* waiting]; ok says whether the status was SUCCESS.                       *)
(***************************************************************************)
WithReads(s, keys) ==
    LET c == EnqueueDescriptorRead([rec |-> s.rec, queue |-> s.queue], keys)
    IN  [s EXCEPT !.rec = c.rec, !.queue = c.queue]

\* The stream's object_name is empty: its name is in the STRINGS.
HandleStreamDescriptorResponse(s, ok) ==
    CASE ~ok -> [s EXCEPT !.rec.stream = "failed"]
      [] ok /\ s.strings -> [s EXCEPT !.rec.stream = "named"]
      [] ok /\ ~s.strings -> WithReads([s EXCEPT !.waiting = TRUE], <<"Strings">>)

\* The payload is kept for streams that are still to come; those that wait
\* get their name.
HandleStringsDescriptorResponse(s, ok) ==
    IF ~ok THEN s
    ELSE [s EXCEPT !.strings = TRUE, !.waiting = FALSE,
                   !.rec.stream = IF s.waiting THEN "named" ELSE @]

\* Every descriptor the table lists is read, and a stream's format with it.
HandleConfigurationDescriptorResponse(s) ==
    [WithReads(s, DescriptorCounts) EXCEPT
        !.format = IF @ = "none" /\ \E k \in DOMAIN DescriptorCounts : DescriptorCounts[k] = "Stream"
                   THEN "due" ELSE @]

\* What was asked for is taken from the request: an entity that refuses may
\* not echo it.
AnsweredKey_mutFromEcho(key, ok) == IF ok THEN key ELSE "Entity"

AnsweredKey(key, ok) == key

\* Clears the queue, caches, feeds the detail view, follows the references.
HandleReadDescriptorResponse(s, asked, ok) ==
    LET key == AnsweredKey(asked, ok)
        r == [RecordOf(s.rec) EXCEPT !.cache = @ \cup {key}]
        t == [s EXCEPT !.queue = ClearDescriptorRead(s.queue, key),
                       !.rec = DetailReceives(r, key)]
    IN  CASE key = "Entity" /\ ok ->
                 WithReads([t EXCEPT !.rec.named = TRUE], <<"Configuration">>)
          [] key = "Configuration" /\ ok -> HandleConfigurationDescriptorResponse(t)
          [] key = "Stream" -> HandleStreamDescriptorResponse(t, ok)
          [] key = "Strings" -> HandleStringsDescriptorResponse(t, ok)
          [] key = "Locale" /\ ok -> WithReads(t, <<"Strings">>)
          [] OTHER -> t

\* The format is shown, by a record made anew if there is none.
HandleGetStreamFormatResponse(s) ==
    [s EXCEPT !.format = "none", !.rec = RecordOf(s.rec)]

HandleAemResponse(s, key) ==
    CASE key \in Key -> HandleReadDescriptorResponse(s, key, key \in Answering)
      [] key = "Format" -> HandleGetStreamFormatResponse(s)
      [] key = "Other" -> s

-----------------------------------------------------------------------------
(***************************************************************************)
(* The directory's callbacks (wire_service).                               *)
(***************************************************************************)
CrawlState ==
    [rec |-> csRec, queue |-> csQueue, format |-> csFormat,
     strings |-> csStrings, waiting |-> csWaiting]

SetCrawl(after) ==
    \E s \in {after} :
        /\ csRec' = s.rec
        /\ csQueue' = s.queue
        /\ csFormat' = s.format
        /\ csStrings' = s.strings
        /\ csWaiting' = s.waiting

ForgetEntityMetadata_mutKeepsQueue(s) ==
    [s EXCEPT !.rec = NoRec, !.format = "none", !.strings = FALSE, !.waiting = FALSE]

\* forget_entity_metadata; commands in flight are not recalled.
ForgetEntityMetadata(s) ==
    [rec |-> NoRec, queue |-> <<>>, format |-> "none",
     strings |-> FALSE, waiting |-> FALSE]

FromOutside == csEvents > 0 /\ csEvents' = csEvents - 1

DirectoryEvent == FromOutside /\ UNCHANGED <<csCursor, csInflight, csOwed>>

OnEntityAdded(i) ==
    /\ DirectoryEvent
    /\ ~csListed
    /\ csListed' = TRUE
    /\ csIndex' = i
    /\ SetCrawl(WithReads(CrawlState, <<"Entity">>))

\* An index that went down is a reboot: everything is read again.
OnEntityUpdated(i) ==
    /\ DirectoryEvent
    /\ csListed
    /\ i # csIndex
    /\ csIndex' = i
    /\ UNCHANGED csListed
    /\ LET rebooted == csIndex # NoIndex /\ i < csIndex
           known == csRec # NoRec /\ csRec.named
       IN  CASE rebooted -> SetCrawl(WithReads(ForgetEntityMetadata(CrawlState),
                                               <<"Entity">>))
             [] ~rebooted /\ known -> SetCrawl(CrawlState)
             [] OTHER -> SetCrawl(WithReads(CrawlState, <<"Entity">>))

OnEntityDeparted ==
    /\ DirectoryEvent
    /\ csListed
    /\ csListed' = FALSE
    /\ csIndex' = NoIndex
    /\ SetCrawl(ForgetEntityMetadata(CrawlState))

-----------------------------------------------------------------------------
(***************************************************************************)
(* The user's commands, the tick and the network.                          *)
(***************************************************************************)
\* The commands of NanoAvbAemController as the crawl tells them apart: one
\* that reads a descriptor, and all the others (acquire, lock, identify, the
\* streams, clocks, selectors and counters).
UserCommand == {"Locale", "Other"}

\* dispatch of a command with a completion: one that cannot be sent is
\* completed, as SendFailed, before dispatch returns.
DispatchCommand(key) ==
    /\ FromOutside
    /\ csInflight' = SendAemCommand(csInflight, csListed, key, TRUE)
    /\ csOwed' = IF Delivered(csInflight, csListed) THEN csOwed + 1 ELSE csOwed
    /\ UNCHANGED <<csListed, csIndex, csRec, csQueue, csCursor, csFormat,
                   csStrings, csWaiting>>

\* fetch_entity_descriptors: what is cached is counted at once, the rest is
\* read.
FetchEntityDescriptors ==
    LET r == RecordOf(csRec)
        order == SelectSeq(<<"Entity", "Configuration", "Clock", "Stream">>,
                           LAMBDA k : k \in ExpectedDetail /\ k \notin r.cache)
        d == [seen |-> ExpectedDetail \cap r.cache, expected |-> ExpectedDetail]
        s == WithReads([CrawlState EXCEPT !.rec = r], order)
    IN  /\ FromOutside
        /\ SetCrawl([s EXCEPT !.rec.detail = IF IsComplete(d) THEN NoDetail ELSE d])
        /\ UNCHANGED <<csListed, csIndex, csCursor, csInflight, csOwed>>

\* The query of a stream's format takes what the reads have left of the
\* window.
SendNextStreamFormatQuery(fl, format) ==
    IF format = "due" THEN SendAemCommand(fl, csListed, "Format", FALSE) ELSE fl

FormatAfterTick(fl, format) == IF format = "due" /\ ~IsFull(fl) THEN "wait" ELSE format

AfterRetryWindow(retry) ==
    [k \in DOMAIN csQueue |-> [csQueue[k] EXCEPT !.wait = @ /\ ~retry]]

\* tick: the overdue exchanges X end, completions included; then the reads,
\* then the format query.  retry: the retry windows are over.
CrawlTick(X, retry) ==
    \E fl \in {HandleTimeouts(csInflight, X)}, queue \in {AfterRetryWindow(retry)} :
    \E w \in {SendNextDescriptorRead(queue, csCursor, fl, csListed)} :
        LET format == IF retry /\ csFormat = "wait" THEN "due" ELSE csFormat IN
        /\ csQueue' = w.queue
        /\ csCursor' = w.cursor
        /\ csInflight' = SendNextStreamFormatQuery(w.fl, format)
        /\ csFormat' = FormatAfterTick(w.fl, format)
        /\ csOwed' = csOwed - Completions(X)
        /\ UNCHANGED <<csListed, csIndex, csRec, csStrings, csWaiting, csEvents>>

\* receive_aecp of the final response: on_response, then the completion.
ReceiveAecp(x) ==
    /\ csInflight' = HandleResponse(csInflight, x)
    /\ SetCrawl(HandleAemResponse(CrawlState, x.key))
    /\ csOwed' = IF x.user THEN csOwed - 1 ELSE csOwed
    /\ UNCHANGED <<csListed, csIndex, csCursor, csEvents>>

-----------------------------------------------------------------------------
CrawlInit ==
    /\ csListed = FALSE
    /\ csIndex = NoIndex
    /\ csRec = NoRec
    /\ csQueue = <<>>
    /\ csCursor = 0
    /\ csFormat = "none"
    /\ csStrings = FALSE
    /\ csWaiting = FALSE
    /\ csInflight = EmptyBag
    /\ csOwed = 0
    /\ csEvents = MaxEvents

CrawlNext ==
    \/ \E i \in 0..MaxIndex : OnEntityAdded(i) \/ OnEntityUpdated(i)
    \/ OnEntityDeparted
    \/ \E key \in UserCommand : DispatchCommand(key)
    \/ FetchEntityDescriptors
    \/ \E X \in SubBag(csInflight), retry \in BOOLEAN : CrawlTick(X, retry)
    \/ \E x \in DOMAIN csInflight : ReceiveAecp(x)

\* The reactor ticks; time passes; the entity and the network do not fail one
\* descriptor for ever.
CrawlFairness ==
    /\ WF_csVars(CrawlTick(csInflight, TRUE))
    /\ SF_csVars(\E x \in DOMAIN csInflight : ReceiveAecp(x))

-----------------------------------------------------------------------------
\* What the crawl rests on between its steps: the window is kept; every user
\* command still has exactly one completion to come (AemCommandCompletion
\* "fires exactly once per tracked command"); a descriptor counted as
\* requested, which is never asked for twice, is queued or has been answered,
\* and is queued once; whatever the detail view still waits for is queued; and
\* a stream waits for its STRINGS only while they are not cached.
CrawlAgrees ==
    LET queued == {csQueue[k].key : k \in DOMAIN csQueue} IN
    /\ BagCardinality(csInflight) <= MaxAemInflight
    /\ csOwed = Completions(csInflight)
    /\ Cardinality(queued) = Len(csQueue)
    /\ IF csRec = NoRec THEN csQueue = <<>>
       ELSE /\ csRec.requested \subseteq queued \cup csRec.cache
            /\ queued \subseteq csRec.requested
            /\ csRec.detail.expected \ csRec.detail.seen \subseteq queued
    /\ ~(csWaiting /\ csStrings)

\* All the entity's tables lead to, from its ENTITY descriptor on.
Reachable ==
    {"Entity", "Configuration"} \cup {DescriptorCounts[k] : k \in DOMAIN DescriptorCounts}
        \cup (IF \E k \in DOMAIN DescriptorCounts : DescriptorCounts[k] \in {"Locale", "Stream"}
              THEN {"Strings"} ELSE {})

\* Whatever is lost, delayed or timed out, an entity that stays in the
\* directory is read to the end: every descriptor reachable from its ENTITY is
\* answered, nothing stays queued, the detail view is complete and a stream's
\* localized name is resolved.
CrawlFinishes ==
    (<>[]csListed) =>
        <>[](/\ Reachable \subseteq csRec.cache
             /\ csQueue = <<>>
             /\ csFormat = "none"
             /\ "Stream" \in Answering /\ "Strings" \in Answering => csRec.stream = "named")

-----------------------------------------------------------------------------
(***************************************************************************)
(* Tasks that other threads hand to the controller's reactor               *)
(* (src/statusbar/atdecc_tools/atdecc_reactor_marshal.hpp).                *)
(*   rmPoster[t]  where thread t is in post() and the number of its last   *)
(*                task, modulo TaskNumbers;                                *)
(*   rmQueue      queue_, tasks as <<thread, number>>;                     *)
(*   rmPipe       the bytes in the wakeup pipe;                            *)
(*   rmReactor    where the reactor is in on_ready(), and the tasks it     *)
(*                has swapped out and not yet run;                         *)
(*   rmRan[t]     the number of t's task that ran last (history).          *)
(***************************************************************************)
CONSTANTS Posters,         \* the foreign threads
          PipeCapacity,    \* bytes the pipe holds; a further write is refused
          SinkSize,        \* bytes one read() of on_ready takes
          MaxTasks         \* bound on the tasks posted and not yet run

VARIABLES rmPoster, rmQueue, rmPipe, rmReactor, rmRan

rmVars == <<rmPoster, rmQueue, rmPipe, rmReactor, rmRan>>

TaskNumbers == MaxTasks + 1

Successor(n) == (n + 1) % TaskNumbers

\* post(): the task is queued under the mutex ...
PostTask(t) ==
    LET n == Successor(rmPoster[t].last) IN
    /\ rmPoster[t].pc = "idle"
    /\ Len(rmQueue) + Len(rmReactor.tasks) < MaxTasks
    /\ rmQueue' = Append(rmQueue, <<t, n>>)
    /\ rmPoster' = [rmPoster EXCEPT ![t] = [pc |-> "write", last |-> n]]
    /\ UNCHANGED <<rmPipe, rmReactor, rmRan>>

\* ... and the wakeup byte is written outside it; a full pipe refuses it.
WriteWake(t) ==
    /\ rmPoster[t].pc = "write"
    /\ rmPipe' = IF rmPipe < PipeCapacity THEN rmPipe + 1 ELSE rmPipe
    /\ rmPoster' = [rmPoster EXCEPT ![t].pc = "idle"]
    /\ UNCHANGED <<rmQueue, rmReactor, rmRan>>

\* The reactor finds the pipe readable and calls on_ready().
PollReady ==
    /\ rmReactor.pc = "poll" /\ rmPipe > 0
    /\ rmReactor' = [rmReactor EXCEPT !.pc = "drain"]
    /\ UNCHANGED <<rmPoster, rmQueue, rmPipe, rmRan>>

\* One read() of the drain loop: the first that finds nothing ends it.
DrainRead ==
    /\ rmReactor.pc = "drain"
    /\ rmPipe' = IF rmPipe > SinkSize THEN rmPipe - SinkSize ELSE 0
    /\ rmReactor' = [rmReactor EXCEPT !.pc = IF rmPipe = 0 THEN "swap" ELSE "drain"]
    /\ UNCHANGED <<rmPoster, rmQueue, rmRan>>

SwapQueue ==
    /\ rmReactor.pc = "swap"
    /\ rmReactor' = [pc |-> "run", tasks |-> rmQueue]
    /\ rmQueue' = <<>>
    /\ UNCHANGED <<rmPoster, rmPipe, rmRan>>

RunTask ==
    /\ rmReactor.pc = "run"
    /\ IF rmReactor.tasks = <<>>
       THEN /\ rmReactor' = [rmReactor EXCEPT !.pc = "poll"]
            /\ UNCHANGED rmRan
       ELSE LET task == Head(rmReactor.tasks) IN
            /\ rmReactor' = [rmReactor EXCEPT !.tasks = Tail(@)]
            /\ rmRan' = [rmRan EXCEPT ![task[1]] = task[2]]
    /\ UNCHANGED <<rmPoster, rmQueue, rmPipe>>

MarshalInit ==
    /\ rmPoster = [t \in Posters |-> [pc |-> "idle", last |-> 0]]
    /\ rmQueue = <<>>
    /\ rmPipe = 0
    /\ rmReactor = [pc |-> "poll", tasks |-> <<>>]
    /\ rmRan = [t \in Posters |-> 0]

ReactorTurn == PollReady \/ DrainRead \/ SwapQueue \/ RunTask

MarshalNext == ReactorTurn \/ \E t \in Posters : PostTask(t) \/ WriteWake(t)

\* Both sides keep running; nobody has to post.
MarshalFairness ==
    /\ WF_rmVars(ReactorTurn)
    /\ \A t \in Posters : WF_rmVars(WriteWake(t))

\* What is posted and has not run yet, of thread t.
Outstanding(t) == SelectSeq(rmReactor.tasks \o rmQueue, LAMBDA task : task[1] = t)

\* No task sleeps: while the queue holds one, a byte is in the pipe, or on its
\* way there, or the reactor has yet to swap the queue; and every thread's
\* tasks run once each, in the order it posted them.
MarshalAgrees ==
    /\ rmQueue # <<>> => \/ rmPipe > 0
                         \/ \E t \in Posters : rmPoster[t].pc = "write"
                         \/ rmReactor.pc \in {"drain", "swap"}
    /\ \A t \in Posters :
         /\ Len(Outstanding(t)) = (rmPoster[t].last + TaskNumbers - rmRan[t]) % TaskNumbers
         /\ \A i \in DOMAIN Outstanding(t) :
              Outstanding(t)[i][2] = (rmRan[t] + i) % TaskNumbers

\* Every task posted runs ("any byte already in the pipe wakes the reactor,
\* which drains the whole queue"): whoever keeps posting, again and again the
\* queue is swapped out, and what was swapped out is done.
PostedTasksRun == []<>(rmQueue = <<>>) /\ []<>(rmReactor.tasks = <<>>)
=============================================================================
