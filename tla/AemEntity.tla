----------------------------- MODULE AemEntity ------------------------------
(***************************************************************************)
(* The runtime values of a descriptor-storage entity: what the handler     *)
(* keeps in RAM over the authored descriptors, one table per kind of value *)
(* (DescriptorStorageHandler).  A table is keyed by the descriptor index   *)
(* alone and holds Capacity entries; the authored descriptors differ from  *)
(* configuration to configuration.                                         *)
(*                                                                         *)
(* A SET carries a well-formed or a short value.  hook is the answer of    *)
(* the application's change callback ("SUCCESS" when there is none).       *)
(***************************************************************************)
EXTENDS Naturals, Sequences, FiniteSets

CONSTANTS
    Indexes,        \* descriptor indexes
    Choices,        \* the values a descriptor can take
    Configurations, \* configuration indexes
    Authored,       \* [Configurations -> [Indexes -> the blob's descriptor]]
    Capacity,       \* entries of a table
    Absent,         \* no entry, no descriptor
    Bare            \* a stream entry that holds no format

ASSUME AuthoredAssumption ==
    \A g \in Configurations, i \in Indexes :
        \/ Authored[g][i] = Absent
        \/ /\ Authored[g][i].current \in Choices
           /\ Authored[g][i].listed \subseteq Choices

Tables == [Indexes -> Choices \cup {Absent, Bare}]
EmptyTable == [i \in Indexes |-> Absent]

Exists(g, i) == Authored[g][i] # Absent

\* A free entry, or the descriptor's own (find_or_push_state).
Room(tbl, i) ==
    tbl[i] # Absent \/ Cardinality({j \in Indexes : tbl[j] # Absent}) < Capacity

\* The entry a lazily created state holds before anything was set in it.
Seed(kind, g, i) == IF kind = "mixer" THEN Authored[g][i].current ELSE Bare

\* find_or_init_mixer_state, find_or_init_stream_state: the table with the
\* entry, when the descriptor exists and there is room.
FindOrInit(kind, tbl, g, i) ==
    IF tbl[i] = Absent /\ Exists(g, i) /\ Room(tbl, i)
      THEN [tbl EXCEPT ![i] = Seed(kind, g, i)]
      ELSE tbl

Answer(status, tbl) == [status |-> status, tbl |-> tbl]

\* The value a table serves for descriptor i of configuration g: the runtime
\* value over the authored one.
Served(tbl, g, i) ==
    IF tbl[i] \in Choices THEN tbl[i]
    ELSE IF Exists(g, i) THEN Authored[g][i].current ELSE Absent

\* GET_MIXER creates the entry it reads.
GetMixer(tbl, g, i) == FindOrInit("mixer", tbl, g, i)[i]

-----------------------------------------------------------------------------
\* Stores v once the hook has accepted it; the entry is taken only then.
StoreAccepted(tbl, i, v, hook) ==
    IF hook # "SUCCESS" THEN Answer(hook, tbl)
    ELSE IF ~Room(tbl, i) THEN Answer("NO_RESOURCES", tbl)
    ELSE Answer("SUCCESS", [tbl EXCEPT ![i] = v])

\* Stores v in an entry taken before the hook is asked.
StoreEarly(kind, tbl, g, i, v, hook) ==
    LET with == FindOrInit(kind, tbl, g, i) IN
    IF with[i] = Absent THEN Answer("NO_SUCH_DESCRIPTOR", tbl)
    ELSE IF hook # "SUCCESS" THEN Answer(hook, with)
    ELSE Answer("SUCCESS", [with EXCEPT ![i] = v])

SetSignalSelector(tbl, g, i, v, short, hook) ==
    IF short THEN Answer("BAD_ARGUMENTS", tbl)
    ELSE IF ~Exists(g, i) THEN Answer("NO_SUCH_DESCRIPTOR", tbl)
    ELSE IF v \notin Authored[g][i].listed THEN Answer("BAD_ARGUMENTS", tbl)
    ELSE StoreAccepted(tbl, i, v, hook)

SetClockSource(tbl, g, i, v, short, hook) ==
    IF short THEN Answer("BAD_ARGUMENTS", tbl)
    ELSE IF ~Exists(g, i) THEN Answer("NO_SUCH_DESCRIPTOR", tbl)
    ELSE IF v \notin Authored[g][i].listed THEN Answer("BAD_ARGUMENTS", tbl)
    ELSE StoreAccepted(tbl, i, v, hook)

SetControl(tbl, g, i, v, short, hook) ==
    IF ~Exists(g, i) THEN Answer("NO_SUCH_DESCRIPTOR", tbl)
    ELSE IF short THEN Answer("BAD_ARGUMENTS", tbl)
    ELSE StoreAccepted(tbl, i, v, hook)

SetMixer(tbl, g, i, v, short, hook) ==
    LET with == FindOrInit("mixer", tbl, g, i) IN
    IF short /\ with[i] # Absent THEN Answer("BAD_ARGUMENTS", with)
    ELSE StoreEarly("mixer", tbl, g, i, v, hook)

\* The authored format or rate is accepted besides the listed ones.
Supported(g, i, v) == v = Authored[g][i].current \/ v \in Authored[g][i].listed

SetStreamFormat(tbl, g, i, v, short, hook) ==
    IF short THEN Answer("BAD_ARGUMENTS", tbl)
    ELSE IF ~Exists(g, i) THEN Answer("NO_SUCH_DESCRIPTOR", tbl)
    ELSE IF ~Supported(g, i, v) THEN Answer("NOT_SUPPORTED", tbl)
    ELSE StoreEarly("format", tbl, g, i, v, hook)

SetSamplingRate(tbl, g, i, v, short, hook) ==
    IF short THEN Answer("BAD_ARGUMENTS", tbl)
    ELSE IF ~Exists(g, i) THEN Answer("NO_SUCH_DESCRIPTOR", tbl)
    ELSE IF ~Supported(g, i, v) THEN Answer("NOT_SUPPORTED", tbl)
    ELSE StoreAccepted(tbl, i, v, hook)

\* START_STREAMING and STOP_STREAMING carry no value beyond the command.
SetStreaming(tbl, g, i, v, hook) == StoreEarly("streaming", tbl, g, i, v, hook)

\* SET_NAME of an object: the empty name clears the entry; no callback is
\* asked.  A short command fails the model's own length check.
ApplyObjectName(tbl, g, i, v, short) ==
    IF short THEN Answer("BAD_ARGUMENTS", tbl)
    ELSE IF ~Exists(g, i) THEN Answer("NOT_IMPLEMENTED", tbl)
    ELSE IF v = Absent THEN Answer("SUCCESS", [tbl EXCEPT ![i] = Absent])
    ELSE StoreAccepted(tbl, i, v, "SUCCESS")

\* on_set_descriptor_value, on_set_name: the kind of value decides.
OnSet(kind, tbl, g, i, v, short, hook) ==
    CASE kind = "selector"  -> SetSignalSelector(tbl, g, i, v, short, hook)
      [] kind = "clock"     -> SetClockSource(tbl, g, i, v, short, hook)
      [] kind = "control"   -> SetControl(tbl, g, i, v, short, hook)
      [] kind = "mixer"     -> SetMixer(tbl, g, i, v, short, hook)
      [] kind = "format"    -> SetStreamFormat(tbl, g, i, v, short, hook)
      [] kind = "rate"      -> SetSamplingRate(tbl, g, i, v, short, hook)
      [] kind = "streaming" -> SetStreaming(tbl, g, i, v, hook)
      [] kind = "name"      -> ApplyObjectName(tbl, g, i, v, short)

\* The kinds whose READ_DESCRIPTOR carries the runtime value: on_get_stream,
\* on_get_audio_unit, on_get_clock_domain, on_get_signal_selector and the
\* object names.  A mixer's or a control's descriptor stays as authored.
Reflected == {"selector", "clock", "format", "rate", "name"}

ReadDescriptor(kind, tbl, g, i) ==
    IF ~Exists(g, i) THEN Absent
    ELSE IF kind \in Reflected THEN Served(tbl, g, i)
    ELSE Authored[g][i].current

-----------------------------------------------------------------------------
(***************************************************************************)
(* The AECP command handler of an entity (AemCommandHandler) and the       *)
(* controllers that talk to it: exclusive access by ACQUIRE_ENTITY and     *)
(* LOCK_ENTITY, unsolicited notifications, deferred commands, the change   *)
(* of configuration, and the values of one kind of descriptor.             *)
(*                                                                         *)
(* A command is one step: its handler, the notifications it emits and the  *)
(* response.  ctl is what the controllers make of them.                    *)
(***************************************************************************)
CONSTANTS
    Controllers, NoController,
    Kinds,          \* the kinds of value a behaviour may be about
    MaxRegs,        \* MAX_UNSOLICITED_REGISTRATIONS
    MaxPending,     \* MAX_PENDING_COMMANDS
    IdentifyIndex,  \* the CONTROL that identifies the entity
    Handshake       \* send_controller_available may be wired

ASSUME AemAssumption ==
    /\ IsFiniteSet(Indexes) /\ IsFiniteSet(Controllers)
    /\ Absent \notin Indexes \cup Choices \cup {Bare} /\ Bare \notin Choices
    /\ NoController \notin Controllers
    /\ 0 \in Configurations /\ IdentifyIndex \in Indexes
    /\ Capacity \in Nat /\ MaxRegs \in Nat /\ MaxPending \in Nat
    /\ Kinds \subseteq {"selector", "clock", "control", "mixer", "format", "rate",
                        "streaming", "name", "deferred"}
    /\ Handshake \in BOOLEAN

VARIABLES
    kind,   \* the kind of value this behaviour is about
    wired,  \* send_controller_available is set
    ent,    \* the handler: owner, persistent, lock, pend, slots, regs, config,
            \* tbl, and jobs, the deferred work of the application
    ctl,    \* owns: who has been told it owns the entity; knows: the values
            \* each controller was told while informed, Absent when unknown;
            \* acked: the last value a SET was granted
    last    \* whose SET the last step ran, NoController for any other step

aemVars == <<kind, wired, ent, ctl, last>>

\* The PERSISTENT flag is read back by the handshake alone.
Persistence == IF wired THEN BOOLEAN ELSE {FALSE}
NoPend == [c |-> NoController, persistent |-> FALSE]
NoSlot == [i |-> Absent, v |-> Absent]
Slots == 1 .. MaxPending

ValueAt(e, g, i) ==
    IF kind = "mixer" THEN GetMixer(e.tbl, g, i) ELSE Served(e.tbl, g, i)

Unknown == [i \in Indexes |-> Absent]

AemInit ==
    /\ kind \in Kinds
    /\ wired \in {FALSE, Handshake}
    /\ ent = [owner |-> NoController, persistent |-> FALSE, lock |-> NoController,
              pend |-> NoPend, slots |-> [s \in Slots |-> NoSlot], regs |-> {},
              config |-> 0, tbl |-> EmptyTable, jobs |-> <<>>]
    /\ ctl = [owns |-> {},
              knows |-> [c \in Controllers |-> Unknown],
              acked |-> Unknown]
    /\ last = NoController

-----------------------------------------------------------------------------
\* emit_unsolicited goes to the registered controllers and to the acquiring
\* one, registered or not.
Informed(e) == e.regs \cup ({e.owner} \ {NoController})

TellValue_mutRegisteredOnly(k, e, i, v) ==
    [k EXCEPT !.knows = [c \in Controllers |->
        IF c \in e.regs THEN [@[c] EXCEPT ![i] = v] ELSE @[c]]]

\* A value is announced: those informed know it.
TellValue(k, e, i, v) ==
    [k EXCEPT !.knows = [c \in Controllers |->
        IF c \in Informed(e) THEN [@[c] EXCEPT ![i] = v] ELSE @[c]]]

\* The owner is announced.
TellOwner(k, e) ==
    [k EXCEPT !.owns = (@ \ Informed(e)) \cup ({e.owner} \ {NoController})]

\* What a controller knew no longer counts: it has stopped or just started
\* listening, or the configuration has changed.
Forget(k, cs) ==
    [k EXCEPT !.knows = [c \in Controllers |-> IF c \in cs THEN Unknown ELSE @[c]]]

Uninformed(e) == Controllers \ Informed(e)

CheckExclusiveAccess_mutLockOnly(e, c) ==
    IF e.lock \notin {NoController, c} THEN "ENTITY_LOCKED" ELSE "SUCCESS"

\* ENTITY_ACQUIRED comes before ENTITY_LOCKED.
CheckExclusiveAccess(e, c) ==
    IF e.owner \notin {NoController, c} THEN "ENTITY_ACQUIRED"
    ELSE IF e.lock \notin {NoController, c} THEN "ENTITY_LOCKED"
    ELSE "SUCCESS"

Own(e, c, persistent) == [e EXCEPT !.owner = c, !.persistent = persistent]

-----------------------------------------------------------------------------
\* handle_acquire_entity without RELEASE.  A request that finds another,
\* non-persistent owner asks that owner first, when the handshake is wired;
\* it replaces any request already waiting.
Acquire(c, persistent) ==
    /\ last' = NoController
    /\ \/ /\ ent.owner = NoController
          /\ ent' = Own(ent, c, persistent)
          /\ ctl' = TellOwner(ctl, ent')
       \/ /\ ent.owner = c
          /\ ctl' = TellOwner(ctl, ent)
          /\ UNCHANGED ent
       \/ /\ ent.owner \notin {c, NoController}
          /\ IF wired /\ ~ent.persistent
               THEN ent' = [ent EXCEPT !.pend = [c |-> c, persistent |-> persistent]]
               ELSE UNCHANGED ent
          /\ UNCHANGED ctl
    /\ UNCHANGED <<kind, wired>>

\* handle_acquire_entity with RELEASE: only the owner's clears it.
Release(c) ==
    /\ last' = NoController
    /\ IF ent.owner = c
         THEN /\ ent' = Own(ent, NoController, FALSE)
              /\ ctl' = [Forget(TellOwner(ctl, ent'), Uninformed(ent')) EXCEPT !.owns = @ \ {c}]
         ELSE UNCHANGED <<ent, ctl>>
    /\ UNCHANGED <<kind, wired>>

\* handle_lock_entity: lock, refresh or unlock.
Lock(c, unlock) ==
    /\ last' = NoController
    /\ ent' = [ent EXCEPT !.lock = IF @ \notin {NoController, c} THEN @
                                   ELSE IF unlock THEN NoController ELSE c]
    /\ UNCHANGED <<kind, wired, ctl>>

RegisterUnsolicited(c) ==
    /\ last' = NoController
    /\ ent' = [ent EXCEPT !.regs =
                  IF Cardinality(@) < MaxRegs THEN @ \cup {c} ELSE @]
    /\ UNCHANGED <<kind, wired, ctl>>

\* DEREGISTER_UNSOLICITED_NOTIFICATION, or the host dropping a controller
\* that departed (remove_unsolicited_registrations_for).
DeregisterUnsolicited(c) ==
    /\ last' = NoController
    /\ ent' = [ent EXCEPT !.regs = @ \ {c}]
    /\ ctl' = Forget(ctl, Uninformed(ent'))
    /\ UNCHANGED <<kind, wired>>

-----------------------------------------------------------------------------
\* handle_set_configuration: refused out of range or by the hook; told only
\* when it switches.
SetConfiguration(c, g, hook) ==
    /\ last' = c
    /\ IF /\ CheckExclusiveAccess(ent, c) = "SUCCESS"
          /\ g \in Configurations
          /\ g # ent.config
          /\ hook = "SUCCESS"
         THEN /\ ent' = [ent EXCEPT !.config = g]
              /\ ctl' = Forget(ctl, Controllers)
         ELSE UNCHANGED <<ent, ctl>>
    /\ UNCHANGED <<kind, wired>>

Deferring == kind = "deferred"

\* defer_command: the first free slot, NO_RESOURCES when there is none.
Defer(e, i, v) ==
    LET free == {s \in Slots : e.slots[s] = NoSlot} IN
    IF free = {} THEN e
    ELSE LET s == CHOOSE s \in free : \A t \in free : s <= t IN
         [e EXCEPT !.slots[s] = [i |-> i, v |-> v],
                   !.jobs = Append(@, [i |-> i, v |-> v])]

\* handle_set_descriptor_value: the handler's answer, stored and announced on
\* SUCCESS.
Applied(g, i, v, short, hook) ==
    LET a == OnSet(kind, ent.tbl, g, i, v, short, hook) IN
    /\ ent' = [ent EXCEPT !.tbl = a.tbl]
    /\ ctl' = IF a.status = "SUCCESS"
                THEN [TellValue(ctl, ent, i, v) EXCEPT !.acked[i] = v]
                ELSE ctl

\* A SET of a value that honours the exclusive claim.
SetValue(c, i, v, short, hook) ==
    /\ kind = "control" => i # IdentifyIndex
    /\ last' = c
    /\ IF CheckExclusiveAccess(ent, c) # "SUCCESS"
         THEN UNCHANGED <<ent, ctl>>
         ELSE IF Deferring
         THEN ent' = Defer(ent, i, v) /\ UNCHANGED ctl
         ELSE Applied(ent.config, i, v, short, hook)
    /\ UNCHANGED <<kind, wired>>

\* SET_CONTROL of the IDENTIFY control, by any controller.
SetIdentify(c, v) ==
    /\ kind = "control"
    /\ last' = c
    /\ Applied(ent.config, IdentifyIndex, v, FALSE, "SUCCESS")
    /\ UNCHANGED <<kind, wired>>

\* set_local_identify, apply_local_descriptor_value: the entity's own change,
\* looked up in configuration 0.
SetLocalIdentify(v) ==
    /\ kind = "control"
    /\ last' = NoController
    /\ Applied(0, IdentifyIndex, v, FALSE, "SUCCESS")
    /\ UNCHANGED <<kind, wired>>

\* GET_MIXER: reading creates the entry.
GetValue(i) ==
    /\ kind = "mixer"
    /\ last' = NoController
    /\ ent' = [ent EXCEPT !.tbl = FindOrInit("mixer", @, ent.config, i)]
    /\ UNCHANGED <<kind, wired, ctl>>

\* complete_pending_command for descriptor i: the first slot that names it is
\* answered.  The application finishes its work in order and passes the value
\* it now has as the response body.
CompletePending(ok) ==
    /\ ent.jobs # <<>>
    /\ last' = NoController
    /\ LET job  == Head(ent.jobs)
           held == {s \in Slots : ent.slots[s].i = job.i}
           s    == CHOOSE s \in held : \A t \in held : s <= t
       IN /\ held # {}
          /\ ent' = [ent EXCEPT !.slots[s] = NoSlot, !.jobs = Tail(@),
                                !.tbl[job.i] = IF ok THEN job.v ELSE @]
          /\ ctl' = IF ok THEN [TellValue(ctl, ent, job.i, job.v)
                                  EXCEPT !.acked[job.i] = job.v]
                          ELSE ctl
    /\ UNCHANGED <<kind, wired>>

-----------------------------------------------------------------------------
\* controller_available_response_received: the waiting request is denied.
OwnerAvailable ==
    /\ ent.pend # NoPend
    /\ last' = NoController
    /\ ent' = [ent EXCEPT !.pend = NoPend]
    /\ UNCHANGED <<kind, wired, ctl>>

\* controller_available_timed_out: the waiting request is granted, whoever
\* owns the entity by now.
TimedOut(e, k) ==
    LET taken == [Own(e, e.pend.c, e.pend.persistent) EXCEPT !.pend = NoPend] IN
    <<taken, Forget(TellOwner(k, taken), Uninformed(taken))>>

\* tick with the lock, the waiting request or both past their deadlines.  The
\* repeated IN_PROGRESS of the deferred commands changes nothing here.
AemTick(lockDue, pendDue) ==
    LET e == IF lockDue THEN [ent EXCEPT !.lock = NoController] ELSE ent
        r == IF pendDue THEN TimedOut(e, ctl) ELSE <<e, ctl>>
    IN /\ lockDue \/ pendDue
       /\ lockDue => ent.lock # NoController
       /\ pendDue => ent.pend # NoPend
       /\ last' = NoController
       /\ ent' = r[1] /\ ctl' = r[2]
       /\ UNCHANGED <<kind, wired>>

AemNext ==
    \/ \E c \in Controllers :
         \/ \E p \in Persistence : Acquire(c, p)
         \/ Release(c)
         \/ \E u \in BOOLEAN : Lock(c, u)
         \/ RegisterUnsolicited(c)
         \/ DeregisterUnsolicited(c)
         \/ \E g \in 0 .. Cardinality(Configurations), h \in {"SUCCESS", "NOT_SUPPORTED"} :
              SetConfiguration(c, g, h)
         \/ \E i \in Indexes, v \in Choices \cup (IF kind = "name" THEN {Absent} ELSE {}),
              short \in BOOLEAN, h \in {"SUCCESS", "NOT_SUPPORTED"} :
              SetValue(c, i, v, short, h)
         \/ \E v \in Choices : SetIdentify(c, v)
    \/ \E v \in Choices : SetLocalIdentify(v)
    \/ \E i \in Indexes : GetValue(i)
    \/ \E ok \in BOOLEAN : CompletePending(ok)
    \/ OwnerAvailable
    \/ \E l, p \in BOOLEAN : AemTick(l, p)

AemSpec == AemInit /\ [][AemNext]_aemVars

-----------------------------------------------------------------------------
AemTypeOK ==
    /\ ent.owner \in Controllers \cup {NoController}
    /\ ent.lock \in Controllers \cup {NoController}
    /\ ent.tbl \in Tables
    /\ Cardinality({i \in Indexes : ent.tbl[i] # Absent}) <= Capacity \/ Deferring
    /\ Cardinality(ent.regs) <= MaxRegs
    /\ ent.config \in Configurations

\* Without the handshake, a controller that was told it owns the entity does
\* own it, across releases, refusals and other controllers' requests.
OwnersAreRight == ~wired => ctl.owns \subseteq {ent.owner}

\* A controller that is registered, or that owns the entity, never holds a
\* value the entity no longer serves: every change was announced to it.
InformedAreUpToDate ==
    \A c \in Informed(ent), i \in Indexes :
        ctl.knows[c][i] \in {Absent, ValueAt(ent, ent.config, i)}

\* The last value a SET was granted is what GET serves and, for the kinds that
\* READ_DESCRIPTOR reflects, what the descriptor shows, however full the
\* table is and whatever was refused since.
GrantedIsServed ==
    \A i \in Indexes :
        ctl.acked[i] # Absent =>
            /\ ValueAt(ent, ent.config, i) = ctl.acked[i]
            /\ (kind \in Reflected /\ Exists(ent.config, i)) =>
                   ReadDescriptor(kind, ent.tbl, ent.config, i) = ctl.acked[i]

\* Every deferred command still has its slot, and every slot its work: none
\* is lost between the two and none is answered twice.
DeferredAreHeld ==
    \A i \in Indexes :
        Cardinality({s \in Slots : ent.slots[s].i = i})
            = Cardinality({n \in DOMAIN ent.jobs : ent.jobs[n].i = i})

\* What the entity tells its controllers is true, and what it grants stays.
EntityAgrees ==
    /\ AemTypeOK /\ OwnersAreRight /\ InformedAreUpToDate
    /\ GrantedIsServed /\ DeferredAreHeld

\* While a controller believes it owns the entity no command of another one
\* changes the configuration or a value, the IDENTIFY control apart.
OwnerAloneChanges ==
    [][\A c \in ctl.owns :
          (~wired /\ last' \notin {c, NoController}) =>
              /\ ent'.config = ent.config
              /\ \A i \in Indexes \ (IF kind = "control" THEN {IdentifyIndex} ELSE {}) :
                     ValueAt(ent', ent.config, i) = ValueAt(ent, ent.config, i)]_aemVars
-----------------------------------------------------------------------------
(***************************************************************************)
(* SET_MATRIX and GET_MATRIX (DescriptorStorageHandler).  A grid of width  *)
(* W is a function on cell numbers row * W + column; a region of it is     *)
(* enumerated row by row or column by column, the first offset cells       *)
(* skipped.                                                                *)
(***************************************************************************)
CONSTANTS GridWidth, GridHeight

Cells == 0 .. GridWidth * GridHeight - 1

Size(region) == region.width * region.height

RegionCell_mutWidthForBoth(region, vertical, n) ==
    LET col == region.column + (IF vertical THEN n \div region.width
                                            ELSE n % region.width)
        row == region.row + (IF vertical THEN n % region.width
                                         ELSE n \div region.width)
    IN row * GridWidth + col

\* The n-th cell of the region (for_each_region_cell), n from 0.
RegionCell(region, vertical, n) ==
    LET col == region.column + (IF vertical THEN n \div region.height
                                            ELSE n % region.width)
        row == region.row + (IF vertical THEN n % region.height
                                         ELSE n \div region.width)
    IN row * GridWidth + col

RegionFits(region, offset) ==
    /\ region.width > 0 /\ region.height > 0
    /\ region.column + region.width <= GridWidth
    /\ region.row + region.height <= GridHeight
    /\ offset < Size(region)

Least(a, b) == IF a < b THEN a ELSE b

\* set_matrix: a repeated write fills the region from the values over and
\* over, the other stops when they run out.
SetMatrix(grid, region, vertical, offset, rep, values) ==
    LET left   == Size(region) - offset
        writes == IF rep THEN left ELSE Least(Len(values), left)
        order  == [n \in 0 .. writes - 1 |->
                       RegionCell(region, vertical, offset + n)]
    IN IF ~RegionFits(region, offset) \/ values = <<>>
         THEN [status |-> "BAD_ARGUMENTS", grid |-> grid]
         ELSE [status |-> "SUCCESS",
               grid |-> [c \in Cells |->
                   IF \E n \in DOMAIN order : order[n] = c
                     THEN LET n == CHOOSE n \in DOMAIN order : order[n] = c
                          IN values[(n % Len(values)) + 1]
                     ELSE grid[c]]]

\* get_matrix: the cells asked for, all that remain when none are counted.
GetMatrix(grid, region, vertical, offset, asked) ==
    LET left  == Size(region) - offset
        count == IF asked = 0 THEN left ELSE Least(asked, left)
    IN IF ~RegionFits(region, offset) THEN <<>>
       ELSE [n \in 1 .. count |-> grid[RegionCell(region, vertical, offset + n - 1)]]

-----------------------------------------------------------------------------
VARIABLE matrix   \* the grid, and the write it is about to serve or has served

Regions == [column : 0 .. GridWidth, row : 0 .. GridHeight,
            width : 0 .. GridWidth, height : 0 .. GridHeight]

\* The grid as seeded; a write of the values 1, 2, ..., count.
SeededGrid == [c \in Cells |-> 0]
Written(count) == [n \in 1 .. count |-> n]

MatrixInit ==
    \E region \in Regions, vertical, rep \in BOOLEAN,
       offset \in Cells, count \in 0 .. GridWidth * GridHeight + 1 :
        matrix = [grid |-> SeededGrid, status |-> "asked", region |-> region,
                  vertical |-> vertical, rep |-> rep, offset |-> offset, count |-> count]

MatrixWrite ==
    /\ matrix.status = "asked"
    /\ LET a == SetMatrix(matrix.grid, matrix.region, matrix.vertical, matrix.offset,
                          matrix.rep, Written(matrix.count))
       IN matrix' = [matrix EXCEPT !.grid = a.grid, !.status = a.status]

-----------------------------------------------------------------------------
Column(c) == c % GridWidth
Row(c) == c \div GridWidth

Inside(region) ==
    {c \in Cells : /\ Column(c) >= region.column
                   /\ Column(c) < region.column + region.width
                   /\ Row(c) >= region.row
                   /\ Row(c) < region.row + region.height}

\* How many cells of the region come before c in the direction asked for.
Rank(region, vertical, c) ==
    Cardinality({d \in Inside(region) :
        IF vertical THEN \/ Column(d) < Column(c)
                         \/ Column(d) = Column(c) /\ Row(d) < Row(c)
                    ELSE d < c})

\* A granted write puts into each cell of the region the value its place in
\* the direction calls for, and no other cell changes; a read of the same
\* region, direction and offset gives the values back.
MatrixReadsBack ==
    LET m == matrix IN
    m.status = "SUCCESS" =>
        /\ \A c \in Cells :
              LET n == Rank(m.region, m.vertical, c) IN
              m.grid[c] =
                IF /\ c \in Inside(m.region) /\ n >= m.offset
                   /\ m.rep \/ n - m.offset < m.count
                  THEN ((n - m.offset) % m.count) + 1
                  ELSE 0
        /\ LET back == GetMatrix(m.grid, m.region, m.vertical, m.offset, m.count) IN
           back = [n \in 1 .. Len(back) |-> n]
=============================================================================
