----------------------------- MODULE AemProofs ------------------------------
(***************************************************************************)
(* Proofs about AemEntity: the AEM command handler and its controllers,    *)
(* for every number of controllers, descriptors, configurations and        *)
(* values, and every capacity of the runtime tables, the registrations and *)
(* the deferred commands.                                                  *)
(***************************************************************************)
EXTENDS Integers, AemEntity, TLAPS

\* A leaf goes to the SMT solver, again if its translation ran out of time.
USE SMTT(60), SMTT(50), SMTT(40)

-----------------------------------------------------------------------------
(***************************************************************************)
(* The facts about finite sets and natural numbers that the proofs need.   *)
(* They are a hypothesis of the lemmas below and are proved at the end of  *)
(* the module, from the library of theorems, before the theorems.          *)
(***************************************************************************)
OneToOne(f, S, T) ==
    /\ f \in [S -> T]
    /\ \A m, n \in S : f[m] = f[n] => m = n
    /\ \A m \in T : \E n \in S : f[n] = m

SetFacts ==
    /\ IsFiniteSet({}) /\ Cardinality({}) = 0
    /\ \A S : IsFiniteSet(S) => Cardinality(S) \in Nat
    /\ \A S : IsFiniteSet(S) =>
          \A T \in SUBSET S : IsFiniteSet(T) /\ Cardinality(T) <= Cardinality(S)
    /\ \A S, x : IsFiniteSet(S) =>
          /\ IsFiniteSet(S \cup {x})
          /\ Cardinality(S \cup {x}) = IF x \in S THEN Cardinality(S)
                                                 ELSE Cardinality(S) + 1
    /\ \A S, x : IsFiniteSet(S) =>
          /\ IsFiniteSet(S \ {x})
          /\ Cardinality(S \ {x}) = IF x \in S THEN Cardinality(S) - 1
                                             ELSE Cardinality(S)
    /\ \A S, T, f : IsFiniteSet(S) /\ OneToOne(f, S, T) =>
          Cardinality(T) = Cardinality(S)
    /\ \A a, b \in Int : IsFiniteSet(a .. b)
    /\ \A S \in SUBSET Nat : S # {} => \E n \in S : \A m \in S : n <= m

LEMMA SizeFact ==
    ASSUME SetFacts, NEW S, IsFiniteSet(S)
    PROVE  Cardinality(S) \in Nat
BY ZenonT(30) DEF SetFacts

LEMMA SubsetFact ==
    ASSUME SetFacts, NEW S, IsFiniteSet(S), NEW T \in SUBSET S
    PROVE  IsFiniteSet(T) /\ Cardinality(T) <= Cardinality(S)
BY ZenonT(30) DEF SetFacts

LEMMA AddFact ==
    ASSUME SetFacts, NEW S, NEW x, IsFiniteSet(S)
    PROVE  /\ IsFiniteSet(S \cup {x})
           /\ Cardinality(S \cup {x}) = IF x \in S THEN Cardinality(S)
                                                  ELSE Cardinality(S) + 1
BY ZenonT(30) DEF SetFacts

LEMMA RemoveFact ==
    ASSUME SetFacts, NEW S, NEW x, IsFiniteSet(S)
    PROVE  /\ IsFiniteSet(S \ {x})
           /\ Cardinality(S \ {x}) = IF x \in S THEN Cardinality(S) - 1
                                              ELSE Cardinality(S)
BY ZenonT(30) DEF SetFacts

LEMMA OneToOneFact ==
    ASSUME SetFacts, NEW S, NEW T, NEW f \in [S -> T], IsFiniteSet(S),
           \A m, n \in S : f[m] = f[n] => m = n,
           \A m \in T : \E n \in S : f[n] = m
    PROVE  Cardinality(T) = Cardinality(S)
<1>1. OneToOne(f, S, T)
  BY ZenonT(30) DEF OneToOne
<1> QED BY <1>1, ZenonT(30) DEF SetFacts

LEMMA EmptyFact ==
    ASSUME SetFacts PROVE IsFiniteSet({}) /\ Cardinality({}) = 0
BY DEF SetFacts

LEMMA IntervalFact ==
    ASSUME SetFacts, NEW a \in Int, NEW b \in Int PROVE IsFiniteSet(a .. b)
BY ZenonT(30) DEF SetFacts

LEMMA LeastFact ==
    ASSUME SetFacts, NEW S \in SUBSET Nat, S # {}
    PROVE  \E n \in S : \A m \in S : n <= m
BY ZenonT(30) DEF SetFacts

-----------------------------------------------------------------------------

Values == Choices \cup {Absent}
Someone == Controllers \cup {NoController}
Jobs == [i : Indexes, v : Choices]

Filled(tbl) == {i \in Indexes : tbl[i] # Absent}
SlotsOf(slots, i) == {s \in Slots : slots[s].i = i}
JobsOf(jobs, i) == {n \in DOMAIN jobs : jobs[n].i = i}

Entities ==
    [owner : Someone, persistent : BOOLEAN, lock : Someone,
     pend : [c : Someone, persistent : BOOLEAN], slots : [Slots -> Jobs \cup {NoSlot}],
     regs : SUBSET Controllers, config : Configurations, tbl : Tables, jobs : Seq(Jobs)]

Minds ==
    [owns : SUBSET Controllers, knows : [Controllers -> [Indexes -> Values]],
     acked : [Indexes -> Values]]

\* A value that a controller holds or was granted is the entry of the table
\* itself, and a controller that is not informed holds none: the reason why a
\* value stays right when the table fills up or the configuration changes.
Believed(e, k) ==
    /\ \A c \in Controllers, i \in Indexes :
          k.knows[c][i] # Absent => c \in Informed(e) /\ k.knows[c][i] = e.tbl[i]
    /\ \A i \in Indexes : k.acked[i] # Absent => k.acked[i] = e.tbl[i]

Owned(e, k) == ~wired => e.pend = NoPend /\ k.owns \subseteq {e.owner}

Bounded(e) ==
    /\ Cardinality(Filled(e.tbl)) <= Capacity \/ Deferring
    /\ Cardinality(e.regs) <= MaxRegs

Held(e) ==
    /\ ~Deferring => e.jobs = <<>>
    /\ \A i \in Indexes : Cardinality(SlotsOf(e.slots, i)) = Cardinality(JobsOf(e.jobs, i))

AemIInv ==
    /\ kind \in Kinds /\ wired \in BOOLEAN
    /\ ent \in Entities /\ ctl \in Minds
    /\ Believed(ent, ctl) /\ Owned(ent, ctl) /\ Bounded(ent) /\ Held(ent)

-----------------------------------------------------------------------------
(***************************************************************************)
(* The runtime tables.                                                     *)
(***************************************************************************)
\* What every SET does to a table: only the descriptor's own entry changes, a
\* grant leaves the value in it, a refusal leaves what was in it or creates
\* it, and the table never outgrows its capacity.
Stores(tbl, i, v, a) ==
    /\ a.tbl \in Tables
    /\ \A j \in Indexes \ {i} : a.tbl[j] = tbl[j]
    /\ a.status = "SUCCESS" => a.tbl[i] = v
    /\ a.status # "SUCCESS" => a.tbl[i] = tbl[i] \/ tbl[i] = Absent
    /\ Cardinality(Filled(a.tbl)) <= Capacity

LEMMA FilledFinite ==
    ASSUME SetFacts, NEW tbl
    PROVE  IsFiniteSet(Filled(tbl)) /\ Cardinality(Filled(tbl)) \in Nat
<1>1. Filled(tbl) \in SUBSET Indexes
  BY DEF Filled
<1> QED BY <1>1, AemAssumption, SubsetFact, SizeFact

\* An entry is taken only where there is room.
LEMMA EntryStored ==
    ASSUME SetFacts, NEW tbl \in Tables, NEW i \in Indexes, NEW v \in Choices \cup {Absent, Bare},
           Cardinality(Filled(tbl)) <= Capacity, Room(tbl, i) \/ v = Absent
    PROVE  LET t == [tbl EXCEPT ![i] = v]
           IN  /\ t \in Tables /\ t[i] = v
               /\ \A j \in Indexes \ {i} : t[j] = tbl[j]
               /\ Cardinality(Filled(t)) <= Capacity
<1> DEFINE t == [tbl EXCEPT ![i] = v]
<1>1. t \in Tables /\ t[i] = v /\ \A j \in Indexes \ {i} : t[j] = tbl[j]
  BY DEF Tables
<1> HIDE DEF t
<1>2. /\ IsFiniteSet(Filled(tbl)) /\ Cardinality(Filled(tbl)) \in Nat
      /\ IsFiniteSet(Filled(t)) /\ Cardinality(Filled(t)) \in Nat
  BY FilledFinite
<1>3. Capacity \in Nat
  BY AemAssumption
<1>4. CASE v = Absent \/ i \in Filled(tbl)
  <2>1. Filled(t) \in SUBSET Filled(tbl)
    BY <1>1, <1>4 DEF Filled
  <2>2. Cardinality(Filled(t)) <= Cardinality(Filled(tbl))
    BY <1>2, <2>1, SubsetFact
  <2>3. Cardinality(Filled(t)) <= Capacity
    BY <1>2, <1>3, <2>2
  <2> QED BY <1>1, <2>3 DEF t
<1>5. CASE v # Absent /\ i \notin Filled(tbl)
  <2>1. Filled(t) = Filled(tbl) \cup {i}
    BY <1>1, <1>5 DEF Filled
  <2>2. Cardinality(Filled(t)) = Cardinality(Filled(tbl)) + 1
    BY <1>2, <1>5, <2>1, AddFact
  <2>3. Cardinality(Filled(tbl)) < Capacity
    BY <1>5 DEF Room, Filled
  <2>4. Cardinality(Filled(t)) <= Capacity
    BY <1>2, <1>3, <2>2, <2>3
  <2> QED BY <1>1, <2>4 DEF t
<1> QED BY <1>4, <1>5

\* The lazily created entry: an entry that was there stays as it was.
LEMMA EntryCreated ==
    ASSUME SetFacts, NEW k, NEW tbl \in Tables, NEW g \in Configurations, NEW i \in Indexes,
           Cardinality(Filled(tbl)) <= Capacity
    PROVE  LET t == FindOrInit(k, tbl, g, i)
           IN  /\ t \in Tables
               /\ \A j \in Indexes \ {i} : t[j] = tbl[j]
               /\ t[i] = tbl[i] \/ tbl[i] = Absent
               /\ Cardinality(Filled(t)) <= Capacity
               /\ t[i] # Absent => Room(t, i)
<1>1. CASE tbl[i] = Absent /\ Exists(g, i) /\ Room(tbl, i)
  <2>1. Seed(k, g, i) \in Choices \cup {Absent, Bare}
    BY <1>1, AuthoredAssumption DEF Seed, Exists
  <2>2. FindOrInit(k, tbl, g, i) = [tbl EXCEPT ![i] = Seed(k, g, i)]
    BY <1>1 DEF FindOrInit
  <2> DEFINE t == [tbl EXCEPT ![i] = Seed(k, g, i)]
  <2>3. /\ t \in Tables /\ t[i] = Seed(k, g, i)
        /\ \A j \in Indexes \ {i} : t[j] = tbl[j]
        /\ Cardinality(Filled(t)) <= Capacity
    BY <1>1, <2>1, EntryStored
  <2> HIDE DEF t
  <2>4. t[i] # Absent => Room(t, i)
    BY DEF Room
  <2>5. FindOrInit(k, tbl, g, i) = t
    BY <2>2 DEF t
  <2> QED BY <1>1, <2>3, <2>4, <2>5
<1>2. CASE ~(tbl[i] = Absent /\ Exists(g, i) /\ Room(tbl, i))
  BY <1>2 DEF FindOrInit, Room
<1> QED BY <1>1, <1>2

Hooks == {"SUCCESS", "NOT_SUPPORTED"}

LEMMA AcceptedStores ==
    ASSUME SetFacts, NEW tbl \in Tables, NEW i \in Indexes, NEW v \in Choices, NEW hook \in Hooks,
           Cardinality(Filled(tbl)) <= Capacity
    PROVE  Stores(tbl, i, v, StoreAccepted(tbl, i, v, hook))
<1>1. CASE hook = "SUCCESS" /\ Room(tbl, i)
  <2>1. StoreAccepted(tbl, i, v, hook) = Answer("SUCCESS", [tbl EXCEPT ![i] = v])
    BY <1>1 DEF StoreAccepted
  <2> DEFINE t == [tbl EXCEPT ![i] = v]
  <2>2. /\ t \in Tables /\ t[i] = v /\ \A j \in Indexes \ {i} : t[j] = tbl[j]
        /\ Cardinality(Filled(t)) <= Capacity
    BY <1>1, EntryStored
  <2> HIDE DEF t
  <2>3. StoreAccepted(tbl, i, v, hook) = [status |-> "SUCCESS", tbl |-> t]
    BY <2>1 DEF Answer, t
  <2> QED BY <2>2, <2>3 DEF Stores
<1>2. CASE ~(hook = "SUCCESS" /\ Room(tbl, i))
  BY <1>2 DEF StoreAccepted, Stores, Answer, Hooks
<1> QED BY <1>1, <1>2

LEMMA EarlyStores ==
    ASSUME SetFacts, NEW k, NEW tbl \in Tables, NEW g \in Configurations, NEW i \in Indexes,
           NEW v \in Choices, NEW hook \in Hooks, Cardinality(Filled(tbl)) <= Capacity
    PROVE  Stores(tbl, i, v, StoreEarly(k, tbl, g, i, v, hook))
<1> DEFINE with == FindOrInit(k, tbl, g, i)
<1>1. /\ with \in Tables
      /\ \A j \in Indexes \ {i} : with[j] = tbl[j]
      /\ with[i] = tbl[i] \/ tbl[i] = Absent
      /\ Cardinality(Filled(with)) <= Capacity
      /\ with[i] # Absent => Room(with, i)
  BY EntryCreated
<1>2. StoreEarly(k, tbl, g, i, v, hook) =
        IF with[i] = Absent THEN Answer("NO_SUCH_DESCRIPTOR", tbl)
        ELSE IF hook # "SUCCESS" THEN Answer(hook, with)
        ELSE Answer("SUCCESS", [with EXCEPT ![i] = v])
  BY DEF StoreEarly
<1> HIDE DEF with
<1>3. CASE with[i] # Absent /\ hook = "SUCCESS"
  <2> DEFINE t == [with EXCEPT ![i] = v]
  <2>2. /\ t \in Tables /\ t[i] = v /\ \A j \in Indexes \ {i} : t[j] = with[j]
        /\ Cardinality(Filled(t)) <= Capacity
    BY <1>1, <1>3, EntryStored
  <2> HIDE DEF t
  <2>3. StoreEarly(k, tbl, g, i, v, hook) = [status |-> "SUCCESS", tbl |-> t]
    BY <1>2, <1>3 DEF Answer, t
  <2> QED BY <1>1, <2>2, <2>3 DEF Stores
<1>4. CASE ~(with[i] # Absent /\ hook = "SUCCESS")
  BY <1>1, <1>2, <1>4 DEF Stores, Answer, Hooks
<1> QED BY <1>3, <1>4

\* A refusal that leaves the table alone.
LEMMA RefusalStores ==
    ASSUME NEW tbl \in Tables, NEW i \in Indexes, NEW v, NEW status, status # "SUCCESS",
           Cardinality(Filled(tbl)) <= Capacity
    PROVE  Stores(tbl, i, v, Answer(status, tbl))
BY DEF Stores, Answer

LEMMA OnSetStores ==
    ASSUME SetFacts, NEW k \in Kinds \ {"deferred"}, NEW tbl \in Tables, NEW g \in Configurations,
           NEW i \in Indexes, NEW v \in Values, v \in Choices \/ k = "name",
           NEW short \in BOOLEAN, NEW hook \in Hooks, Cardinality(Filled(tbl)) <= Capacity
    PROVE  Stores(tbl, i, v, OnSet(k, tbl, g, i, v, short, hook))
<1>0. k \in {"selector", "clock", "control", "mixer", "format", "rate", "streaming", "name"}
  BY AemAssumption
<1>1. \A st : st # "SUCCESS" => Stores(tbl, i, v, Answer(st, tbl))
  BY RefusalStores
<1>2. v \in Choices => Stores(tbl, i, v, StoreAccepted(tbl, i, v, hook))
  BY AcceptedStores
<1>3. v \in Choices => Stores(tbl, i, v, StoreEarly(k, tbl, g, i, v, hook))
  BY EarlyStores
<1>4. CASE k = "selector"
  BY <1>1, <1>2, <1>4 DEF OnSet, SetSignalSelector
<1>5. CASE k = "clock"
  BY <1>1, <1>2, <1>5 DEF OnSet, SetClockSource
<1>6. CASE k = "control"
  BY <1>1, <1>2, <1>6 DEF OnSet, SetControl
<1>7. CASE k = "mixer"
  <2> DEFINE with == FindOrInit("mixer", tbl, g, i)
  <2>1. /\ with \in Tables
        /\ \A j \in Indexes \ {i} : with[j] = tbl[j]
        /\ with[i] = tbl[i] \/ tbl[i] = Absent
        /\ Cardinality(Filled(with)) <= Capacity
    BY EntryCreated
  <2>2. OnSet(k, tbl, g, i, v, short, hook) =
          IF short /\ with[i] # Absent THEN Answer("BAD_ARGUMENTS", with)
          ELSE StoreEarly("mixer", tbl, g, i, v, hook)
    BY <1>7 DEF OnSet, SetMixer
  <2> HIDE DEF with
  <2>3. Stores(tbl, i, v, Answer("BAD_ARGUMENTS", with))
    BY <2>1 DEF Stores, Answer
  <2> QED BY <1>3, <1>7, <2>2, <2>3
<1>8. CASE k = "format"
  BY <1>1, <1>3, <1>8 DEF OnSet, SetStreamFormat
<1>9. CASE k = "rate"
  BY <1>1, <1>2, <1>9 DEF OnSet, SetSamplingRate
<1>10. CASE k = "streaming"
  BY <1>3, <1>10 DEF OnSet, SetStreaming
<1>11. CASE k = "name"
  <2>1. Stores(tbl, i, Absent, Answer("SUCCESS", [tbl EXCEPT ![i] = Absent]))
    <3> DEFINE t == [tbl EXCEPT ![i] = Absent]
    <3>1. /\ t \in Tables /\ t[i] = Absent /\ \A j \in Indexes \ {i} : t[j] = tbl[j]
          /\ Cardinality(Filled(t)) <= Capacity
      BY EntryStored
    <3> HIDE DEF t
    <3>2. Stores(tbl, i, Absent, Answer("SUCCESS", t))
      BY <3>1 DEF Stores, Answer
    <3> QED BY <3>2 DEF t
  <2>2. v \in Choices => Stores(tbl, i, v, StoreAccepted(tbl, i, v, "SUCCESS"))
    BY AcceptedStores DEF Hooks
  <2>3. OnSet(k, tbl, g, i, v, short, hook) = ApplyObjectName(tbl, g, i, v, short)
    BY <1>11 DEF OnSet
  <2> QED BY <1>1, <2>1, <2>2, <2>3 DEF ApplyObjectName, Values
<1> QED BY <1>0, <1>4, <1>5, <1>6, <1>7, <1>8, <1>9, <1>10, <1>11

-----------------------------------------------------------------------------
(***************************************************************************)
(* The deferred commands.                                                  *)
(***************************************************************************)
LEMMA LeastSlot ==
    ASSUME SetFacts, NEW S \in SUBSET Slots, S # {}
    PROVE  LET s == CHOOSE s \in S : \A t \in S : s <= t
           IN  s \in S /\ \A t \in S : s <= t
<1>1. Slots \subseteq Nat
  BY AemAssumption DEF Slots
<1>2. PICK x \in S : \A y \in S : x <= y
  BY <1>1, LeastFact
<1> QED BY <1>2

LEMMA HeldFinite ==
    ASSUME SetFacts, NEW slots, NEW jobs \in Seq(Jobs), NEW i
    PROVE  /\ IsFiniteSet(SlotsOf(slots, i)) /\ IsFiniteSet(JobsOf(jobs, i))
           /\ Cardinality(SlotsOf(slots, i)) \in Nat
           /\ Cardinality(JobsOf(jobs, i)) \in Nat
<1>1. IsFiniteSet(Slots)
  BY AemAssumption, IntervalFact DEF Slots
<1>2. IsFiniteSet(DOMAIN jobs)
  <2>1. DOMAIN jobs = 1 .. Len(jobs) /\ Len(jobs) \in Int
    OBVIOUS
  <2> QED BY <2>1, IntervalFact
<1>3. SlotsOf(slots, i) \in SUBSET Slots /\ JobsOf(jobs, i) \in SUBSET DOMAIN jobs
  BY DEF SlotsOf, JobsOf
<1> QED BY <1>1, <1>2, <1>3, SubsetFact, SizeFact

\* A command is deferred: its slot and its work appear together.
LEMMA DeferHeld ==
    ASSUME SetFacts, NEW e \in Entities, Deferring, Held(e), NEW i \in Indexes, NEW v \in Choices
    PROVE  LET d == Defer(e, i, v)
           IN  /\ d \in Entities /\ Held(d)
               /\ d.owner = e.owner /\ d.regs = e.regs /\ d.tbl = e.tbl
               /\ d.pend = e.pend
<1> DEFINE free == {s \in Slots : e.slots[s] = NoSlot}
           s == CHOOSE s \in free : \A t \in free : s <= t
           job == [i |-> i, v |-> v]
           slots == [e.slots EXCEPT ![s] = job]
           jobs == Append(e.jobs, job)
<1>1. CASE free = {}
  BY <1>1 DEF Defer
<1>2. CASE free # {}
  <2>1. s \in free
    BY <1>2, LeastSlot, ZenonT(30)
  <2>2. /\ e.slots \in [Slots -> Jobs \cup {NoSlot}] /\ e.jobs \in Seq(Jobs)
        /\ job \in Jobs /\ job.i = i
    BY DEF Entities, Jobs
  <2>3. Defer(e, i, v) = [e EXCEPT !.slots = slots, !.jobs = jobs]
    BY <1>2 DEF Defer
  <2>4. s \in Slots /\ e.slots[s] = NoSlot
    BY <2>1
  <2> HIDE DEF s, free, job
  <2>5. /\ slots \in [Slots -> Jobs \cup {NoSlot}] /\ slots[s] = job
        /\ \A t \in Slots \ {s} : slots[t] = e.slots[t]
    BY <2>2, <2>4
  <2>6. /\ jobs \in Seq(Jobs) /\ Len(jobs) = Len(e.jobs) + 1 /\ Len(e.jobs) \in Nat
        /\ \A n \in 1 .. Len(e.jobs) : jobs[n] = e.jobs[n]
        /\ jobs[Len(e.jobs) + 1] = job
        /\ DOMAIN jobs = 1 .. (Len(e.jobs) + 1) /\ DOMAIN e.jobs = 1 .. Len(e.jobs)
    BY <2>2
  <2> HIDE DEF slots, jobs
  <2>7. ASSUME NEW j \in Indexes
        PROVE  Cardinality(SlotsOf(slots, j)) = Cardinality(JobsOf(jobs, j))
    <3>0. NoSlot.i # j
      BY AemAssumption DEF NoSlot
    <3>1. Cardinality(SlotsOf(e.slots, j)) = Cardinality(JobsOf(e.jobs, j))
      BY DEF Held
    <3>2. IsFiniteSet(SlotsOf(e.slots, j)) /\ IsFiniteSet(JobsOf(e.jobs, j))
      BY <2>2, HeldFinite, ZenonT(30)
    <3>3. s \notin SlotsOf(e.slots, j) /\ Len(e.jobs) + 1 \notin JobsOf(e.jobs, j)
      <4>1. s \notin SlotsOf(e.slots, j)
        BY <2>4, <3>0 DEF SlotsOf
      <4>2. Len(e.jobs) + 1 \notin 1 .. Len(e.jobs)
        BY <2>6
      <4> QED BY <2>6, <4>1, <4>2 DEF JobsOf
    <3>4. CASE j = i
      <4>1. SlotsOf(slots, j) = SlotsOf(e.slots, j) \cup {s}
        BY <2>2, <2>4, <2>5, <3>4 DEF SlotsOf
      <4>2. JobsOf(jobs, j) = JobsOf(e.jobs, j) \cup {Len(e.jobs) + 1}
        BY <2>2, <2>6, <3>4 DEF JobsOf
      <4>3. /\ Cardinality(SlotsOf(slots, j)) = Cardinality(SlotsOf(e.slots, j)) + 1
            /\ Cardinality(JobsOf(jobs, j)) = Cardinality(JobsOf(e.jobs, j)) + 1
        BY <3>2, <3>3, <4>1, <4>2, AddFact, ZenonT(30)
      <4> QED BY <3>1, <4>3
    <3>5. CASE j # i
      <4>1. SlotsOf(slots, j) = SlotsOf(e.slots, j)
        BY <2>2, <2>4, <2>5, <3>0, <3>5 DEF SlotsOf
      <4>2. JobsOf(jobs, j) = JobsOf(e.jobs, j)
        BY <2>2, <2>6, <3>5 DEF JobsOf
      <4> QED BY <3>1, <4>1, <4>2
    <3> QED BY <3>4, <3>5
  <2>8. /\ Defer(e, i, v) \in Entities
        /\ Defer(e, i, v).slots = slots /\ Defer(e, i, v).jobs = jobs
        /\ Defer(e, i, v).owner = e.owner /\ Defer(e, i, v).regs = e.regs
        /\ Defer(e, i, v).tbl = e.tbl /\ Defer(e, i, v).pend = e.pend
    BY <2>3, <2>5, <2>6, ZenonT(30) DEF Entities
  <2> QED BY <2>7, <2>8 DEF Held
<1> QED BY <1>1, <1>2

\* The work at the head is finished and the first slot that names its
\* descriptor answered: they disappear together.
Queue(slots, jobs) ==
    /\ slots \in [Slots -> Jobs \cup {NoSlot}] /\ jobs \in Seq(Jobs)
    /\ \A i \in Indexes : Cardinality(SlotsOf(slots, i)) = Cardinality(JobsOf(jobs, i))

Freed(slots, s) == [slots EXCEPT ![s] = NoSlot]
Rest(jobs) == Tail(jobs)

LEMMA CompleteHeld ==
    ASSUME SetFacts, NEW slots, NEW jobs, Queue(slots, jobs), jobs # <<>>,
           NEW s \in SlotsOf(slots, Head(jobs).i)
    PROVE  Head(jobs) \in Jobs /\ Queue(Freed(slots, s), Rest(jobs))
<1> DEFINE left == Freed(slots, s)
           rest == Rest(jobs)
           N == Len(jobs)
<1>0. /\ slots \in [Slots -> Jobs \cup {NoSlot}] /\ jobs \in Seq(Jobs)
      /\ \A i \in Indexes : Cardinality(SlotsOf(slots, i)) = Cardinality(JobsOf(jobs, i))
  BY DEF Queue
<1>1. /\ N \in Nat /\ N > 0 /\ DOMAIN jobs = 1 .. N
      /\ Head(jobs) = jobs[1] /\ Head(jobs) \in Jobs
      /\ rest \in Seq(Jobs) /\ DOMAIN rest = 1 .. (N - 1)
  BY <1>0 DEF Rest
<1>2. \A n \in 1 .. (N - 1) : rest[n] = jobs[n + 1]
  BY <1>0 DEF Rest
<1>3. s \in Slots /\ slots[s].i = Head(jobs).i
  BY DEF SlotsOf
<1>4. /\ left \in [Slots -> Jobs \cup {NoSlot}] /\ left[s] = NoSlot
      /\ \A t \in Slots \ {s} : left[t] = slots[t]
  BY <1>0, <1>3 DEF Freed
<1> HIDE DEF N, rest, left
<1>5. ASSUME NEW j \in Indexes
      PROVE  Cardinality(SlotsOf(left, j)) = Cardinality(JobsOf(rest, j))
  <2>0. NoSlot.i # j
    BY AemAssumption DEF NoSlot
  <2>1. /\ Cardinality(SlotsOf(slots, j)) = Cardinality(JobsOf(jobs, j))
        /\ IsFiniteSet(SlotsOf(slots, j)) /\ IsFiniteSet(JobsOf(jobs, j))
        /\ IsFiniteSet(JobsOf(rest, j))
    BY <1>0, <1>1, HeldFinite
  <2>2. SlotsOf(left, j) = SlotsOf(slots, j) \ {s}
    BY <1>3, <1>4, <2>0 DEF SlotsOf
  <2>3. Cardinality(SlotsOf(left, j)) =
          IF s \in SlotsOf(slots, j) THEN Cardinality(SlotsOf(slots, j)) - 1
          ELSE Cardinality(SlotsOf(slots, j))
    BY <2>1, <2>2, RemoveFact, ZenonT(30)
  <2>4. Cardinality(JobsOf(jobs, j) \ {1}) =
          IF 1 \in JobsOf(jobs, j) THEN Cardinality(JobsOf(jobs, j)) - 1
          ELSE Cardinality(JobsOf(jobs, j))
    BY <2>1, RemoveFact, ZenonT(30)
  <2>5. s \in SlotsOf(slots, j) <=> 1 \in JobsOf(jobs, j)
    BY <1>1, <1>3 DEF SlotsOf, JobsOf
  <2>6. Cardinality(JobsOf(rest, j)) = Cardinality(JobsOf(jobs, j) \ {1})
    <3> DEFINE f == [n \in JobsOf(rest, j) |-> n + 1]
    <3>1. \A n \in JobsOf(rest, j) : n \in Nat /\ n + 1 \in JobsOf(jobs, j) \ {1}
      BY <1>1, <1>2 DEF JobsOf
    <3>2. ASSUME NEW m \in JobsOf(jobs, j) \ {1}
          PROVE  m - 1 \in JobsOf(rest, j) /\ m = (m - 1) + 1
      <4>1. m \in 2 .. N /\ m - 1 \in 1 .. (N - 1) /\ m = (m - 1) + 1
        BY <1>1 DEF JobsOf
      <4>2. rest[m - 1] = jobs[m]
        BY <1>1, <1>2, <4>1
      <4> QED BY <1>1, <4>1, <4>2 DEF JobsOf
    <3>3. f \in [JobsOf(rest, j) -> JobsOf(jobs, j) \ {1}]
      BY <3>1
    <3>4. \A m, n \in JobsOf(rest, j) : f[m] = f[n] => m = n
      BY <3>1
    <3>5. \A m \in JobsOf(jobs, j) \ {1} : \E n \in JobsOf(rest, j) : f[n] = m
      BY <3>2
    <3> HIDE DEF f
    <3> QED BY <2>1, <3>3, <3>4, <3>5, OneToOneFact
  <2> QED BY <2>1, <2>3, <2>4, <2>5, <2>6
<1> QED BY <1>1, <1>4, <1>5 DEF Queue, left, rest

-----------------------------------------------------------------------------
(***************************************************************************)
(* What the controllers are told.                                          *)
(***************************************************************************)
\* A value is announced, or granted without being announced again.
Told(k, e, i, v) == [TellValue(k, e, i, v) EXCEPT !.acked[i] = v]

Heard(k, e, i, v) ==
    [c \in Controllers |->
        IF c \in Informed(e) THEN [k.knows[c] EXCEPT ![i] = v] ELSE k.knows[c]]

Granted(k, i, v) == [k.acked EXCEPT ![i] = v]

LEMMA ToldFields ==
    ASSUME NEW k \in Minds, NEW e \in Entities, NEW i \in Indexes, NEW v \in Values
    PROVE  /\ Told(k, e, i, v) \in Minds /\ Told(k, e, i, v).owns = k.owns
           /\ Told(k, e, i, v).acked = Granted(k, i, v)
           /\ Told(k, e, i, v).knows = Heard(k, e, i, v)
<1>1. k = [owns |-> k.owns, knows |-> k.knows, acked |-> k.acked]
  BY DEF Minds
<1>2. k.owns \in SUBSET Controllers /\ k.knows \in [Controllers -> [Indexes -> Values]]
      /\ k.acked \in [Indexes -> Values]
  BY DEF Minds
<1>3. /\ Heard(k, e, i, v) \in [Controllers -> [Indexes -> Values]]
      /\ Granted(k, i, v) \in [Indexes -> Values]
  BY <1>2 DEF Heard, Granted
<1>4. TellValue(k, e, i, v) = [owns |-> k.owns, knows |-> Heard(k, e, i, v), acked |-> k.acked]
  <2>1. TellValue(k, e, i, v) = [k EXCEPT !.knows = Heard(k, e, i, v)]
    BY DEF TellValue, Heard
  <2> QED BY <1>1, <2>1
<1>5. Told(k, e, i, v)
        = [owns |-> k.owns, knows |-> Heard(k, e, i, v), acked |-> Granted(k, i, v)]
  BY <1>4 DEF Told, Granted
<1> QED BY <1>2, <1>3, <1>5 DEF Minds

\* A table changed in one entry and everyone informed was told.
LEMMA BelievedAfterSet ==
    ASSUME NEW k \in Minds, NEW e \in Entities, Believed(e, k), NEW i \in Indexes,
           NEW v \in Values, NEW e2, Informed(e2) = Informed(e),
           \A j \in Indexes \ {i} : e2.tbl[j] = e.tbl[j], e2.tbl[i] = v
    PROVE  Believed(e2, Told(k, e, i, v))
<1> DEFINE t == Told(k, e, i, v)
<1>1. /\ t.acked = [k.acked EXCEPT ![i] = v]
      /\ \A c \in Controllers : t.knows[c] =
            IF c \in Informed(e) THEN [k.knows[c] EXCEPT ![i] = v] ELSE k.knows[c]
  <2>1. t.acked = Granted(k, i, v) /\ t.knows = Heard(k, e, i, v)
    BY ToldFields
  <2> HIDE DEF t
  <2> QED BY <2>1 DEF Heard, Granted
<1>2. k.acked \in [Indexes -> Values] /\ \A c \in Controllers : k.knows[c] \in [Indexes -> Values]
  BY DEF Minds
<1> HIDE DEF t
<1>3. ASSUME NEW c \in Controllers, NEW j \in Indexes, t.knows[c][j] # Absent
      PROVE  c \in Informed(e2) /\ t.knows[c][j] = e2.tbl[j]
  <2>1. CASE c \in Informed(e)
    <3>1. t.knows[c] = [k.knows[c] EXCEPT ![i] = v] /\ k.knows[c] \in [Indexes -> Values]
      BY <1>1, <1>2, <2>1
    <3>2. CASE j = i
      BY <2>1, <3>1, <3>2
    <3>3. CASE j # i
      BY <1>3, <2>1, <3>1, <3>3 DEF Believed
    <3> QED BY <3>2, <3>3
  <2>2. CASE c \notin Informed(e)
    <3>1. t.knows[c] = k.knows[c]
      BY <1>1, <2>2, ZenonT(30)
    <3> QED BY <1>3, <2>2, <3>1 DEF Believed
  <2> QED BY <2>1, <2>2
<1>4. \A j \in Indexes : t.acked[j] # Absent => t.acked[j] = e2.tbl[j]
  BY <1>1, <1>2 DEF Believed
<1>5. Believed(e2, t)
  BY <1>3, <1>4 DEF Believed
<1> QED BY <1>5 DEF t

\* Forgetting, and announcing the owner, take nothing from what is true.
LEMMA ForgetFields ==
    ASSUME NEW k \in Minds, NEW cs
    PROVE  LET t == Forget(k, cs)
           IN  /\ t \in Minds /\ t.owns = k.owns /\ t.acked = k.acked
               /\ \A c \in Controllers :
                     t.knows[c] = IF c \in cs THEN Unknown ELSE k.knows[c]
<1> DEFINE kn == [c \in Controllers |-> IF c \in cs THEN Unknown ELSE k.knows[c]]
<1>1. /\ k = [owns |-> k.owns, knows |-> k.knows, acked |-> k.acked]
      /\ k.owns \in SUBSET Controllers /\ k.knows \in [Controllers -> [Indexes -> Values]]
      /\ k.acked \in [Indexes -> Values]
  BY DEF Minds
<1>2. Unknown \in [Indexes -> Values]
  BY DEF Unknown, Values
<1>3. kn \in [Controllers -> [Indexes -> Values]]
  BY <1>1, <1>2
<1>4. Forget(k, cs) = [owns |-> k.owns, knows |-> kn, acked |-> k.acked]
  BY <1>1 DEF Forget
<1> HIDE DEF kn
<1>5. [owns |-> k.owns, knows |-> kn, acked |-> k.acked] \in Minds
  BY <1>1, <1>3 DEF Minds
<1> QED BY <1>4, <1>5 DEF kn

LEMMA TellOwnerFields ==
    ASSUME NEW k \in Minds, NEW e \in Entities
    PROVE  LET t == TellOwner(k, e)
           IN  /\ t \in Minds /\ t.knows = k.knows /\ t.acked = k.acked
               /\ t.owns = (k.owns \ Informed(e)) \cup ({e.owner} \ {NoController})
<1>1. /\ k = [owns |-> k.owns, knows |-> k.knows, acked |-> k.acked]
      /\ k.owns \in SUBSET Controllers /\ k.knows \in [Controllers -> [Indexes -> Values]]
      /\ k.acked \in [Indexes -> Values]
  BY DEF Minds
<1> DEFINE o == (k.owns \ Informed(e)) \cup ({e.owner} \ {NoController})
<1>2. o \in SUBSET Controllers
  BY <1>1 DEF Entities, Someone
<1>3. TellOwner(k, e) = [owns |-> o, knows |-> k.knows, acked |-> k.acked]
  <2>1. TellOwner(k, e) = [k EXCEPT !.owns = o]
    BY DEF TellOwner
  <2> HIDE DEF o
  <2> QED BY <1>1, <2>1
<1> HIDE DEF o
<1>4. [owns |-> o, knows |-> k.knows, acked |-> k.acked] \in Minds
  BY <1>1, <1>2 DEF Minds
<1> QED BY <1>3, <1>4 DEF o

\* Beliefs survive when the table is kept and whoever is no longer informed
\* has forgotten.
LEMMA BelievedAfterForget ==
    ASSUME NEW k \in Minds, NEW e \in Entities, NEW e2 \in Entities, Believed(e, k),
           e2.tbl = e.tbl, NEW cs, Uninformed(e2) \subseteq cs
    PROVE  Believed(e2, Forget(k, cs))
<1> DEFINE t == Forget(k, cs)
<1>1. /\ t.acked = k.acked
      /\ \A c \in Controllers : t.knows[c] = IF c \in cs THEN Unknown ELSE k.knows[c]
  BY ForgetFields
<1> HIDE DEF t
<1>2. ASSUME NEW c \in Controllers, NEW j \in Indexes, t.knows[c][j] # Absent
      PROVE  c \in Informed(e2) /\ t.knows[c][j] = e2.tbl[j]
  <2>1. c \notin cs
    BY <1>1, <1>2 DEF Unknown
  <2>2. t.knows[c] = k.knows[c]
    BY <1>1, <2>1
  <2> QED BY <1>2, <2>1, <2>2 DEF Believed, Uninformed
<1>3. Believed(e2, t)
  BY <1>1, <1>2 DEF Believed
<1> QED BY <1>3 DEF t

LEMMA InitInv == SetFacts /\ AemInit => AemIInv
<1> SUFFICES ASSUME SetFacts, AemInit PROVE AemIInv
  OBVIOUS
<1>1. kind \in Kinds /\ wired \in BOOLEAN
  BY AemAssumption, ZenonT(30) DEF AemInit
<1>2. EmptyTable \in Tables /\ Filled(EmptyTable) = {}
  BY DEF EmptyTable, Tables, Filled
<1>3. ent = [owner |-> NoController, persistent |-> FALSE, lock |-> NoController,
             pend |-> NoPend, slots |-> [s \in Slots |-> NoSlot], regs |-> {},
             config |-> 0, tbl |-> EmptyTable, jobs |-> <<>>]
  BY DEF AemInit
<1>4. ent \in Entities
  <2>1. <<>> \in Seq(Jobs)
    OBVIOUS
  <2>2. NoPend \in [c : Someone, persistent : BOOLEAN]
    BY DEF NoPend, Someone
  <2>3. [s \in Slots |-> NoSlot] \in [Slots -> Jobs \cup {NoSlot}]
    OBVIOUS
  <2> QED BY <1>2, <1>3, <2>1, <2>2, <2>3, AemAssumption DEF Entities, Someone
<1>5. ctl = [owns |-> {}, knows |-> [c \in Controllers |-> Unknown], acked |-> Unknown]
  BY DEF AemInit
<1>6. ctl \in Minds
  BY <1>5 DEF Minds, Unknown, Values
<1>7. Believed(ent, ctl) /\ Owned(ent, ctl)
  BY <1>3, <1>5 DEF Believed, Owned, Unknown
<1>8. Bounded(ent)
  <2>1. ent.tbl = EmptyTable /\ ent.regs = {}
    BY <1>3
  <2>2. Cardinality({}) = 0 /\ Capacity \in Nat /\ MaxRegs \in Nat
    BY EmptyFact, AemAssumption
  <2> QED BY <1>2, <2>1, <2>2 DEF Bounded
<1>9. Held(ent)
  <2>1. ent.jobs = <<>> /\ ent.slots = [s \in Slots |-> NoSlot]
    BY <1>3
  <2>2. \A i \in Indexes : JobsOf(ent.jobs, i) = {}
    BY <2>1 DEF JobsOf
  <2>3. \A i \in Indexes : SlotsOf(ent.slots, i) = {}
    BY <2>1, AemAssumption DEF SlotsOf, NoSlot
  <2> QED BY <2>1, <2>2, <2>3, ZenonT(30) DEF Held
<1> QED BY <1>1, <1>4, <1>6, <1>7, <1>8, <1>9 DEF AemIInv

-----------------------------------------------------------------------------
(***************************************************************************)
(* The steps that keep the table and the deferred commands.                *)
(***************************************************************************)
LEMMA BelievedMore ==
    ASSUME NEW e, NEW k, NEW e2, NEW k2, Believed(e, k),
           k2.knows = k.knows, k2.acked = k.acked, e2.tbl = e.tbl,
           Informed(e) \subseteq Informed(e2)
    PROVE  Believed(e2, k2)
BY DEF Believed

LEMMA QuietStep ==
    ASSUME AemIInv, kind' = kind, wired' = wired, ent' \in Entities, ctl' \in Minds,
           ent'.tbl = ent.tbl, ent'.slots = ent.slots, ent'.jobs = ent.jobs,
           Cardinality(ent'.regs) <= MaxRegs, Believed(ent', ctl'),
           ~wired => ent'.pend = NoPend /\ ctl'.owns \subseteq {ent'.owner}
    PROVE  AemIInv'
<1>1. Bounded(ent)' /\ Held(ent)'
  BY DEF AemIInv, Bounded, Held, Deferring
<1>2. Owned(ent, ctl)'
  BY DEF Owned
<1> QED BY <1>1, <1>2 DEF AemIInv

LEMMA Fields ==
    ASSUME AemIInv
    PROVE  /\ ent \in Entities /\ ctl \in Minds /\ Believed(ent, ctl)
           /\ Cardinality(ent.regs) <= MaxRegs
           /\ ~wired => ent.pend = NoPend /\ ctl.owns \subseteq {ent.owner}
           /\ ctl.owns \subseteq Controllers
BY DEF AemIInv, Bounded, Owned, Minds

\* A new owner or a new waiting request.
LEMMA OwnFields ==
    ASSUME NEW e \in Entities, NEW c \in Someone, NEW p \in BOOLEAN
    PROVE  LET t == Own(e, c, p)
           IN  /\ t \in Entities /\ t.owner = c /\ t.lock = e.lock /\ t.pend = e.pend
               /\ t.slots = e.slots /\ t.regs = e.regs /\ t.config = e.config
               /\ t.tbl = e.tbl /\ t.jobs = e.jobs
BY ZenonT(30) DEF Own, Entities

LEMMA AcquireInv ==
    ASSUME AemIInv, NEW c \in Controllers, NEW p \in BOOLEAN, Acquire(c, p)
    PROVE  AemIInv'
<1>0. kind' = kind /\ wired' = wired
  BY DEF Acquire
<1>1. CASE ent.owner = NoController /\ ent' = Own(ent, c, p) /\ ctl' = TellOwner(ctl, ent')
  <2>1. /\ ent' \in Entities /\ ent'.owner = c /\ ent'.pend = ent.pend
        /\ ent'.slots = ent.slots /\ ent'.regs = ent.regs
        /\ ent'.tbl = ent.tbl /\ ent'.jobs = ent.jobs
    BY <1>1, Fields, OwnFields DEF Someone
  <2>2. /\ ctl' \in Minds /\ ctl'.knows = ctl.knows /\ ctl'.acked = ctl.acked
        /\ ctl'.owns = (ctl.owns \ Informed(ent')) \cup ({ent'.owner} \ {NoController})
    BY <1>1, <2>1, Fields, TellOwnerFields
  <2>3. Informed(ent) \subseteq Informed(ent')
    BY <1>1, <2>1 DEF Informed
  <2>4. Believed(ent', ctl')
    BY <2>1, <2>2, <2>3, Fields, BelievedMore
  <2>5. ~wired => ctl'.owns \subseteq {ent'.owner}
    BY <1>1, <2>1, <2>2, Fields, AemAssumption
  <2> QED BY <1>0, <2>1, <2>2, <2>4, <2>5, Fields, QuietStep, ZenonT(30)
<1>2. CASE ent.owner = c /\ ent' = ent /\ ctl' = TellOwner(ctl, ent)
  <2>1. /\ ctl' \in Minds /\ ctl'.knows = ctl.knows /\ ctl'.acked = ctl.acked
        /\ ctl'.owns = (ctl.owns \ Informed(ent)) \cup ({ent.owner} \ {NoController})
    BY <1>2, Fields, TellOwnerFields
  <2>2. Believed(ent', ctl')
    BY <1>2, <2>1, Fields, BelievedMore
  <2>3. ~wired => ctl'.owns \subseteq {ent'.owner}
    BY <1>2, <2>1, Fields
  <2> QED BY <1>0, <1>2, <2>1, <2>2, <2>3, Fields, QuietStep
<1>3. CASE /\ ent.owner \notin {c, NoController}
           /\ IF wired /\ ~ent.persistent
                THEN ent' = [ent EXCEPT !.pend = [c |-> c, persistent |-> p]]
                ELSE ent' = ent
           /\ ctl' = ctl
  <2>1. /\ ent' \in Entities /\ ent'.owner = ent.owner /\ ent'.regs = ent.regs
        /\ ent'.slots = ent.slots /\ ent'.tbl = ent.tbl /\ ent'.jobs = ent.jobs
        /\ ~wired => ent'.pend = ent.pend
    BY <1>3, Fields DEF Entities, Someone
  <2>2. Believed(ent', ctl')
    BY <1>3, <2>1, Fields, BelievedMore DEF Informed
  <2> QED BY <1>0, <1>3, <2>1, <2>2, Fields, QuietStep
<1> QED BY <1>1, <1>2, <1>3 DEF Acquire

LEMMA ReleaseInv ==
    ASSUME AemIInv, NEW c \in Controllers, Release(c)
    PROVE  AemIInv'
<1>0. kind' = kind /\ wired' = wired
  BY DEF Release
<1>1. CASE ent.owner = c
  <2> DEFINE t == TellOwner(ctl, ent')
             u == Forget(t, Uninformed(ent'))
  <2>0. ent' = Own(ent, NoController, FALSE) /\ ctl' = [u EXCEPT !.owns = @ \ {c}]
    BY <1>1, ZenonT(30) DEF Release
  <2>1. /\ ent' \in Entities /\ ent'.owner = NoController /\ ent'.pend = ent.pend
        /\ ent'.slots = ent.slots /\ ent'.regs = ent.regs
        /\ ent'.tbl = ent.tbl /\ ent'.jobs = ent.jobs
    BY <2>0, Fields, OwnFields, ZenonT(30) DEF Someone
  <2>2. /\ t \in Minds /\ t.knows = ctl.knows /\ t.acked = ctl.acked
        /\ t.owns = (ctl.owns \ Informed(ent')) \cup ({ent'.owner} \ {NoController})
    BY <2>1, Fields, TellOwnerFields
  <2>3. Believed(ent, t)
    BY <2>2, Fields DEF Believed
  <2> HIDE DEF t
  <2>4. u \in Minds /\ u.owns = t.owns
    BY <2>2, ForgetFields
  <2>5. Believed(ent', u)
    BY <2>1, <2>2, <2>3, Fields, BelievedAfterForget
  <2> HIDE DEF u
  <2>6. /\ ctl' \in Minds /\ ctl'.knows = u.knows /\ ctl'.acked = u.acked
        /\ ctl'.owns = u.owns \ {c}
    BY <2>0, <2>4 DEF Minds
  <2>7. Believed(ent', ctl')
    BY <2>5, <2>6 DEF Believed
  <2>8. ~wired => ctl'.owns \subseteq {ent'.owner}
    BY <1>1, <2>1, <2>2, <2>4, <2>6, Fields
  <2> QED BY <1>0, <2>1, <2>6, <2>7, <2>8, Fields, QuietStep
<1>2. CASE ent.owner # c
  <2>1. ent' = ent /\ ctl' = ctl
    BY <1>2 DEF Release
  <2> QED BY <1>0, <2>1, Fields, QuietStep
<1> QED BY <1>1, <1>2

LEMMA LockInv ==
    ASSUME AemIInv, NEW c \in Controllers, NEW u \in BOOLEAN, Lock(c, u)
    PROVE  AemIInv'
<1>0. kind' = kind /\ wired' = wired /\ ctl' = ctl
  BY DEF Lock
<1>1. /\ ent' \in Entities /\ ent'.owner = ent.owner /\ ent'.regs = ent.regs
      /\ ent'.slots = ent.slots /\ ent'.tbl = ent.tbl /\ ent'.jobs = ent.jobs
      /\ ent'.pend = ent.pend
  BY Fields DEF Lock, Entities, Someone
<1>2. Believed(ent', ctl')
  BY <1>0, <1>1, Fields, BelievedMore DEF Informed
<1> QED BY <1>0, <1>1, <1>2, Fields, QuietStep

LEMMA RegisterInv ==
    ASSUME SetFacts, AemIInv, NEW c \in Controllers, RegisterUnsolicited(c)
    PROVE  AemIInv'
<1> DEFINE r == IF Cardinality(ent.regs) < MaxRegs THEN ent.regs \cup {c} ELSE ent.regs
<1>0. kind' = kind /\ wired' = wired /\ ctl' = ctl
      /\ ent' = [ent EXCEPT !.regs = r]
  BY DEF RegisterUnsolicited
<1>1. /\ ent.regs \subseteq Controllers /\ IsFiniteSet(ent.regs)
      /\ Cardinality(ent.regs) \in Nat /\ MaxRegs \in Nat
      /\ Cardinality(ent.regs) <= MaxRegs
  <2>1. ent.regs \in SUBSET Controllers
    BY Fields DEF Entities
  <2> QED BY <2>1, Fields, AemAssumption, SubsetFact, SizeFact
<1>2. Cardinality(r) <= MaxRegs /\ r \in SUBSET Controllers
  <2>1. Cardinality(ent.regs \cup {c}) <= Cardinality(ent.regs) + 1
    BY <1>1, AddFact
  <2>2. IsFiniteSet(ent.regs \cup {c})
    BY <1>1, AddFact
  <2>3. Cardinality(ent.regs \cup {c}) \in Nat
    BY <2>2, SizeFact
  <2> QED BY <1>1, <2>1, <2>3
<1>3. ent.regs \subseteq r
  OBVIOUS
<1> HIDE DEF r
<1>4. /\ ent' \in Entities /\ ent'.owner = ent.owner /\ ent'.regs = r
      /\ ent'.slots = ent.slots /\ ent'.tbl = ent.tbl /\ ent'.jobs = ent.jobs
      /\ ent'.pend = ent.pend
  BY <1>0, <1>2, Fields DEF Entities
<1>5. Believed(ent', ctl')
  <2>1. Informed(ent) \subseteq Informed(ent')
    BY <1>3, <1>4 DEF Informed
  <2> QED BY <1>0, <1>4, <2>1, Fields, BelievedMore, ZenonT(30)
<1> QED BY <1>0, <1>2, <1>4, <1>5, Fields, QuietStep

LEMMA DeregisterInv ==
    ASSUME SetFacts, AemIInv, NEW c \in Controllers, DeregisterUnsolicited(c)
    PROVE  AemIInv'
<1>0. /\ kind' = kind /\ wired' = wired
      /\ ent' = [ent EXCEPT !.regs = ent.regs \ {c}]
      /\ ctl' = Forget(ctl, Uninformed(ent'))
  BY DEF DeregisterUnsolicited
<1>1. /\ ent' \in Entities /\ ent'.owner = ent.owner /\ ent'.regs = ent.regs \ {c}
      /\ ent'.slots = ent.slots /\ ent'.tbl = ent.tbl /\ ent'.jobs = ent.jobs
      /\ ent'.pend = ent.pend
  BY <1>0, Fields, ZenonT(30) DEF Entities
<1>2. Cardinality(ent'.regs) <= MaxRegs
  <2>1. ent.regs \in SUBSET Controllers
    BY Fields DEF Entities
  <2>2. IsFiniteSet(ent.regs) /\ ent'.regs \in SUBSET ent.regs
    BY <1>1, <2>1, AemAssumption, SubsetFact
  <2>3. Cardinality(ent'.regs) <= Cardinality(ent.regs)
    BY <2>2, SubsetFact
  <2>4. Cardinality(ent'.regs) \in Nat /\ Cardinality(ent.regs) \in Nat
    BY <2>2, SubsetFact, SizeFact
  <2> QED BY <2>3, <2>4, Fields, AemAssumption
<1>3. ctl' \in Minds /\ ctl'.owns = ctl.owns
  BY <1>0, Fields, ForgetFields
<1>4. Believed(ent', ctl')
  BY <1>0, <1>1, Fields, BelievedAfterForget, ZenonT(30)
<1> QED BY <1>0, <1>1, <1>2, <1>3, <1>4, Fields, QuietStep

LEMMA SetConfigurationInv ==
    ASSUME AemIInv, NEW c \in Controllers, NEW g, NEW h, SetConfiguration(c, g, h)
    PROVE  AemIInv'
<1>0. kind' = kind /\ wired' = wired
  BY DEF SetConfiguration
<1>1. CASE /\ g \in Configurations /\ ent' = [ent EXCEPT !.config = g]
           /\ ctl' = Forget(ctl, Controllers)
  <2>1. /\ ent' \in Entities /\ ent'.owner = ent.owner /\ ent'.regs = ent.regs
        /\ ent'.slots = ent.slots /\ ent'.tbl = ent.tbl /\ ent'.jobs = ent.jobs
        /\ ent'.pend = ent.pend
    BY <1>1, Fields DEF Entities
  <2>2. ctl' \in Minds /\ ctl'.owns = ctl.owns
    BY <1>1, Fields, ForgetFields
  <2>3. Believed(ent', ctl')
    BY <1>1, <2>1, Fields, BelievedAfterForget, ZenonT(30) DEF Uninformed
  <2> QED BY <1>0, <2>1, <2>2, <2>3, Fields, QuietStep
<1>2. CASE ent' = ent /\ ctl' = ctl
  BY <1>0, <1>2, Fields, QuietStep
<1> QED BY <1>1, <1>2 DEF SetConfiguration

LEMMA OwnerAvailableInv ==
    ASSUME AemIInv, OwnerAvailable
    PROVE  AemIInv'
<1>0. kind' = kind /\ wired' = wired /\ ctl' = ctl
  BY DEF OwnerAvailable
<1>1. NoPend \in [c : Someone, persistent : BOOLEAN]
  BY DEF NoPend, Someone
<1>2. /\ ent' \in Entities /\ ent'.owner = ent.owner /\ ent'.regs = ent.regs
      /\ ent'.slots = ent.slots /\ ent'.tbl = ent.tbl /\ ent'.jobs = ent.jobs
      /\ ent'.pend = NoPend
  BY <1>1, Fields DEF OwnerAvailable, Entities
<1>3. Believed(ent', ctl')
  BY <1>0, <1>2, Fields, BelievedMore DEF Informed
<1> QED BY <1>0, <1>2, <1>3, Fields, QuietStep

LEMMA TickInv ==
    ASSUME AemIInv, NEW l \in BOOLEAN, NEW p \in BOOLEAN, AemTick(l, p)
    PROVE  AemIInv'
<1> DEFINE e == IF l THEN [ent EXCEPT !.lock = NoController] ELSE ent
<1>0. kind' = kind /\ wired' = wired
  BY DEF AemTick
<1>1. /\ e \in Entities /\ e.owner = ent.owner /\ e.regs = ent.regs
      /\ e.slots = ent.slots /\ e.tbl = ent.tbl /\ e.jobs = ent.jobs
      /\ e.pend = ent.pend
  BY Fields, ZenonT(30) DEF Entities, Someone
<1>2. Believed(e, ctl)
  BY <1>1, Fields, BelievedMore, ZenonT(30) DEF Informed
<1>3. CASE ~p
  <2>1. ent' = e /\ ctl' = ctl
    BY <1>3 DEF AemTick
  <2> HIDE DEF e
  <2> QED BY <1>0, <1>1, <1>2, <2>1, Fields, QuietStep
<1>4. CASE p
  <2> DEFINE o == Own(e, e.pend.c, e.pend.persistent)
             t == [o EXCEPT !.pend = NoPend]
             k == TellOwner(ctl, t)
  <2>1. ent' = t /\ ctl' = Forget(k, Uninformed(t)) /\ ent.pend # NoPend
    BY <1>4 DEF AemTick, TimedOut
  <2> HIDE DEF e
  <2>2. /\ o \in Entities /\ o.slots = e.slots /\ o.regs = e.regs
        /\ o.tbl = e.tbl /\ o.jobs = e.jobs
    <3>1. e.pend.c \in Someone /\ e.pend.persistent \in BOOLEAN
      BY <1>1 DEF Entities
    <3> QED BY <1>1, <3>1, OwnFields
  <2> HIDE DEF o
  <2>3. /\ t \in Entities /\ t.slots = e.slots /\ t.regs = e.regs
        /\ t.tbl = e.tbl /\ t.jobs = e.jobs /\ t.pend = NoPend
    <3>1. NoPend \in [c : Someone, persistent : BOOLEAN]
      BY DEF NoPend, Someone
    <3> QED BY <2>2, <3>1, ZenonT(30) DEF Entities
  <2> HIDE DEF t
  <2>4. k \in Minds /\ k.knows = ctl.knows /\ k.acked = ctl.acked
    BY <2>3, Fields, TellOwnerFields
  <2> HIDE DEF k
  <2>5. Believed(e, k)
    BY <1>2, <2>4 DEF Believed
  <2>6. ctl' \in Minds /\ Believed(ent', ctl')
    BY <1>1, <2>1, <2>3, <2>4, <2>5, ForgetFields, BelievedAfterForget, ZenonT(30)
  <2>7. wired
    BY <2>1, Fields DEF AemIInv
  <2> QED BY <1>0, <1>1, <2>1, <2>3, <2>6, <2>7, Fields, QuietStep
<1> QED BY <1>3, <1>4

-----------------------------------------------------------------------------
(***************************************************************************)
(* The steps that change a value.                                          *)
(***************************************************************************)
\* An entry changed that no one knew of.
LEMMA BelievedAfterRefusal ==
    ASSUME NEW k, NEW e, NEW e2, Believed(e, k), Informed(e2) = Informed(e),
           NEW i \in Indexes, \A j \in Indexes \ {i} : e2.tbl[j] = e.tbl[j],
           e2.tbl[i] = e.tbl[i] \/ e.tbl[i] = Absent
    PROVE  Believed(e2, k)
BY DEF Believed

\* The table and nothing else.
LEMMA TableFields ==
    ASSUME NEW e \in Entities, NEW t \in Tables
    PROVE  LET u == [e EXCEPT !.tbl = t]
           IN  /\ u \in Entities /\ u.tbl = t /\ u.owner = e.owner /\ u.regs = e.regs
               /\ u.pend = e.pend /\ u.slots = e.slots /\ u.jobs = e.jobs
               /\ u.config = e.config /\ Informed(u) = Informed(e)
BY DEF Entities, Informed

LEMMA LoudStep ==
    ASSUME AemIInv, kind' = kind, wired' = wired, ent' \in Entities, ctl' \in Minds,
           ent'.slots = ent.slots, ent'.jobs = ent.jobs, ent'.regs = ent.regs,
           ent'.pend = ent.pend, ent'.owner = ent.owner, ctl'.owns = ctl.owns,
           Cardinality(Filled(ent'.tbl)) <= Capacity, Believed(ent', ctl')
    PROVE  AemIInv'
<1>1. Bounded(ent)' /\ Held(ent)'
  BY DEF AemIInv, Bounded, Held, Deferring
<1>2. Owned(ent, ctl)'
  BY DEF AemIInv, Owned
<1> QED BY <1>1, <1>2 DEF AemIInv

\* A SET that the handler answers at once; only entry i may change.
LEMMA AppliedInv ==
    ASSUME SetFacts, AemIInv, ~Deferring, kind' = kind, wired' = wired,
           NEW g \in Configurations, NEW i \in Indexes, NEW v \in Values,
           v \in Choices \/ kind = "name", NEW short \in BOOLEAN, NEW hook \in Hooks,
           Applied(g, i, v, short, hook)
    PROVE  /\ AemIInv' /\ ent'.config = ent.config
           /\ \A j \in Indexes \ {i} : ent'.tbl[j] = ent.tbl[j]
<1> DEFINE a == OnSet(kind, ent.tbl, g, i, v, short, hook)
<1>0. /\ ent' = [ent EXCEPT !.tbl = a.tbl]
      /\ ctl' = IF a.status = "SUCCESS" THEN Told(ctl, ent, i, v) ELSE ctl
  BY DEF Applied, Told
<1>1. /\ ent \in Entities /\ ctl \in Minds /\ Believed(ent, ctl) /\ ent.tbl \in Tables
      /\ Cardinality(Filled(ent.tbl)) <= Capacity /\ kind \in Kinds \ {"deferred"}
  BY Fields, ZenonT(30) DEF AemIInv, Bounded, Deferring, Entities
<1>2. Stores(ent.tbl, i, v, a)
  BY <1>1, OnSetStores
<1> HIDE DEF a
<1>3. /\ a.tbl \in Tables
      /\ \A j \in Indexes \ {i} : a.tbl[j] = ent.tbl[j]
      /\ a.status = "SUCCESS" => a.tbl[i] = v
      /\ a.status # "SUCCESS" => a.tbl[i] = ent.tbl[i] \/ ent.tbl[i] = Absent
      /\ Cardinality(Filled(a.tbl)) <= Capacity
  BY <1>2 DEF Stores
<1>4. /\ ent' \in Entities /\ ent'.tbl = a.tbl /\ ent'.owner = ent.owner
      /\ ent'.regs = ent.regs /\ ent'.pend = ent.pend /\ ent'.slots = ent.slots
      /\ ent'.jobs = ent.jobs /\ ent'.config = ent.config
      /\ Informed(ent') = Informed(ent)
  BY <1>0, <1>1, <1>3, TableFields
<1>5. CASE a.status = "SUCCESS"
  <2>1. ctl' = Told(ctl, ent, i, v)
    BY <1>0, <1>5
  <2>2. ctl' \in Minds /\ ctl'.owns = ctl.owns
    BY <1>1, <2>1, ToldFields, ZenonT(30)
  <2>3. Believed(ent', ctl')
    BY <1>1, <1>3, <1>4, <1>5, <2>1, BelievedAfterSet
  <2> QED BY <1>3, <1>4, <2>2, <2>3, LoudStep, ZenonT(30)
<1>6. CASE a.status # "SUCCESS"
  <2>1. ctl' = ctl
    BY <1>0, <1>6
  <2>2. Believed(ent', ctl')
    BY <1>1, <1>3, <1>4, <1>6, <2>1, BelievedAfterRefusal
  <2> QED BY <1>1, <1>3, <1>4, <2>1, <2>2, LoudStep, ZenonT(30)
<1> QED BY <1>5, <1>6

LEMMA StandStill ==
    ASSUME AemIInv, kind' = kind, wired' = wired, ent' = ent, ctl' = ctl
    PROVE  AemIInv'
BY Fields, QuietStep

LEMMA SetValueInv ==
    ASSUME SetFacts, AemIInv, NEW c \in Controllers, NEW i \in Indexes, NEW v \in Values,
           v \in Choices \/ kind = "name", NEW short \in BOOLEAN, NEW h \in Hooks,
           SetValue(c, i, v, short, h)
    PROVE  AemIInv'
<1>0. kind' = kind /\ wired' = wired
  BY DEF SetValue
<1>1. CASE CheckExclusiveAccess(ent, c) # "SUCCESS"
  BY <1>0, <1>1, StandStill DEF SetValue
<1>2. CASE CheckExclusiveAccess(ent, c) = "SUCCESS" /\ Deferring
  <2>1. ent' = Defer(ent, i, v) /\ ctl' = ctl /\ v \in Choices
    BY <1>2, ZenonT(30) DEF SetValue, Deferring
  <2>2. /\ ent' \in Entities /\ Held(ent') /\ ent'.owner = ent.owner
        /\ ent'.regs = ent.regs /\ ent'.tbl = ent.tbl /\ ent'.pend = ent.pend
    BY <1>2, <2>1, Fields, DeferHeld, ZenonT(30) DEF AemIInv
  <2>3. Believed(ent', ctl')
    BY <2>1, <2>2, Fields, BelievedMore, ZenonT(30) DEF Informed
  <2>4. Owned(ent, ctl)' /\ Bounded(ent)'
    BY <1>0, <2>1, <2>2 DEF AemIInv, Owned, Bounded, Deferring
  <2>5. Held(ent)'
    BY <1>0, <2>2 DEF Held, Deferring
  <2> QED BY <1>0, <2>1, <2>2, <2>3, <2>4, <2>5 DEF AemIInv
<1>3. CASE CheckExclusiveAccess(ent, c) = "SUCCESS" /\ ~Deferring
  <2>1. Applied(ent.config, i, v, short, h) /\ ent.config \in Configurations
    BY <1>3, Fields DEF SetValue, Entities
  <2> QED BY <1>0, <1>3, <2>1, AppliedInv
<1> QED BY <1>1, <1>2, <1>3

LEMMA IdentifyInv ==
    ASSUME SetFacts, AemIInv, kind = "control", NEW g \in Configurations, NEW v \in Choices,
           Applied(g, IdentifyIndex, v, FALSE, "SUCCESS"), kind' = kind, wired' = wired
    PROVE  /\ AemIInv' /\ ent'.config = ent.config
           /\ \A j \in Indexes \ {IdentifyIndex} : ent'.tbl[j] = ent.tbl[j]
BY AppliedInv, AemAssumption, ZenonT(30) DEF Deferring, Values, Hooks

LEMMA GetValueInv ==
    ASSUME SetFacts, AemIInv, NEW i \in Indexes, GetValue(i)
    PROVE  AemIInv'
<1> DEFINE t == FindOrInit("mixer", ent.tbl, ent.config, i)
<1>0. /\ kind' = kind /\ wired' = wired /\ ctl' = ctl /\ kind = "mixer"
      /\ ent' = [ent EXCEPT !.tbl = t]
  BY DEF GetValue
<1>1. /\ ent \in Entities /\ ctl \in Minds /\ Believed(ent, ctl) /\ ent.tbl \in Tables
      /\ ent.config \in Configurations /\ Cardinality(Filled(ent.tbl)) <= Capacity
  BY <1>0, Fields DEF AemIInv, Bounded, Deferring, Entities
<1>2. /\ t \in Tables
      /\ \A j \in Indexes \ {i} : t[j] = ent.tbl[j]
      /\ t[i] = ent.tbl[i] \/ ent.tbl[i] = Absent
      /\ Cardinality(Filled(t)) <= Capacity
  BY <1>1, EntryCreated
<1> HIDE DEF t
<1>3. /\ ent' \in Entities /\ ent'.tbl = t /\ ent'.owner = ent.owner
      /\ ent'.regs = ent.regs /\ ent'.pend = ent.pend /\ ent'.slots = ent.slots
      /\ ent'.jobs = ent.jobs /\ Informed(ent') = Informed(ent)
  BY <1>0, <1>1, <1>2, TableFields
<1>4. Believed(ent', ctl')
  <2>1. /\ \A j \in Indexes \ {i} : ent'.tbl[j] = ent.tbl[j]
        /\ ent'.tbl[i] = ent.tbl[i] \/ ent.tbl[i] = Absent
    BY <1>2, <1>3
  <2>2. Believed(ent', ctl)
    BY <1>1, <1>3, <2>1, BelievedAfterRefusal
  <2> QED BY <1>0, <2>2
<1> QED BY <1>0, <1>1, <1>2, <1>3, <1>4, LoudStep

LEMMA CompletePendingInv ==
    ASSUME SetFacts, AemIInv, NEW ok \in BOOLEAN, CompletePending(ok)
    PROVE  AemIInv'
<1> DEFINE job  == Head(ent.jobs)
           held == {s \in Slots : ent.slots[s].i = job.i}
           s    == CHOOSE s \in held : \A t \in held : s <= t
           left == Freed(ent.slots, s)
           rest == Rest(ent.jobs)
           tbl  == [ent.tbl EXCEPT ![job.i] = IF ok THEN job.v ELSE @]
<1>0. /\ kind' = kind /\ wired' = wired /\ ent.jobs # <<>> /\ held # {}
      /\ ent' = [ent EXCEPT !.slots = left, !.jobs = rest, !.tbl = tbl]
      /\ ctl' = IF ok THEN Told(ctl, ent, job.i, job.v) ELSE ctl
  BY ZenonT(30) DEF CompletePending, Told, Freed, Rest
<1>1. /\ ent \in Entities /\ ctl \in Minds /\ Believed(ent, ctl) /\ Held(ent)
      /\ ent.slots \in [Slots -> Jobs \cup {NoSlot}] /\ ent.jobs \in Seq(Jobs)
      /\ ent.tbl \in Tables
  BY Fields DEF AemIInv, Entities
<1>2. Deferring
  BY <1>0, <1>1 DEF Held
<1>3. s \in held
  BY <1>0, LeastSlot, ZenonT(30)
<1>4. s \in SlotsOf(ent.slots, Head(ent.jobs).i)
  BY <1>3, ZenonT(30) DEF SlotsOf
<1> HIDE DEF s
<1>5. /\ job \in Jobs /\ left \in [Slots -> Jobs \cup {NoSlot}] /\ rest \in Seq(Jobs)
      /\ \A i \in Indexes : Cardinality(SlotsOf(left, i)) = Cardinality(JobsOf(rest, i))
  <2>1. Queue(ent.slots, ent.jobs) /\ ent.jobs # <<>>
    BY <1>0, <1>1 DEF Held, Queue
  <2>2. Head(ent.jobs) \in Jobs /\ Queue(Freed(ent.slots, s), Rest(ent.jobs))
    BY <1>4, <2>1, CompleteHeld
  <2> QED BY <2>2 DEF Queue
<1> HIDE DEF left, rest, job
<1>6. job.i \in Indexes /\ job.v \in Choices /\ job.v \in Values
  BY <1>5 DEF Jobs, Values
<1>7. /\ tbl \in Tables /\ \A j \in Indexes \ {job.i} : tbl[j] = ent.tbl[j]
      /\ tbl[job.i] = IF ok THEN job.v ELSE ent.tbl[job.i]
  BY <1>1, <1>6 DEF Tables
<1> HIDE DEF tbl
<1>8. /\ ent' \in Entities /\ ent'.slots = left /\ ent'.jobs = rest /\ ent'.tbl = tbl
      /\ ent'.regs = ent.regs /\ ent'.owner = ent.owner /\ ent'.pend = ent.pend
  BY <1>0, <1>1, <1>5, <1>7, ZenonT(30) DEF Entities
<1>9. Informed(ent') = Informed(ent)
  BY <1>8 DEF Informed
<1>10. ctl' \in Minds /\ ctl'.owns = ctl.owns /\ Believed(ent', ctl')
  <2>1. CASE ok
    <3>1. ctl' = Told(ctl, ent, job.i, job.v)
      BY <1>0, <2>1
    <3>2. ctl' \in Minds /\ ctl'.owns = ctl.owns
      BY <1>1, <1>6, <3>1, ToldFields
    <3>3. /\ \A j \in Indexes \ {job.i} : ent'.tbl[j] = ent.tbl[j]
          /\ ent'.tbl[job.i] = job.v
      BY <1>7, <1>8, <2>1
    <3>4. Believed(ent', Told(ctl, ent, job.i, job.v))
      BY <1>1, <1>6, <1>9, <3>3, BelievedAfterSet
    <3> QED BY <3>1, <3>2, <3>4
  <2>2. CASE ~ok
    <3>1. /\ \A j \in Indexes \ {job.i} : ent'.tbl[j] = ent.tbl[j]
          /\ ent'.tbl[job.i] = ent.tbl[job.i]
      BY <1>7, <1>8, <2>2
    <3>2. Believed(ent', ctl)
      BY <1>1, <1>6, <1>9, <3>1, BelievedAfterRefusal
    <3> QED BY <1>0, <1>1, <2>2, <3>2
  <2> QED BY <2>1, <2>2
<1>11. Bounded(ent)' /\ Owned(ent, ctl)'
  BY <1>0, <1>2, <1>8, <1>10 DEF AemIInv, Bounded, Owned, Deferring
<1>12. Held(ent)'
  BY <1>0, <1>2, <1>5, <1>8 DEF Held, Deferring
<1> QED BY <1>0, <1>8, <1>10, <1>11, <1>12 DEF AemIInv

-----------------------------------------------------------------------------
(***************************************************************************)
(* The theorems.                                                           *)
(***************************************************************************)
LEMMA StepInv ==
    ASSUME SetFacts, AemIInv, [AemNext]_aemVars
    PROVE  AemIInv'
<1>1. ASSUME NEW c \in Controllers, NEW p \in Persistence, Acquire(c, p) PROVE AemIInv'
  <2>1. p \in BOOLEAN
    BY ZenonT(30) DEF Persistence
  <2> QED BY <1>1, <2>1, AcquireInv
<1>2. ASSUME NEW c \in Controllers, Release(c) PROVE AemIInv'
  BY <1>2, ReleaseInv
<1>3. ASSUME NEW c \in Controllers, NEW u \in BOOLEAN, Lock(c, u) PROVE AemIInv'
  BY <1>3, LockInv
<1>4. ASSUME NEW c \in Controllers, RegisterUnsolicited(c) \/ DeregisterUnsolicited(c)
      PROVE  AemIInv'
  BY <1>4, RegisterInv, DeregisterInv
<1>5. ASSUME NEW c \in Controllers, NEW g, NEW h, SetConfiguration(c, g, h) PROVE AemIInv'
  BY <1>5, SetConfigurationInv
<1>6. ASSUME NEW c \in Controllers, NEW i \in Indexes,
             NEW v \in Choices \cup (IF kind = "name" THEN {Absent} ELSE {}),
             NEW short \in BOOLEAN, NEW h \in {"SUCCESS", "NOT_SUPPORTED"},
             SetValue(c, i, v, short, h)
      PROVE  AemIInv'
  <2>1. v \in Values /\ (v \in Choices \/ kind = "name")
    BY DEF Values
  <2> QED BY <1>6, <2>1, SetValueInv DEF Hooks
<1>7. ASSUME NEW c \in Controllers, NEW v \in Choices, SetIdentify(c, v) PROVE AemIInv'
  <2>1. ent.config \in Configurations
    BY Fields DEF Entities
  <2> QED BY <1>7, <2>1, IdentifyInv, ZenonT(30) DEF SetIdentify
<1>8. ASSUME NEW v \in Choices, SetLocalIdentify(v) PROVE AemIInv'
  BY <1>8, IdentifyInv, AemAssumption, ZenonT(30) DEF SetLocalIdentify
<1>9. ASSUME NEW i \in Indexes, GetValue(i) PROVE AemIInv'
  BY <1>9, GetValueInv
<1>10. ASSUME NEW ok \in BOOLEAN, CompletePending(ok) PROVE AemIInv'
  BY <1>10, CompletePendingInv
<1>11. ASSUME OwnerAvailable PROVE AemIInv'
  BY <1>11, OwnerAvailableInv
<1>12. ASSUME NEW l \in BOOLEAN, NEW p \in BOOLEAN, AemTick(l, p) PROVE AemIInv'
  BY <1>12, TickInv
<1>13. ASSUME UNCHANGED aemVars PROVE AemIInv'
  BY <1>13, StandStill DEF aemVars
<1> QED BY <1>1, <1>2, <1>3, <1>4, <1>5, <1>6, <1>7, <1>8, <1>9, <1>10, <1>11, <1>12, <1>13
        DEF AemNext

\* What the invariant says of the values that are served.
LEMMA ServedValues ==
    ASSUME AemIInv, NEW i \in Indexes, ent.tbl[i] \in Choices
    PROVE  /\ ValueAt(ent, ent.config, i) = ent.tbl[i]
           /\ kind \in Reflected /\ Exists(ent.config, i) =>
                  ReadDescriptor(kind, ent.tbl, ent.config, i) = ent.tbl[i]
<1>1. ent.tbl[i] # Absent
  BY AemAssumption
<1> QED BY <1>1 DEF ValueAt, GetMixer, FindOrInit, Served, ReadDescriptor

LEMMA InvAgrees ==
    ASSUME AemIInv
    PROVE  EntityAgrees
<1>0. ctl.knows \in [Controllers -> [Indexes -> Values]] /\ ctl.acked \in [Indexes -> Values]
  BY Fields DEF Minds
<1>1. AemTypeOK
  BY DEF AemIInv, AemTypeOK, Entities, Someone, Bounded, Filled
<1>2. OwnersAreRight
  BY DEF AemIInv, Owned, OwnersAreRight
<1>3. InformedAreUpToDate
  <2> SUFFICES ASSUME NEW c \in Informed(ent), NEW i \in Indexes, ctl.knows[c][i] # Absent
               PROVE  ctl.knows[c][i] = ValueAt(ent, ent.config, i)
    BY DEF InformedAreUpToDate
  <2>1. c \in Controllers
    BY Fields DEF Informed, Entities, Someone
  <2>2. ctl.knows[c][i] = ent.tbl[i] /\ ctl.knows[c][i] \in Choices
    BY <1>0, <2>1, Fields DEF Believed, Values
  <2> QED BY <2>2, ServedValues
<1>4. GrantedIsServed
  <2> SUFFICES ASSUME NEW i \in Indexes, ctl.acked[i] # Absent
               PROVE  /\ ValueAt(ent, ent.config, i) = ctl.acked[i]
                      /\ (kind \in Reflected /\ Exists(ent.config, i)) =>
                             ReadDescriptor(kind, ent.tbl, ent.config, i) = ctl.acked[i]
    BY DEF GrantedIsServed
  <2>1. ctl.acked[i] = ent.tbl[i] /\ ctl.acked[i] \in Choices
    BY <1>0, Fields DEF Believed, Values
  <2> QED BY <2>1, ServedValues
<1>5. DeferredAreHeld
  BY DEF AemIInv, Held, DeferredAreHeld, SlotsOf, JobsOf
<1> QED BY <1>1, <1>2, <1>3, <1>4, <1>5 DEF EntityAgrees

\* A step by another controller than the owner.
LEMMA IntruderFails ==
    ASSUME SetFacts, AemIInv, [AemNext]_aemVars, NEW c \in ctl.owns, ~wired,
           last' \notin {c, NoController}, ~UNCHANGED aemVars
    PROVE  /\ ent'.config = ent.config
           /\ \A i \in Indexes \ (IF kind = "control" THEN {IdentifyIndex} ELSE {}) :
                 ValueAt(ent', ent.config, i) = ValueAt(ent, ent.config, i)
<1> DEFINE Goal == /\ ent'.config = ent.config
                   /\ \A i \in Indexes \ (IF kind = "control" THEN {IdentifyIndex} ELSE {}) :
                         ValueAt(ent', ent.config, i) = ValueAt(ent, ent.config, i)
<1>0. c \in Controllers /\ ent.owner = c /\ c # NoController
  BY Fields, AemAssumption
<1>1. ASSUME NEW d, d # c PROVE CheckExclusiveAccess(ent, d) # "SUCCESS"
  BY <1>0, <1>1 DEF CheckExclusiveAccess
<1>2. ASSUME ent' = ent PROVE Goal
  BY <1>2
<1>3. ASSUME NEW d \in Controllers, NEW g, NEW h, SetConfiguration(d, g, h) PROVE Goal
  <2>1. last' = d
    BY <1>3 DEF SetConfiguration
  <2>2. ent' = ent
    BY <1>1, <1>3, <2>1 DEF SetConfiguration
  <2> QED BY <1>2, <2>2
<1>4. ASSUME NEW d \in Controllers, NEW i, NEW v, NEW short, NEW h, SetValue(d, i, v, short, h)
      PROVE  Goal
  <2>1. last' = d
    BY <1>4 DEF SetValue
  <2>2. ent' = ent
    BY <1>1, <1>4, <2>1 DEF SetValue
  <2> QED BY <1>2, <2>2
<1>5. ASSUME NEW d \in Controllers, NEW v \in Choices, SetIdentify(d, v) PROVE Goal
  <2>1. kind = "control" /\ kind' = kind /\ wired' = wired
    BY <1>5 DEF SetIdentify
  <2>2. /\ ent'.config = ent.config
        /\ \A j \in Indexes \ {IdentifyIndex} : ent'.tbl[j] = ent.tbl[j]
    BY <1>5, <2>1, Fields, IdentifyInv, ZenonT(30) DEF SetIdentify, Entities
  <2>3. \A j \in Indexes \ {IdentifyIndex} :
           ValueAt(ent', ent.config, j) = ValueAt(ent, ent.config, j)
    BY <2>1, <2>2 DEF ValueAt, Served
  <2> QED BY <2>1, <2>2, <2>3
<1>6. ASSUME last' = NoController PROVE Goal
  BY <1>6
<1> HIDE DEF Goal
<1>7. Goal
  BY <1>3, <1>4, <1>5, <1>6, ZenonT(30)
     DEF AemNext, Acquire, Release, Lock, RegisterUnsolicited, DeregisterUnsolicited,
         SetLocalIdentify, GetValue, CompletePending, OwnerAvailable, AemTick
<1> QED BY <1>7 DEF Goal

-----------------------------------------------------------------------------
(***************************************************************************)
(* The facts assumed so far, from the library.                             *)
(***************************************************************************)
INSTANCE FiniteSetTheorems

\* A set of natural numbers that is not empty has a least element.
LEMMA LeastExists ==
    ASSUME NEW S \in SUBSET Nat, S # {}
    PROVE  \E n \in S : \A m \in S : n <= m
<1> DEFINE R == {ss \in Nat \X Nat : ss[1] < ss[2]}
<1>1. IsWellFoundedOn(R, Nat)
  BY NatLessThanWellFounded DEF OpToRel
<1> HIDE DEF R
<1>2. PICK n \in S : \A m \in S : ~(<<m, n>> \in R)
  BY <1>1, WFMin, ZenonT(30)
<1>3. ASSUME NEW a \in Nat, NEW b \in Nat, a < b PROVE <<a, b>> \in R
  BY <1>3 DEF R
<1>4. \A m \in S : m \in Nat /\ n \in Nat /\ ~(m < n)
  BY <1>2, <1>3, ZenonT(30)
<1> QED BY <1>4

LEMMA SetFactsHold == SetFacts
<1>1. \A S : IsFiniteSet(S) => Cardinality(S) \in Nat
  BY FS_CardinalityType, ZenonT(30)
<1>2. \A S : IsFiniteSet(S) =>
        \A T \in SUBSET S : IsFiniteSet(T) /\ Cardinality(T) <= Cardinality(S)
  BY FS_Subset, ZenonT(30)
<1>3. \A S, x : IsFiniteSet(S) =>
        /\ IsFiniteSet(S \cup {x})
        /\ Cardinality(S \cup {x}) = IF x \in S THEN Cardinality(S)
                                               ELSE Cardinality(S) + 1
  BY FS_AddElement, ZenonT(30)
<1>4. \A a, b \in Int : IsFiniteSet(a .. b)
  BY FS_Interval, ZenonT(30)
<1>5. \A S \in SUBSET Nat : S # {} => \E n \in S : \A m \in S : n <= m
  BY LeastExists, ZenonT(30)
<1>6. \A S, x : IsFiniteSet(S) =>
        /\ IsFiniteSet(S \ {x})
        /\ Cardinality(S \ {x}) = IF x \in S THEN Cardinality(S) - 1
                                           ELSE Cardinality(S)
  BY FS_RemoveElement, ZenonT(30)
<1>7. ASSUME NEW S, NEW T, NEW f, IsFiniteSet(S), OneToOne(f, S, T)
      PROVE  Cardinality(T) = Cardinality(S)
  <2>1. f \in Bijection(S, T)
    BY <1>7 DEF OneToOne, Bijection, Injection, Surjection, IsInjective
  <2>2. ExistsBijection(S, T)
    BY <2>1, ZenonT(30) DEF ExistsBijection
  <2> QED BY <1>7, <2>2, FS_Bijection
<1> QED BY <1>1, <1>2, <1>3, <1>4, <1>5, <1>6, <1>7, FS_EmptySet, ZenonT(30) DEF SetFacts

\* What an entity tells its controllers is true and what it grants stays:
\* ownership, the values announced by emit_unsolicited and granted by
\* handle_set_descriptor_value, and the deferred commands of defer_command.
THEOREM EntityCorrect == AemSpec => []EntityAgrees
<1>1. AemInit => AemIInv
  BY InitInv, SetFactsHold
<1>2. AemIInv /\ [AemNext]_aemVars => AemIInv'
  BY StepInv, SetFactsHold
<1>3. AemIInv => EntityAgrees
  BY InvAgrees
<1> QED BY <1>1, <1>2, <1>3, PTL DEF AemSpec

\* While a controller believes it owns the entity no command of another one
\* changes the configuration or a value, the IDENTIFY control apart
\* (check_exclusive_access).
THEOREM OwnerRules == AemSpec => OwnerAloneChanges
<1>1. AemInit => AemIInv
  BY InitInv, SetFactsHold
<1>2. AemIInv /\ [AemNext]_aemVars => AemIInv'
  BY StepInv, SetFactsHold
<1>3. AemIInv /\ [AemNext]_aemVars =>
        [\A c \in ctl.owns :
            (~wired /\ last' \notin {c, NoController}) =>
                /\ ent'.config = ent.config
                /\ \A i \in Indexes \ (IF kind = "control" THEN {IdentifyIndex} ELSE {}) :
                       ValueAt(ent', ent.config, i) = ValueAt(ent, ent.config, i)]_aemVars
  BY IntruderFails, SetFactsHold
<1> QED BY <1>1, <1>2, <1>3, PTL DEF AemSpec, OwnerAloneChanges

=============================================================================
