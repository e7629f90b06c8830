-------------------------- MODULE DescriptorService --------------------------
(***************************************************************************)
(* READ_DESCRIPTOR, from the .aem blob of an entity to the controller: the *)
(* blob's table of contents and symbols, the structure each descriptor is  *)
(* loaded into, the clamping of its array's count, the response buffer and *)
(* the rewriting for controllers of the 2016 standard.                     *)
(*                                                                         *)
(* An octet of a descriptor is known by where in the authored descriptor   *)
(* it comes from; Zero stands for the zeros a short blob is padded with.   *)
(***************************************************************************)
EXTENDS AemFormats

CONSTANTS
  DsMaxEntries    \* descriptors in one blob

VARIABLES
  dsToc,       \* what the designer put into the blob, in order
  dsHave,      \* octets of the blob file the entity got, or 0: none yet
  dsLegacy,    \* legacy_2016_
  dsAsked,     \* the last READ_DESCRIPTOR
  dsReply      \* its response

dsVars == <<dsToc, dsHave, dsLegacy, dsAsked, dsReply>>

Zero == -1

\* A descriptor type: its structure, the octets of an element of the array
\* that follows and how many of them the structure holds, how its size on
\* the wire is found ("clamped", "counted", "fixed" or "raw") and its length
\* before the 2021 standard.
DescriptorKind(layout, entry, max, wire, minimum) ==
  [layout |-> layout, entry |-> entry, max |-> max, wire |-> wire,
   minimum |-> minimum]

FixedKind(layout, minimum) == DescriptorKind(layout, 0, 0, "fixed", minimum)
RawKind(layout, entry) == DescriptorKind(layout, entry, 0, "raw", layout.len)

ConfigurationKind ==
  DescriptorKind(DescriptorConfiguration, 4, 108, "clamped", 74)
AudioUnitKind == DescriptorKind(DescriptorAudioUnit, 4, 91, "clamped", 144)
StreamKind == DescriptorKind(DescriptorStream, 8, 46, "clamped", 132)
AudioMapKind == DescriptorKind(DescriptorAudioMap, 8, 62, "clamped", 8)
VideoMapKind == DescriptorKind(DescriptorVideoMap, 8, 62, "counted", 8)
SensorMapKind == DescriptorKind(DescriptorSensorMap, 6, 82, "counted", 8)
ClockDomainKind == DescriptorKind(DescriptorClockDomain, 2, 216, "counted", 76)

\* build_get_dispatch_table: the structure served for each descriptor type,
\* one of every way to serve it.
GetDispatchTable ==
  [configuration |-> ConfigurationKind, audio_unit |-> AudioUnitKind,
   stream_input |-> StreamKind, audio_map |-> AudioMapKind,
   video_map |-> VideoMapKind, sensor_map |-> SensorMapKind,
   clock_domain |-> ClockDomainKind,
   avb_interface |-> FixedKind(DescriptorAvbInterface, 98),
   audio_cluster |-> FixedKind(DescriptorAudioCluster, 87),
   control_block |-> FixedKind(DescriptorControlBlock, 76),
   signal_transcoder |-> FixedKind(DescriptorSignalTranscoder, 92),
   jack_input |-> FixedKind(DescriptorJack, 78),
   signal_selector |-> RawKind(DescriptorSignalSelector, 6),
   matrix_signal |-> RawKind(DescriptorMatrixSignal, 6)]

\* The octets an authored descriptor takes in the blob.
Authored(d) ==
  LET k == GetDispatchTable[d.type] IN k.layout.len + d.count * k.entry

----------------------------------------------------------------------------
(* DescriptorStorage: header, table of contents, symbol table, then the    *)
(* descriptors.  Every descriptor has one symbol here.                     *)

TocOffset == DescriptorStorageHeader.len
SymbolOffset(toc) == TocOffset + Len(toc) * DescriptorStorageTocEntry.len
BodyOffset(toc) ==
  SymbolOffset(toc) + Len(toc) * DescriptorStorageSymbolEntry.len

\* Where the i-th descriptor starts.
StartOf(toc, i) ==
  LET start[j \in 1..i] ==
        IF j = 1 THEN BodyOffset(toc) ELSE start[j - 1] + Authored(toc[j - 1])
  IN  start[i]

\* DescriptorStorage::create accepts the blob.
create(toc, have) ==
  /\ have >= DescriptorStorageHeader.len
  /\ TocOffset + Len(toc) * DescriptorStorageTocEntry.len <= have
  /\ SymbolOffset(toc) + Len(toc) * DescriptorStorageSymbolEntry.len <= have

\* The first entry a lookup meets, or 0.
FirstOf(toc, matches(_)) ==
  LET hits == {i \in DOMAIN toc : matches(toc[i])}
  IN  IF hits = {} THEN 0 ELSE CHOOSE i \in hits : \A j \in hits : i <= j

SameRef(d, type, index) == d.type = type /\ d.index = index

\* get_descriptor: the entry found, if all of it is in the blob.
get_descriptor(toc, have, type, index) ==
  LET i == FirstOf(toc, LAMBDA d : SameRef(d, type, index))
  IN  IF i # 0 /\ StartOf(toc, i) + Authored(toc[i]) <= have THEN i ELSE 0

get_symbol(toc, type, index) ==
  LET i == FirstOf(toc, LAMBDA d : SameRef(d, type, index))
  IN  IF i = 0 THEN 0 ELSE toc[i].symbol

find_by_symbol(toc, symbol) == FirstOf(toc, LAMBDA d : d.symbol = symbol)

----------------------------------------------------------------------------
Least(a, b) == IF a <= b THEN a ELSE b

\* span_load_padded of an authored descriptor into a structure of n octets.
span_load_padded(octets, n) ==
  [p \in 0..(n - 1) |-> IF p < octets THEN p ELSE Zero]

\* What a handler serves: octets, how many of them, and what the count and
\* offset fields of the array say.
NothingServed == [size |-> 0, octet |-> <<>>, count |-> 0, offset |-> 0]

\* dispatch_fixed, clamp_trailer_count and wire_size.
dispatch_fixed(k, d, room) ==
  LET count == IF k.wire = "clamped" THEN Least(d.count, k.max) ELSE d.count
      n == k.layout.len + count * k.entry
      capacity == k.layout.len + k.max * k.entry
  IN  IF room < n THEN NothingServed
      ELSE [size |-> n, count |-> count, offset |-> k.layout.len,
            octet |-> span_load_padded(Authored(d), capacity)]

\* dispatch_fixed_with_raw_trailer.
dispatch_fixed_with_raw_trailer(k, d, room) ==
  IF room < Authored(d) THEN NothingServed
  ELSE [size |-> Authored(d), count |-> d.count, offset |-> k.layout.len,
        octet |-> [p \in 0..(Authored(d) - 1) |-> p]]

\* Mutant: the array stays where the 2021 layout put it.
downgrade_descriptor_to_legacy_2016_mut(k, s) ==
  IF s.size < k.layout.len \/ k.minimum = k.layout.len THEN s
  ELSE [s EXCEPT !.size = k.minimum + s.size - k.layout.len,
                 !.offset = k.minimum]

\* downgrade_descriptor_to_legacy_2016: the members that the 2021 standard
\* added go, and what follows them moves down.
downgrade_descriptor_to_legacy_2016(k, s) ==
  IF s.size < k.layout.len \/ k.minimum = k.layout.len THEN s
  ELSE LET trailer == s.size - k.layout.len
       IN  IF k = StreamKind
             THEN [s EXCEPT
                     !.size = k.minimum + trailer, !.offset = k.minimum,
                     !.octet = [p \in 0..(k.minimum + trailer - 1) |->
                                  IF p < k.minimum THEN s.octet[p]
                                  ELSE s.octet[p + k.layout.len - k.minimum]]]
             ELSE [s EXCEPT !.size = k.minimum]

\* AemCommandHandler::handle_read_descriptor for a response buffer of `room`
\* octets.
handle_read_descriptor(toc, have, legacy, type, index, room) ==
  LET k == GetDispatchTable[type]
      i == get_descriptor(toc, have, type, index)
      left == room - 4
      s == IF i = 0 THEN NothingServed
           ELSE IF k.wire = "raw"
             THEN dispatch_fixed_with_raw_trailer(k, toc[i], left)
             ELSE dispatch_fixed(k, toc[i], left)
  IN  IF room <= 4 THEN [status |-> "NOT_SUPPORTED", served |-> NothingServed]
      ELSE IF s.size = 0
        THEN [status |-> "NO_SUCH_DESCRIPTOR", served |-> NothingServed]
      ELSE [status |-> "SUCCESS",
            served |-> IF legacy THEN downgrade_descriptor_to_legacy_2016(k, s)
                       ELSE s]

----------------------------------------------------------------------------
NotAsked == [type |-> "none", index |-> 0, room |-> 0]
NoReply == [status |-> "none", served |-> NothingServed]

DsInit ==
  /\ dsToc = <<>>
  /\ dsHave = 0
  /\ dsLegacy \in BOOLEAN
  /\ dsAsked = NotAsked
  /\ dsReply = NoReply

\* The designer adds a descriptor.  The counts of the types whose count is
\* not clamped are ones the structure holds.
Author(type, index, count, symbol) ==
  LET k == GetDispatchTable[type]
  IN  /\ dsHave = 0
      /\ Len(dsToc) < DsMaxEntries
      /\ k.wire = "counted" => count <= k.max
      /\ k.wire = "fixed" => count = 0
      /\ dsToc' = Append(dsToc, [type |-> type, index |-> index,
                                 count |-> count, symbol |-> symbol])
      /\ UNCHANGED <<dsHave, dsLegacy, dsAsked, dsReply>>

\* The entity gets the blob, all of it or all but its last `missing` octets.
Load(missing) ==
  LET last == Len(dsToc)
      whole == StartOf(dsToc, last) + Authored(dsToc[last])
  IN  /\ dsHave = 0 /\ last > 0
      /\ create(dsToc, whole - missing)
      /\ dsHave' = whole - missing
      /\ UNCHANGED <<dsToc, dsLegacy, dsAsked, dsReply>>

ReadDescriptorOf(type, index, room) ==
  /\ dsHave > 0
  /\ dsAsked' = [type |-> type, index |-> index, room |-> room]
  /\ dsReply' =
       handle_read_descriptor(dsToc, dsHave, dsLegacy, type, index, room)
  /\ UNCHANGED <<dsToc, dsHave, dsLegacy>>

----------------------------------------------------------------------------
\* Where a controller finds octet b of the e-th element of the array.
FoundAt(s, entry, e, b) == s.octet[s.offset + (e - 1) * entry + b]

\* READ_DESCRIPTOR serves what was authored.  A response never exceeds the
\* buffer; the octets before the array are the authored ones in their
\* places; going by the offset and the count of the response a controller
\* finds the first elements the designer listed, each of them whole and
\* inside the response, all of them when the structure can hold them,
\* whichever standard the response is written for; and a descriptor whose
\* authored octets are in the blob is served whenever the buffer holds it.
\* A symbol that only one descriptor has leads back to that descriptor.
DescriptorsServed ==
  LET s == dsReply.served
      k == GetDispatchTable[dsAsked.type]
      i == FirstOf(dsToc,
                   LAMBDA d : SameRef(d, dsAsked.type, dsAsked.index))
      d == dsToc[i]
      inBlob == i # 0 /\ StartOf(dsToc, i) + Authored(d) <= dsHave
      wanted == IF k.wire = "raw" THEN d.count ELSE Least(d.count, k.max)
      fits == k.layout.len + wanted * k.entry + 4 <= dsAsked.room
  IN  /\ dsAsked # NotAsked =>
           /\ (dsReply.status = "SUCCESS") <=> (inBlob /\ fits)
           /\ dsReply.status = "SUCCESS" =>
                /\ s.size + 4 <= dsAsked.room
                /\ s.count = wanted
                /\ s.offset + s.count * k.entry <= s.size \/ s.count = 0
                /\ \A p \in 0..(Least(s.offset, s.size) - 1) :
                     s.octet[p] = p
                /\ \A e \in 1..s.count : \A b \in {0, k.entry - 1} :
                     FoundAt(s, k.entry, e, b) =
                       k.layout.len + (e - 1) * k.entry + b
      /\ \A j \in DOMAIN dsToc :
           (/\ \A l \in DOMAIN dsToc : l # j =>
                 /\ dsToc[l].symbol # dsToc[j].symbol
                 /\ ~SameRef(dsToc[l], dsToc[j].type, dsToc[j].index))
           => find_by_symbol(dsToc, get_symbol(dsToc, dsToc[j].type,
                                               dsToc[j].index)) = j
=============================================================================
