------------------------------- MODULE MCWire -------------------------------
(***************************************************************************)
(* What the stack puts on the wire and reads back, each part on its own in *)
(* a behaviour: the accessors of every PDU, the messages of a control      *)
(* stream, the descriptors an entity serves, the values of its controls,   *)
(* the samples of a media packet, the media streams, and the session that  *)
(* measures a tunnel: its tallies, its other senders and its records.      *)
(***************************************************************************)
EXTENDS PduCodec, Acf, DescriptorService, ControlValues, MediaStreams, SamplePackets,
        UdptunSession

VARIABLE part

rest == <<part, acfVars, dsVars, cvVars, msVars, spVars, sessionVars>>

NoFormat == Plain(Layout(0, <<>>))

\* A part that is not at work in a behaviour rests in one initial state.
WireInit ==
  /\ part \in {"pdu", "acf", "descriptors", "controls", "samples", "media",
              "session", "sources", "sink"}
  /\ IF part = "pdu"
       THEN \E p \in DOMAIN Formats : \E f \in {Formats[p]} :
              \E i \in DOMAIN f.inits : PduInit(f, f.inits[i])
       ELSE PduInit(NoFormat, <<>>)
  /\ AcfInit /\ (part # "acf" => acfKind = "tscf")
  /\ DsInit /\ (part # "descriptors" => ~dsLegacy)
  /\ IF part = "controls"
       THEN \E vt \in ValueTypes, n \in 0..2 : CvInit(vt, n)
       ELSE CvInit(CONTROL_UTF8, 0) /\ ~cvFlags
  /\ IF part = "media"
       THEN \E kind \in Kinds, start \in StartTimes : MsInit(kind, start)
       ELSE MsInit("crf", 0)
  /\ IF part = "samples" THEN SpInit
     ELSE SpInit /\ spFormat = "int16" /\ spDims.channels + spDims.samples = 0
  /\ SessionInit
  /\ part # "session" => ~session.rt /\ session.synced
  /\ (tx.due = Never) <=> (part = "sources")

\* Payload sizes around a quadlet and at the most a message may carry.
PayloadsOf(m) == {0, 1, 3, 4, 5, 4 * m.max, 4 * m.max + 1}
SecondMessages == {AcfGpcMessage, AcfCanMessage}

BuildMessages ==
  \/ /\ acfItems = <<>>
     /\ \E m \in IF acfKind = "tscf" THEN DataMessages ELSE SecondMessages :
          \E p \in PayloadsOf(m) : acf_build_typed(m, p)
  \/ /\ acfItems # <<>>
     /\ acfItems[1].type \in {m.type : m \in SecondMessages}
     /\ \E m \in SecondMessages : \E p \in {0, 5} : acf_build_typed(m, p)
  \/ BuildTrailer(CHECKSUM, 0)
  \/ \E c \in {crc_eth, crc_user} : BuildTrailer(CRC, c)

ReachListener ==
  \/ ArriveIntact
  \/ /\ acfPhase = "wire"
     /\ \E i \in DOMAIN acfItems :
          \/ \E d \in {0, 1, 4, 6} :
               ArriveCut(Containers[acfKind].header + acfItems[i].at + d)
          \/ ArriveDamaged(i)
          \/ \E q \in {0, 1, 3, 511} : ArriveWrongLength(i, q)

AcfNext ==
  BuildMessages \/ AcfSend \/ ReachListener \/ WalkMalformed \/ next_verified

\* Counts at both ends of what a descriptor's arrays hold, and one past it.
CountsOf(k) == {0, 1, k.max, k.max + 1} \cup IF k.wire = "raw" THEN {3} ELSE {}

DsNext ==
  \/ \E t \in DOMAIN GetDispatchTable :
       \E count \in CountsOf(GetDispatchTable[t]), i \in 0..1, symbol \in 1..2 :
         /\ IF dsToc = <<>> THEN i = 0 /\ symbol = 1
            ELSE t \in {dsToc[1].type, "audio_map"}
         /\ Author(t, i, count, symbol)
  \/ \E missing \in {0, 1, 9} : Load(missing)
  \/ /\ dsAsked = NotAsked
     /\ \E j \in DOMAIN dsToc : \E room \in {4, 5, 141, 512}, i \in 0..1 :
          ReadDescriptorOf(dsToc[j].type, i, room)

CvNext ==
  \/ \E i \in 1..cvN : SetLinearCurrent(i)
  \/ SetSelectorCurrent
  \/ SendControl
  \/ \E cut \in 0..1 : parse_control_response(Len(cvWire.body) - cut)
  \/ /\ cvType \in {0, 1, 21, 22} /\ cvFlags /\ cvN = 1 /\ cvAsked = NotAskedYet
     /\ \E lo, hi, step, value \in Elements : ValidateCurrent(lo, hi, step, value)

SpNext ==
  \/ \E planar \in BOOLEAN, room \in SpRooms, keep \in {1, 7, 99} :
       \/ aaf_create_packet(planar, room, keep)
       \/ am824_create_packet(planar, room, keep)
  \/ \E n \in 0..(SpMaxSamples + 1),
        capacity \in 0..(SpMaxSamples * SpMaxChannels) :
       \/ aaf_deserialize_interleaved(n, capacity)
       \/ am824_deserialize_interleaved(n, capacity)
       \/ \E channel \in 0..SpMaxChannels :
            \/ aaf_deserialize_channel(n, channel, capacity)
            \/ am824_deserialize_channel(n, channel, capacity)

MsNext ==
  \/ \E n \in PacketSizes, tv \in BOOLEAN :
       (msKind # "sparse" => tv) /\ SendPacket(n, tv)
  \/ ResetTalker
  \/ ChangeGrandmaster
  \/ LosePacket
  \/ ReceivePacket
  \/ ResetListener

\* The other senders are followed over the first SourcesTime units only.
SourcesTime == 1

MeasureNext ==
  \/ part = "session" /\ TalliesStep /\ UNCHANGED <<sourcesVars, sink>>
  \/ part = "sources" /\ SourcesStep /\ UNCHANGED sink
  \/ part = "sources" /\ now < SourcesTime /\ Elapse /\ UNCHANGED <<sourcesVars, sink>>
  \/ part = "sink" /\ SinkStep /\ UNCHANGED <<now, talliesVars, sourcesVars>>

WireNext ==
  \/ part = "pdu" /\ PduSets /\ UNCHANGED rest
  \/ /\ part = "acf" /\ AcfNext
     /\ UNCHANGED <<part, pduVars, dsVars, cvVars, msVars, spVars, sessionVars>>
  \/ /\ part = "descriptors" /\ DsNext
     /\ UNCHANGED <<part, pduVars, acfVars, cvVars, msVars, spVars, sessionVars>>
  \/ /\ part = "controls" /\ CvNext
     /\ UNCHANGED <<part, pduVars, acfVars, dsVars, msVars, spVars, sessionVars>>
  \/ /\ part = "media" /\ MsNext
     /\ UNCHANGED <<part, pduVars, acfVars, dsVars, cvVars, spVars, sessionVars>>
  \/ /\ part = "samples" /\ SpNext
     /\ UNCHANGED <<part, pduVars, acfVars, dsVars, cvVars, msVars, sessionVars>>
  \/ /\ part \in {"session", "sources", "sink"} /\ MeasureNext
     /\ UNCHANGED <<part, pduVars, acfVars, dsVars, cvVars, msVars, spVars>>

WireSpec == WireInit /\ [][WireNext]_<<rest, pduVars>>
=============================================================================
