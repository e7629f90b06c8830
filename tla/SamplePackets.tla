---------------------------- MODULE SamplePackets ----------------------------
(***************************************************************************)
(* Audio samples into the payload of an AAF or AM824 packet and out again, *)
(* interleaved, planar or one channel at a time, over an Ethernet that     *)
(* pads short frames.  A float sample is an integer number of half         *)
(* quantisation steps of its format, so that rounding and clamping both    *)
(* happen; Sample(f, s, c), the sample of channel c at time s, covers the  *)
(* extremes and runs beyond them.  32-bit samples exceed TLC's integers.   *)
(***************************************************************************)
EXTENDS Integers, Sequences
LOCAL INSTANCE SequencesExt

CONSTANTS
  SpMaxChannels, SpMaxSamples,    \* dimensions of a packet
  SpRooms         \* octets of packet buffers

VARIABLES
  spFormat,    \* a member of SampleFormats
  spDims,      \* [channels, samples] the talker was configured with
  spPacket,    \* the frame: payload octets declared, and all of them
  spOut        \* what the last deserializer stored and returned

spVars == <<spFormat, spDims, spPacket, spOut>>

\* Octets per sample, octets of its value, and octets of the packet's header.
SampleFormats ==
  [int16 |-> [octets |-> 2, value |-> 2, header |-> 24],
   int24 |-> [octets |-> 3, value |-> 3, header |-> 24],
   am824 |-> [octets |-> 4, value |-> 3, header |-> 32]]

AM824_LABEL_MBLA == 64

aaf_bytes_per_sample(f) == SampleFormats[f].octets

\* The samples run from -Half to Half - 1.
Half(f) == 2 ^ (8 * SampleFormats[f].value - 1)

Sample(f, s, c) ==
  LET samples == <<0, 1, -1, -3, 2 * Half(f) - 2, 2 * Half(f),
                   -2 * Half(f), -2 * Half(f) - 5, 517>>
  IN  samples[((2 * s + c) % Len(samples)) + 1]

----------------------------------------------------------------------------
(* Samples and octets. *)

\* Rounding to the nearest, away from zero on a tie, and clamping: what
\* float_to_aaf_int16 and float_to_aaf_int24 do.
float_to_aaf_int(f, halves) ==
  LET rounded == IF halves >= 0 THEN (halves + 1) \div 2
                 ELSE -((1 - halves) \div 2)
  IN  IF rounded >= Half(f) - 1 THEN Half(f) - 1
      ELSE IF rounded <= -Half(f) THEN -Half(f)
      ELSE rounded

\* float_to_am824_sample.
float_to_am824_sample(halves) == float_to_aaf_int("am824", halves)

\* Two's complement, most significant octet first.
BigEndian(n, sample) ==
  LET raw == sample % (2 ^ (8 * n))
  IN  [i \in 1..n |-> (raw \div (2 ^ (8 * (n - i)))) % 256]

\* The sign bit is extended.
SignExtended(octets) ==
  LET value[i \in 0..Len(octets)] ==
        IF i = 0 THEN 0 ELSE value[i - 1] * 256 + octets[i]
  IN  IF octets[1] >= 128 THEN value[Len(octets)] - 2 ^ (8 * Len(octets))
      ELSE value[Len(octets)]

encode_aaf_sample(halves) ==
  BigEndian(SampleFormats[spFormat].value, float_to_aaf_int(spFormat, halves))

decode_aaf_sample(payload, offset) ==
  SignExtended(SubSeq(payload, offset + 1,
                      offset + SampleFormats[spFormat].value))

create_am824_quadlet(halves) ==
  <<AM824_LABEL_MBLA>> \o BigEndian(3, float_to_am824_sample(halves))

\* Another label than audio's is silence.
parse_am824_quadlet(payload, offset) ==
  IF payload[offset + 1] # AM824_LABEL_MBLA THEN 0
  ELSE SignExtended(SubSeq(payload, offset + 2, offset + 4))

----------------------------------------------------------------------------
NoPacket == [sent |-> FALSE, octets |-> <<>>, declared |-> 0]
NoOut == [count |-> -1, how |-> "none", data |-> <<>>, channel |-> 0]

SpInit ==
  /\ spFormat \in DOMAIN SampleFormats
  /\ spDims \in [channels : 0..SpMaxChannels, samples : 0..SpMaxSamples]
  /\ spPacket = NoPacket
  /\ spOut = NoOut

\* The talker's audio: interleaved, and one buffer per channel.
Interleaved ==
  FlattenSeq([s \in 1..spDims.samples |->
    [c \in 1..spDims.channels |-> Sample(spFormat, s, c)]])

Planar ==
  [c \in 1..spDims.channels |->
    [s \in 1..spDims.samples |-> Sample(spFormat, s, c)]]

\* The checks every serializer makes of its `room` octets.
Serializable(room) ==
  /\ spDims.channels > 0 /\ spDims.samples > 0
  /\ room >= spDims.channels * spDims.samples * aaf_bytes_per_sample(spFormat)

InterleavedOctets(Encode(_), input) ==
  FlattenSeq([i \in 1..(spDims.samples * spDims.channels) |->
    Encode(input[i])])

PlanarOctets(Encode(_), buffers) ==
  FlattenSeq([s \in 1..spDims.samples |->
    FlattenSeq([c \in 1..spDims.channels |-> Encode(buffers[c][s])])])

aaf_serialize_interleaved(input) == InterleavedOctets(encode_aaf_sample, input)

aaf_serialize_planar(buffers) == PlanarOctets(encode_aaf_sample, buffers)

am824_serialize_interleaved(input) ==
  InterleavedOctets(create_am824_quadlet, input)

am824_serialize_planar(buffers) == PlanarOctets(create_am824_quadlet, buffers)

\* A frame as it arrives: padded to Ethernet's 60 octets, or cut to `keep`
\* payload octets.
Framed(payload, keep) ==
  LET least == 60 - 14 - SampleFormats[spFormat].header
      padding == [i \in 1..(least - Len(payload)) |-> 0]
  IN  [sent |-> TRUE, declared |-> Len(payload),
       octets |-> IF keep < Len(payload) THEN SubSeq(payload, 1, keep)
                  ELSE IF Len(payload) < least THEN payload \o padding
                  ELSE payload]

\* A packet in a buffer of `room` octets: from interleaved audio, or by a
\* talker that serializes its channel buffers behind the header.
aaf_create_packet(planar, room, keep) ==
  /\ spFormat # "am824" /\ ~spPacket.sent
  /\ Serializable(room - SampleFormats[spFormat].header)
  /\ spPacket' =
       Framed(IF planar THEN aaf_serialize_planar(Planar)
              ELSE aaf_serialize_interleaved(Interleaved), keep)
  /\ UNCHANGED <<spFormat, spDims, spOut>>

am824_create_packet(planar, room, keep) ==
  /\ spFormat = "am824" /\ ~spPacket.sent
  /\ Serializable(room - SampleFormats[spFormat].header)
  /\ spPacket' =
       Framed(IF planar THEN am824_serialize_planar(Planar)
              ELSE am824_serialize_interleaved(Interleaved), keep)
  /\ UNCHANGED <<spFormat, spDims, spOut>>

----------------------------------------------------------------------------
(* The listener. *)

\* Mutant: everything after the header, Ethernet's padding included.
aaf_get_audio_payload_mut == spPacket.octets

\* The declared octets that are there.
aaf_get_audio_payload ==
  LET available == Len(spPacket.octets)
  IN  SubSeq(spPacket.octets, 1,
             IF spPacket.declared < available THEN spPacket.declared
             ELSE available)

\* The same of an AM824 packet, whose declared octets do not count the CIP
\* header.
am824_get_audio_payload ==
  SubSeq(spPacket.octets, 1,
         CHOOSE n \in {spPacket.declared, Len(spPacket.octets)} :
           n <= spPacket.declared /\ n <= Len(spPacket.octets))

AudioPayload ==
  IF spFormat = "am824" THEN am824_get_audio_payload ELSE aaf_get_audio_payload

\* The frame offset of sample s (from 0) of channel c (from 0).
FrameOffset(s, c) ==
  (s * spDims.channels + c) * aaf_bytes_per_sample(spFormat)

\* The samples per channel a listener takes the payload to hold.
HeldSamples ==
  IF spDims.channels = 0 THEN 0
  ELSE Len(AudioPayload) \div (spDims.channels * aaf_bytes_per_sample(spFormat))

Refused(how, channel) ==
  [count |-> 0, how |-> how, data |-> <<>>, channel |-> channel]

Decoded(payload, offset) ==
  IF spFormat = "am824" THEN parse_am824_quadlet(payload, offset)
  ELSE decode_aaf_sample(payload, offset)

\* n samples of every channel into a buffer for `capacity` samples.
InterleavedSamples(n, capacity) ==
  LET payload == AudioPayload
      total == n * spDims.channels
  IN  IF n = 0 \/ total = 0 \/ Len(payload) < FrameOffset(n, 0)
           \/ capacity < total
        THEN Refused("interleaved", 0)
        ELSE [count |-> n, how |-> "interleaved", channel |-> 0,
              data |-> [i \in 1..total |-> Decoded(payload, FrameOffset(0, i - 1))]]

\* n samples of one channel; the planar deserializers do this for each.
ChannelSamples(n, channel, capacity) ==
  LET payload == AudioPayload
  IN  IF n = 0 \/ spDims.channels = 0 \/ channel >= spDims.channels
           \/ capacity < n \/ Len(payload) < FrameOffset(n, 0)
        THEN Refused("channel", channel)
        ELSE [count |-> n, how |-> "channel", channel |-> channel,
              data |-> [s \in 1..n |->
                          Decoded(payload, FrameOffset(s - 1, channel))]]

aaf_deserialize_interleaved(n, capacity) ==
  /\ spPacket.sent /\ spFormat # "am824"
  /\ spOut' = InterleavedSamples(n, capacity)
  /\ UNCHANGED <<spFormat, spDims, spPacket>>

aaf_deserialize_channel(n, channel, capacity) ==
  /\ spPacket.sent /\ spFormat # "am824"
  /\ spOut' = ChannelSamples(n, channel, capacity)
  /\ UNCHANGED <<spFormat, spDims, spPacket>>

am824_deserialize_interleaved(n, capacity) ==
  /\ spPacket.sent /\ spFormat = "am824"
  /\ spOut' = InterleavedSamples(n, capacity)
  /\ UNCHANGED <<spFormat, spDims, spPacket>>

am824_deserialize_channel(n, channel, capacity) ==
  /\ spPacket.sent /\ spFormat = "am824"
  /\ spOut' = ChannelSamples(n, channel, capacity)
  /\ UNCHANGED <<spFormat, spDims, spPacket>>

----------------------------------------------------------------------------
\* v is the float sample `halves`, to half a step or at the nearer extreme.
Near(halves, v) ==
  \/ 2 * v - halves \in -1..1 /\ v \in -Half(spFormat)..(Half(spFormat) - 1)
  \/ halves > 2 * Half(spFormat) - 2 /\ v = Half(spFormat) - 1
  \/ halves < -2 * Half(spFormat) /\ v = -Half(spFormat)

\* Samples arrive as they were sent.  Whether the talker serialized from an
\* interleaved or from per-channel buffers, whatever order and sizes the
\* listener reads them with, every sample it stores is the one of its channel
\* and time to half a quantisation step, or the nearer extreme when it was
\* outside the format's range; the octets of Ethernet's padding are never
\* taken for samples; and what does not wholly fit the listener's buffer or
\* is not wholly there is refused rather than cut.
SamplesIntact ==
  /\ spOut.how = "interleaved" =>
       /\ spOut.count <= spDims.samples
       /\ \A i \in 1..(spOut.count * spDims.channels) :
            Near(Interleaved[i], spOut.data[i])
  /\ spOut.how = "channel" =>
       /\ spOut.count <= spDims.samples
       /\ \A s \in 1..spOut.count :
            Near(Planar[spOut.channel + 1][s], spOut.data[s])
  /\ spPacket.sent => HeldSamples <= spDims.samples
=============================================================================
