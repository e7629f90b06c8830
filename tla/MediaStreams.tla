---------------------------- MODULE MediaStreams ----------------------------
(***************************************************************************)
(* One media stream from its talker's output context over a network that   *)
(* loses and delays packets to its listener's input context: AAF with a    *)
(* timestamp in every packet (versions 0 and 1), AAF from a talker that    *)
(* stamps only some packets, AM824 (IEC 61883-6), and CRF.  The talker     *)
(* sends at the stream's own cadence, so that the presentation time of a   *)
(* block is the time it was sent plus the offset.  Counters wrap at the    *)
(* moduli of the constants: 2^8 for sequence and data block counts, 2^32   *)
(* for timestamps.                                                         *)
(***************************************************************************)
EXTENDS Integers, Sequences
LOCAL INSTANCE SequencesExt
LOCAL INSTANCE TLC

CONSTANTS
  SeqModulus, DbcModulus, StampModulus,   \* where the counters wrap
  SytInterval,      \* am824_syt_interval; divides DbcModulus
  PresOffset,       \* presentation_offset_ns, in sample periods
  PacketSizes,      \* samples per packet the talker is asked for
  StartTimes,       \* gPTP times at which the stream may begin
  MsMaxPackets,     \* packets sent
  MsMaxQueue        \* packets under way at once

VARIABLES
  msKind,      \* the format
  msNow,       \* gPTP time, in sample periods
  msTalker,    \* the output context
  msNet,       \* packets under way, each with what it really is
  msListener,  \* the input context
  msHeard,     \* what the last on_audio / on_timestamp callback was given
  msTrust      \* every block since the anchor is accounted for

msVars == <<msKind, msNow, msTalker, msNet, msListener, msHeard, msTrust>>

Kinds == {"aaf", "aaf_v1", "sparse", "am824", "crf"}
Grandmasters == {"gm1", "gm2"}

----------------------------------------------------------------------------
(* AM824 quadlets: a label and the octets it carries. *)

\* Am824ChannelType of each channel.
ChannelTypes == <<"mbla", "midi", "smpte">>

\* What the sources hand out for a channel's data block: 0 to 3 MIDI octets,
\* SMPTE part 0 (none) to 3.
MidiOf(block) == [b \in 1..(block % 4) |-> <<"midi", block, b>>]
SmpteOf(block) == block % 4

\* create_am824_quadlet, am824_create_midi_quadlet, am824_create_smpte_quadlet.
QuadletOf(type, block) ==
  CASE type = "mbla" -> [label |-> 64, data |-> <<<<"mbla", block, 1>>>>]
    [] type = "midi" -> [label |-> 128 + (Len(MidiOf(block)) % 4),
                         data |-> MidiOf(block)]
    [] type = "smpte" -> [label |-> 136 + (SmpteOf(block) % 4),
                          data |-> <<<<"smpte", block, SmpteOf(block)>>>>]

\* am824_serialize_mixed: channel-interleaved data blocks.
am824_serialize(block, samples) ==
  FlattenSeq([s \in 1..samples |->
    [c \in 1..Len(ChannelTypes) |-> QuadletOf(ChannelTypes[c], block + s - 1)]])

\* am824_deserialize_mixed: what is handed on of channel c, by label.
am824_deserialize(payload, c) ==
  LET channels == Len(ChannelTypes)
      samples == Len(payload) \div channels
      quadlet(s) == payload[(s - 1) * channels + c]
      audio(q) == IF q.label \div 16 = 4 THEN q.data ELSE <<>>
      midi(q) == IF q.label \in 128..131
                   THEN SubSeq(q.data, 1, q.label % 4) ELSE <<>>
      smpte(q) == IF q.label \in 136..139 /\ q.label % 4 > 0
                    THEN q.data ELSE <<>>
  IN  FlattenSeq([s \in 1..samples |->
        audio(quadlet(s)) \o midi(quadlet(s)) \o smpte(quadlet(s))])

\* am824_presentation_to_syt of a time in nanoseconds: cycle and offset.
am824_presentation_to_syt(ns) ==
  ((ns \div 125000) % 16) * 4096 + ((ns % 125000) * 3072) \div 125000

NO_SYT == 65535

----------------------------------------------------------------------------
(* The talker. *)

\* The output context after construction or reset().
FreshTalker == [seq |-> 0, dbc |-> 0, started |-> FALSE, next |-> 0]

\* The input context after construction or reset().
FreshListener ==
  [packets |-> 0, seq |-> 0, gaps |-> 0, valid |-> FALSE, pts |-> 0,
   since |-> 0, dbc |-> 0, running |-> 0, anchor |-> 0, gm |-> "none",
   gmChanged |-> FALSE, first |-> 0, last |-> 0]

MsInit(kind, start) ==
  /\ msKind = kind
  /\ msNow = start
  /\ msTalker = [ctx |-> FreshTalker, gm |-> "gm1", sent |-> 0, block |-> 0,
                 epoch |-> 0]
  /\ msNet = <<>>
  /\ msListener = FreshListener
  /\ msHeard = [any |-> FALSE]
  /\ msTrust = FALSE

\* The header fields each build_packet_header sets.  Whether a packet of a
\* sparse talker has a timestamp is that talker's choice.
AafHeader(sparseTv) ==
  LET tv == msKind # "sparse" \/ sparseTv
  IN  [tv |-> tv,
       ts |-> IF tv THEN (msNow + PresOffset) % StampModulus ELSE 0,
       syt |-> NO_SYT]

\* AafV1StreamOutputContext::build_packet_header: the whole 64-bit time.
AafV1Header == [tv |-> TRUE, ts |-> msNow + PresOffset, syt |-> NO_SYT]

\* Am824StreamOutputContext::build_packet_header.
Am824Header(samples) ==
  LET dbc == msTalker.ctx.dbc
      boundary == {s \in 0..(samples - 1) : (dbc + s) % SytInterval = 0}
      at == CHOOSE s \in boundary : \A t \in boundary : s <= t
      pts == msNow + PresOffset + at
  IN  IF boundary = {} THEN [tv |-> FALSE, ts |-> 0, syt |-> NO_SYT]
      ELSE [tv |-> TRUE, ts |-> pts % StampModulus,
            syt |-> am824_presentation_to_syt(pts * 20833)]

\* CrfStreamOutputContext::build_packet: `samples` timestamps, one period
\* apart, from the first call's time on.
CrfStamps(samples) ==
  LET from == IF msTalker.ctx.started THEN msTalker.ctx.next ELSE msNow
  IN  [i \in 1..samples |-> from + i - 1]

HeaderOf(samples, sparseTv) ==
  CASE msKind = "am824" -> Am824Header(samples)
    [] msKind = "crf" -> [tv |-> FALSE, ts |-> 0, syt |-> NO_SYT]
    [] msKind = "aaf_v1" -> AafV1Header
    [] OTHER -> AafHeader(sparseTv)

\* One packet of `samples` samples (timestamps, for CRF): aaf_stream_serialize,
\* am824_serialize_mbla / _mixed, build_packet.
SendPacket(samples, sparseTv) ==
  LET ctx == msTalker.ctx
      stamps == IF msKind = "crf" THEN CrfStamps(samples) ELSE <<>>
      packet ==
        HeaderOf(samples, sparseTv) @@
        [seq |-> ctx.seq, dbc |-> ctx.dbc % DbcModulus, gm |-> msTalker.gm,
         samples |-> samples, stamps |-> stamps,
         payload |-> IF msKind = "am824"
                       THEN am824_serialize(msTalker.block, samples) ELSE <<>>,
         index |-> msTalker.sent, block |-> msTalker.block,
         epoch |-> msTalker.epoch, due |-> msNow + PresOffset]
  IN  /\ msTalker.sent < MsMaxPackets
      /\ Len(msNet) < MsMaxQueue
      /\ samples > 0
      /\ msNet' = Append(msNet, packet)
      /\ msTalker' =
           [msTalker EXCEPT
              !.ctx = [seq |-> (ctx.seq + 1) % SeqModulus,
                       dbc |-> ctx.dbc + samples,
                       started |-> TRUE,
                       next |-> IF stamps = <<>> THEN ctx.next
                                ELSE Last(stamps) + 1],
              !.sent = @ + 1, !.block = @ + samples]
      /\ msNow' = msNow + samples
      /\ UNCHANGED <<msKind, msListener, msHeard, msTrust>>

\* reset() of the output context between two packets.
ResetTalker ==
  /\ msTalker.epoch = 0 /\ msTalker.sent > 0
  /\ msTalker' = [msTalker EXCEPT !.ctx = FreshTalker, !.epoch = 1]
  /\ UNCHANGED <<msKind, msNow, msNet, msListener, msHeard, msTrust>>

\* The grandmaster a version-1 talker names changes.
ChangeGrandmaster ==
  /\ msKind = "aaf_v1" /\ msTalker.gm = "gm1"
  /\ msTalker' = [msTalker EXCEPT !.gm = "gm2"]
  /\ UNCHANGED <<msKind, msNow, msNet, msListener, msHeard, msTrust>>

LosePacket ==
  /\ msNet # <<>>
  /\ msNet' = Tail(msNet)
  /\ msTrust' = (msTrust /\ msKind # "sparse")
  /\ UNCHANGED <<msKind, msNow, msTalker, msListener, msHeard>>

----------------------------------------------------------------------------
(* The listener. *)

Distance(a, b) == IF a > b THEN a - b ELSE b - a

reconstruct_avtp_timestamp(stamp, now) ==
  LET candidate == now - (now % StampModulus) + stamp
      plus == candidate + StampModulus
      minus == candidate - StampModulus
      best == IF Distance(plus, now) < Distance(candidate, now)
                THEN plus ELSE candidate
  IN  IF candidate >= StampModulus /\ Distance(minus, now) < Distance(best, now)
        THEN minus ELSE best

\* update_sequence_num.
SequenceGap(packet) ==
  msListener.packets > 0 /\ packet.seq # (msListener.seq + 1) % SeqModulus

\* Mutant: the data block count's wrap is not undone.
update_dbc_mut(packet) ==
  IF msListener.packets = 0 THEN packet.dbc
  ELSE msListener.running + (packet.dbc - msListener.dbc)

\* Am824StreamInputContext::update_dbc.
update_dbc(packet) ==
  IF msListener.packets = 0 THEN packet.dbc
  ELSE msListener.running + ((packet.dbc - msListener.dbc) % DbcModulus)

\* Am824StreamInputContext::update_timestamp's index.
AnchorIndex(packet) == (SytInterval - (packet.dbc % SytInterval)) % SytInterval

\* AafStreamInputContext::process_packet_header: a timestamp is a new anchor.
AafAnchored(l, packet) ==
  IF ~packet.tv THEN l
  ELSE [l EXCEPT !.valid = TRUE, !.since = 0,
          !.pts = reconstruct_avtp_timestamp(packet.ts, msNow)]

\* AafV1StreamInputContext::process_packet_header: the time is whole, and
\* comes with the grandmaster it was taken under.
AafV1Anchored(l, packet) ==
  IF ~packet.tv THEN l
  ELSE [l EXCEPT !.valid = TRUE, !.since = 0, !.pts = packet.ts,
          !.gm = packet.gm,
          !.gmChanged = @ \/ (msListener.packets > 0 /\ packet.gm # l.gm)]

\* Am824StreamInputContext::process_packet_header: the anchor is the data
\* block at the SYT boundary.
Am824Anchored(l, packet) ==
  LET running == update_dbc(packet)
      counted == [l EXCEPT !.dbc = packet.dbc, !.running = running]
  IN  IF ~packet.tv THEN counted
      ELSE [counted EXCEPT !.valid = TRUE,
              !.pts = reconstruct_avtp_timestamp(packet.ts, msNow),
              !.anchor = running + AnchorIndex(packet)]

\* CrfStreamInputContext::process_packet.
CrfAnchored(l, packet) ==
  IF packet.stamps = <<>> THEN [l EXCEPT !.valid = FALSE]
  ELSE [l EXCEPT !.valid = TRUE, !.first = Head(packet.stamps),
                 !.last = Last(packet.stamps)]

\* The input context after a packet's header.
Processed(packet) ==
  LET l == [msListener EXCEPT
              !.packets = @ + 1, !.seq = packet.seq,
              !.gaps = IF SequenceGap(packet) THEN @ + 1 ELSE @]
  IN  CASE msKind = "am824" -> Am824Anchored(l, packet)
        [] msKind = "aaf_v1" -> AafV1Anchored(l, packet)
        [] msKind = "crf" -> CrfAnchored(l, packet)
        [] OTHER -> AafAnchored(l, packet)

\* compute_pts_ns and compute_base_pts_ns.
compute_pts(l) ==
  IF ~l.valid THEN 0
  ELSE IF msKind = "am824" THEN l.pts + (l.running - l.anchor)
  ELSE l.pts + l.since

\* aaf_stream_deserialize, am824_deserialize_mbla / _mixed, process_packet:
\* the oldest packet under way arrives.
ReceivePacket ==
  LET packet == Head(msNet)
      l == Processed(packet)
  IN  /\ msNet # <<>>
      /\ msNet' = Tail(msNet)
      /\ msListener' = IF msKind = "am824" THEN l
                       ELSE [l EXCEPT !.since = @ + packet.samples]
      /\ msHeard' =
           [any |-> TRUE, pts |-> compute_pts(l), packet |-> packet,
            gap |-> SequenceGap(packet),
            before |-> IF msHeard.any
                         THEN [index |-> msHeard.packet.index,
                               block |-> msHeard.packet.block,
                               epoch |-> msHeard.packet.epoch,
                               gm |-> msHeard.packet.gm]
                         ELSE [index |-> -1, block |-> 0, epoch |-> -1,
                               gm |-> "none"],
            channels |-> [c \in 1..Len(ChannelTypes) |->
                            IF msKind = "am824"
                              THEN am824_deserialize(packet.payload, c)
                              ELSE <<>>]]
      /\ msTrust' =
           (\/ packet.tv
            \/ /\ msTrust /\ msKind = "sparse"
            \/ /\ msTrust /\ msKind = "am824"
               /\ packet.epoch = msHeard.packet.epoch
               /\ packet.block - msHeard.packet.block < DbcModulus)
      /\ UNCHANGED <<msKind, msNow, msTalker>>

\* reset() of the input context.
ResetListener ==
  /\ msListener.packets > 0
  /\ msListener' = FreshListener
  /\ msHeard' = [any |-> FALSE]
  /\ msTrust' = FALSE
  /\ UNCHANGED <<msKind, msNow, msTalker, msNet>>

----------------------------------------------------------------------------
\* What a listener presents is what its talker sent, when it was meant to be
\* presented.  However packets are delayed, lost, or the talker restarted,
\* whenever a presentation time is valid and every block since the anchor is
\* accounted for (fewer than 2^8 data blocks skipped at once, for AM824; none
\* lost, for a sparse AAF talker) the time handed to the callback is the
\* packet's own, although only its low 32 bits travelled; a packet with a
\* timestamp re-establishes that by itself.  Each AM824 channel receives the
\* samples, MIDI octets and time code parts of that channel in order; a gap is
\* noted exactly when packets are missing (unless a multiple of 2^8 of them
\* are); a timestamped AM824 packet never carries the SYT that says there is
\* none; a version-1 listener notices a new grandmaster; and a CRF
\* listener's timestamps are one period apart within a talker's run.
PresentedOnTime ==
  msHeard.any =>
    LET packet == msHeard.packet
        before == msHeard.before
        skipped == packet.index - before.index - 1
        sameRun == packet.epoch = before.epoch
    IN  /\ (msTrust /\ msListener.valid /\ msKind # "crf") =>
             msHeard.pts = packet.due
        /\ (sameRun /\ before.index >= 0) =>
             (msHeard.gap <=> skipped % SeqModulus # 0)
        /\ msKind = "am824" =>
             /\ packet.tv <=> (packet.syt # NO_SYT)
             /\ \A c \in 1..Len(ChannelTypes) :
                  msHeard.channels[c] =
                    FlattenSeq([s \in 1..packet.samples |->
                      LET block == packet.block + s - 1
                      IN  CASE ChannelTypes[c] = "mbla" ->
                                 <<<<"mbla", block, 1>>>>
                            [] ChannelTypes[c] = "midi" -> MidiOf(block)
                            [] OTHER -> IF SmpteOf(block) = 0 THEN <<>>
                                        ELSE <<<<"smpte", block,
                                                 SmpteOf(block)>>>>])
        /\ (msKind = "aaf_v1" /\ before.index >= 0 /\ packet.gm # before.gm) =>
             msListener.gmChanged
        /\ msKind = "crf" =>
             /\ msListener.last - msListener.first = packet.samples - 1
             /\ msListener.first = packet.due - PresOffset
=============================================================================
