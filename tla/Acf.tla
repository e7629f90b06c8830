-------------------------------- MODULE Acf ---------------------------------
(***************************************************************************)
(* The AVTP Control Format messages of IEEE 1722, one definition per wire  *)
(* structure of avtp_acf_*.hpp: its message type, the octets of its fixed  *)
(* part, the payload quadlets its is_valid accepts, where its pad() comes  *)
(* from and the accessors of its fixed part.                               *)
(*   pad "field":   pad() and set_pad reach a two-bit field of the message *)
(*   pad "none":    pad() is 0 and set_pad does nothing                    *)
(*   pad "derived": other fields say how long the payload is; is_valid     *)
(*                  wants exactly that and pad() is what is left over      *)
(***************************************************************************)
EXTENDS WireFields, SequencesExt

ACF_QUADLET_OCTETS == 4
ACF_MSG_LENGTH_MAX_QUADLETS == 511

\* The most payload quadlets that fit beside a fixed part of len octets.
Rest(len) == ACF_MSG_LENGTH_MAX_QUADLETS - len \div ACF_QUADLET_OCTETS

\* The common header: the type, and the length in quadlets, header included.
AcfMessageHeader ==
  <<"header", 2, [msg_type |-> <<15, 9>>, msg_length |-> <<8, 0>>]>>

Acf(type, len, minPayload, maxPayload, pad, members) ==
  [type |-> type, len |-> len, min |-> minPayload, max |-> maxPayload,
   pad |-> pad, layout |-> Layout(len, <<AcfMessageHeader>> \o members)]

AcfAecpMessage ==
  Acf(10, 4, 0, Rest(4), "none", <<
    <<"reserved0", 2>>>>)

AcfAncillaryMessage ==
  Acf(11, 8, 0, Rest(8), "field", <<
    <<"pad_mode_flags", 2, [pad |-> <<15, 14>>, mode |-> <<3, 2>>,
    fp |-> <<1, 1>>, lp |-> <<0, 0>>]>>, <<"line_number", 2>>, <<"did", 1>>,
    <<"sdid_dbn", 1>>>>)

AcfByteBusMessage ==
  Acf(13, 16, 0, Rest(16), "field", <<
    <<"pad_mtv_rsv_bus", 2, [pad |-> <<15, 14>>, mtv |-> <<13, 13>>,
    byte_bus_id |-> <<10, 0>>]>>, <<"message_timestamp", 8>>,
    <<"evt_flags_txn", 2, [evt |-> <<15, 12>>, hs |-> <<9, 9>>,
    cs |-> <<8, 8>>, transaction_num |-> <<7, 0>>]>>,
    <<"op_flags_size", 2, [op |-> <<15, 15>>, rsp |-> <<14, 14>>,
    err |-> <<13, 13>>, ms |-> <<12, 12>>,
    read_size_segment_num |-> <<11, 0>>]>>>>)

AcfByteBusBriefMessage ==
  Acf(14, 8, 0, Rest(8), "field", <<
    <<"pad_mtv_rsv_bus", 2, [pad |-> <<15, 14>>, mtv |-> <<13, 13>>,
    byte_bus_id |-> <<10, 0>>]>>, <<"evt_flags_txn", 2, [evt |-> <<15, 12>>,
    hs |-> <<9, 9>>, cs |-> <<8, 8>>, transaction_num |-> <<7, 0>>]>>,
    <<"op_flags_size", 2, [op |-> <<15, 15>>, rsp |-> <<14, 14>>,
    err |-> <<13, 13>>, ms |-> <<12, 12>>,
    read_size_segment_num |-> <<11, 0>>]>>>>)

AcfCanMessage ==
  Acf(1, 16, 0, 16, "field", <<
    <<"pad_mtv_flags", 1, [pad |-> <<7, 6>>, mtv |-> <<5, 5>>,
    rtr |-> <<4, 4>>, eff |-> <<3, 3>>, brs |-> <<2, 2>>, fdf |-> <<1, 1>>,
    esi |-> <<0, 0>>]>>, <<"rsv_bus", 1, [can_bus_id |-> <<4, 0>>]>>,
    <<"message_timestamp", 8>>,
    <<"identifier", 4, [can_identifier |-> <<28, 0>>]>>>>)

AcfCanBriefMessage ==
  Acf(2, 8, 0, 16, "field", <<
    <<"pad_mtv_flags", 1, [pad |-> <<7, 6>>, mtv |-> <<5, 5>>,
    rtr |-> <<4, 4>>, eff |-> <<3, 3>>, brs |-> <<2, 2>>, fdf |-> <<1, 1>>,
    esi |-> <<0, 0>>]>>, <<"rsv_bus", 1, [can_bus_id |-> <<4, 0>>]>>,
    <<"identifier", 4, [can_identifier |-> <<28, 0>>]>>>>)

AcfCanV2Message ==
  Acf(33, 16, 0, 16, "field", <<
    <<"pad_mtv_flags_bus", 2, [pad |-> <<15, 14>>, mtv |-> <<13, 13>>,
    rtr |-> <<12, 12>>, eff |-> <<11, 11>>, can_bus_id |-> <<10, 0>>]>>,
    <<"message_timestamp", 8>>, <<"flags_identifier", 4, [brs |-> <<31, 31>>,
    fdf |-> <<30, 30>>, esi |-> <<29, 29>>, can_identifier |-> <<28, 0>>]>>>>)

AcfCanBriefV2Message ==
  Acf(34, 8, 0, 16, "field", <<
    <<"pad_mtv_flags_bus", 2, [pad |-> <<15, 14>>, mtv |-> <<13, 13>>,
    rtr |-> <<12, 12>>, eff |-> <<11, 11>>, can_bus_id |-> <<10, 0>>]>>,
    <<"flags_identifier", 4, [brs |-> <<31, 31>>, fdf |-> <<30, 30>>,
    esi |-> <<29, 29>>, can_identifier |-> <<28, 0>>]>>>>)

AcfCanXlMessage ==
  Acf(17, 24, 1, Rest(24), "field", <<
    <<"pad_mtv_rsv_bus", 2, [pad |-> <<15, 14>>, mtv |-> <<13, 13>>,
    can_bus_id |-> <<10, 0>>]>>, <<"message_timestamp", 8>>, <<"vcid", 1>>,
    <<"sdt", 1>>, <<"flags_priority", 2, [rrs |-> <<12, 12>>,
    sec |-> <<11, 11>>, priority_id |-> <<10, 0>>]>>,
    <<"acceptance_field", 4>>, <<"reserved1", 1>>, <<"transaction_num", 1>>,
    <<"ms_segment", 2, [ms |-> <<12, 12>>, segment_num |-> <<11, 0>>]>>>>)

AcfCanXlBriefMessage ==
  Acf(18, 16, 1, Rest(16), "field", <<
    <<"pad_mtv_rsv_bus", 2, [pad |-> <<15, 14>>, mtv |-> <<13, 13>>,
    can_bus_id |-> <<10, 0>>]>>, <<"vcid", 1>>, <<"sdt", 1>>,
    <<"flags_priority", 2, [rrs |-> <<12, 12>>, sec |-> <<11, 11>>,
    priority_id |-> <<10, 0>>]>>, <<"acceptance_field", 4>>,
    <<"reserved1", 1>>, <<"transaction_num", 1>>,
    <<"ms_segment", 2, [ms |-> <<12, 12>>, segment_num |-> <<11, 0>>]>>>>)

AcfChecksumMessage ==
  Acf(118, 4, 0, 0, "none", <<
    <<"checksum", 2>>>>)

AcfCrcMessage ==
  Acf(119, 4, 1, Rest(4), "none", <<
    <<"reserved_crc_type", 2, [crc_type |-> <<3, 0>>]>>>>)

AcfFlexrayMessage ==
  Acf(0, 16, 0, 64, "field", <<
    <<"pad_mtv_bus", 1, [pad |-> <<7, 6>>, mtv |-> <<5, 5>>,
    fr_bus_id |-> <<4, 0>>]>>, <<"chan_flags", 1, [chan |-> <<5, 4>>,
    str |-> <<3, 3>>, syn |-> <<2, 2>>, pre |-> <<1, 1>>, nfi |-> <<0, 0>>]>>,
    <<"message_timestamp", 8>>,
    <<"frame_id_cycle", 4, [fr_frame_id |-> <<31, 21>>, cycle |-> <<5, 0>>]>>>>)

AcfGpcMessage ==
  Acf(5, 8, 0, Rest(8), "none", <<
    <<"gpc_msg_id", 6>>>>)

AcfI2cMessage ==
  Acf(15, 16, 0, 0, "none", <<
    <<"pad_mtv_rsv_bus", 2, [pad_bits |-> <<15, 14>>, mtv |-> <<13, 13>>,
    i2c_bus_id |-> <<10, 0>>]>>, <<"message_timestamp", 8>>,
    <<"code_trr_txn", 2, [i2c_code |-> <<15, 12>>, trr |-> <<11, 11>>,
    transaction_num |-> <<7, 0>>]>>, <<"evt_exc_data", 2, [evt |-> <<15, 12>>,
    exception_code |-> <<11, 8>>, i2c_data |-> <<7, 0>>]>>>>)

AcfI2cBriefMessage ==
  Acf(16, 8, 0, 0, "none", <<
    <<"pad_mtv_rsv_bus", 2, [pad_bits |-> <<15, 14>>, mtv |-> <<13, 13>>,
    i2c_bus_id |-> <<10, 0>>]>>, <<"code_trr_txn", 2, [i2c_code |-> <<15, 12>>,
    trr |-> <<11, 11>>, transaction_num |-> <<7, 0>>]>>,
    <<"evt_exc_data", 2, [evt |-> <<15, 12>>, exception_code |-> <<11, 8>>,
    i2c_data |-> <<7, 0>>]>>>>)

AcfLinMessage ==
  Acf(3, 12, 0, 2, "field", <<
    <<"pad_mtv_bus", 1, [pad |-> <<7, 6>>, mtv |-> <<5, 5>>,
    lin_bus_id |-> <<4, 0>>]>>, <<"lin_identifier", 1>>,
    <<"message_timestamp", 8>>>>)

AcfLinV2Message ==
  Acf(35, 16, 0, 2, "field", <<
    <<"pad_mtv_rsv_bus", 2, [pad |-> <<15, 14>>, mtv |-> <<13, 13>>,
    lin_bus_id |-> <<10, 0>>]>>, <<"message_timestamp", 8>>,
    <<"reserved_identifier", 4, [lin_identifier |-> <<7, 0>>]>>>>)

AcfMostMessage ==
  Acf(4, 20, 0, Rest(20), "field", <<
    <<"pad_mtv_net", 1, [pad |-> <<7, 6>>, mtv |-> <<5, 5>>,
    most_net_id |-> <<4, 0>>]>>, <<"reserved0", 1>>,
    <<"message_timestamp", 8>>, <<"device_id", 2>>, <<"fblock_id", 1>>,
    <<"inst_id", 1>>, <<"func_op", 2, [func_id |-> <<15, 4>>,
    op_type |-> <<3, 0>>]>>, <<"reserved1", 2>>>>)

AcfParallelMessage ==
  Acf(7, 4, 1, 8, "derived", <<
    <<"reserved0", 1>>, <<"bit_width", 1>>>>)

AcfSensorMessage ==
  Acf(8, 12, 1, 128, "derived", <<
    <<"mtv_num", 1, [mtv |-> <<7, 7>>, num_sensors |-> <<6, 0>>]>>,
    <<"sz_group", 1, [sz |-> <<7, 6>>, sensor_group |-> <<5, 0>>]>>,
    <<"message_timestamp", 8>>>>)

AcfSensorBriefMessage ==
  Acf(9, 4, 1, 128, "derived", <<
    <<"mtv_num", 1, [mtv |-> <<7, 7>>, num_sensors |-> <<6, 0>>]>>,
    <<"sz_group", 1, [sz |-> <<7, 6>>, sensor_group |-> <<5, 0>>]>>>>)

AcfSerialMessage ==
  Acf(6, 4, 0, Rest(4), "field", <<
    <<"pad_reserved_flags", 2, [pad |-> <<15, 14>>, dcd |-> <<5, 5>>,
    dtr |-> <<4, 4>>, dsr |-> <<3, 3>>, rts |-> <<2, 2>>, cts |-> <<1, 1>>,
    ri |-> <<0, 0>>]>>>>)

\* The messages a talker may put into a container.
DataMessages ==
  {AcfAecpMessage, AcfAncillaryMessage, AcfByteBusMessage,
   AcfByteBusBriefMessage, AcfCanMessage, AcfCanBriefMessage, AcfCanV2Message,
   AcfCanBriefV2Message, AcfCanXlMessage, AcfCanXlBriefMessage,
   AcfFlexrayMessage, AcfGpcMessage, AcfI2cMessage, AcfI2cBriefMessage,
   AcfLinMessage, AcfLinV2Message, AcfMostMessage, AcfParallelMessage,
   AcfSensorMessage, AcfSensorBriefMessage, AcfSerialMessage}

\* The messages that check the message before them.
TrailerMessages == {AcfChecksumMessage, AcfCrcMessage}

-----------------------------------------------------------------------------
(***************************************************************************)
(* One TSCF or NTSCF frame of AVTP Control Format messages, from the       *)
(* talker that builds the messages one after the other into it, over a     *)
(* network that may pad, cut or damage it, to the listener that walks it   *)
(* with AcfMessageWalker::next_verified and parses each message with       *)
(* acf_parse_typed.                                                        *)
(*                                                                         *)
(* Lengths and offsets are octets, as in the code.  What a payload says is *)
(* left out: an item of the frame keeps its type, its payload octets and   *)
(* what its header and its pad field say.  A checksum or CRC is ideal: it  *)
(* matches exactly the octets it was computed over.                        *)
(***************************************************************************)
CONSTANTS
  AcfRoom,        \* octets of acf_payload_data a talker's buffer has
  AcfMaxItems,    \* messages and trailers in one frame
  AcfMaxJunk      \* results out of payload octets before the model stops

VARIABLES
  acfKind,     \* the container format
  acfItems,    \* what the talker stored, in order
  acfPhase,    \* "build", "wire" or "walk"
  acfFault,    \* what the network did to the frame
  acfSize,     \* octets of acf_payload_data the listener got
  acfAt,       \* octets the walker has consumed
  acfBad,      \* AcfMessageWalker::malformed_
  acfGot       \* what the listener was handed

acfVars == <<acfKind, acfItems, acfPhase, acfFault, acfSize, acfAt, acfBad,
             acfGot>>

\* Header octets, and the modulus of the field that declares the payload.
Containers ==
  [tscf     |-> [header |-> 24, modulus |-> 2 ^ 16],
   tscf_v1  |-> [header |-> 40, modulus |-> 2 ^ 16],
   ntscf    |-> [header |-> 12, modulus |-> 2 ^ 11],
   ntscf_v1 |-> [header |-> 28, modulus |-> 2 ^ 11]]

EthernetMinimum == 46

acf_quadlets_for_octets(octets) ==
  (octets + (ACF_QUADLET_OCTETS - 1)) \div ACF_QUADLET_OCTETS

\* Mutant: a full quadlet of padding where none is needed.
acf_pad_for_octets_mut(octets) ==
  ACF_QUADLET_OCTETS - (octets % ACF_QUADLET_OCTETS)

acf_pad_for_octets(octets) ==
  (ACF_QUADLET_OCTETS - (octets % ACF_QUADLET_OCTETS)) % ACF_QUADLET_OCTETS

CHECKSUM == AcfChecksumMessage.type
CRC == AcfCrcMessage.type
crc_eth == 0
crc_32p4 == 1
crc_user == 15

IsTrailer(type) == type \in {CHECKSUM, CRC}

\* is_valid of a typed message: the length within the type's bounds and, for
\* a type without pad field, exactly what its fields say the payload needs.
is_valid(m, octets, need) ==
  /\ octets >= m.len + m.min * ACF_QUADLET_OCTETS
  /\ octets <= m.len + m.max * ACF_QUADLET_OCTETS
  /\ m.pad = "derived" =>
       octets = m.len + acf_quadlets_for_octets(need) * ACF_QUADLET_OCTETS

MessageOf ==
  [type \in {m.type : m \in DataMessages} |->
     CHOOSE m \in DataMessages : m.type = type]

Used(items) ==
  IF items = <<>> THEN 0 ELSE Last(items).at + Last(items).octets

-----------------------------------------------------------------------------
(* The talker *)

AcfInit ==
  /\ acfKind \in DOMAIN Containers
  /\ acfItems = <<>> /\ acfPhase = "build" /\ acfFault = [how |-> "none"]
  /\ acfSize = 0 /\ acfAt = 0 /\ acfBad = FALSE /\ acfGot = <<>>

Store(type, octets, payload, pad, crc) ==
  acfItems' = Append(acfItems,
    [type |-> type, at |-> Used(acfItems), octets |-> octets,
     payload |-> payload, pad |-> pad, crc |-> crc])

\* acf_build_typed: a message its checks refuse leaves the buffer as it was.
acf_build_typed(m, payload) ==
  LET quadlets == acf_quadlets_for_octets(m.len + payload)
      total == quadlets * ACF_QUADLET_OCTETS
  IN  /\ acfPhase = "build" /\ Len(acfItems) < AcfMaxItems
      /\ quadlets <= ACF_MSG_LENGTH_MAX_QUADLETS
      /\ total <= AcfRoom - Used(acfItems)
      /\ is_valid(m, total, payload)
      /\ Store(m.type, total, payload,
               IF m.pad = "field" THEN acf_pad_for_octets(payload) ELSE 0, 0)
      /\ UNCHANGED <<acfKind, acfPhase, acfFault, acfSize, acfAt, acfBad,
                     acfGot>>

\* acf_checksum_build or acf_crc_build over the message before it.  This
\* code builds no crc_user trailer; another talker may.
BuildTrailer(type, crc) ==
  LET octets == IF type = CHECKSUM THEN 4 ELSE 8
  IN  /\ acfPhase = "build" /\ Len(acfItems) \in 1 .. AcfMaxItems - 1
      /\ ~IsTrailer(Last(acfItems).type)
      /\ octets <= AcfRoom - Used(acfItems)
      /\ Store(type, octets, octets - 4, 0, crc)
      /\ UNCHANGED <<acfKind, acfPhase, acfFault, acfSize, acfAt, acfBad,
                     acfGot>>

\* The frame goes out with its payload length declared.
AcfSend ==
  /\ acfPhase = "build" /\ acfItems # <<>>
  /\ acfPhase' = "wire"
  /\ UNCHANGED <<acfKind, acfItems, acfFault, acfSize, acfAt, acfBad, acfGot>>

-----------------------------------------------------------------------------
(* The network, and the container's payload getter *)

Declared == Used(acfItems) % Containers[acfKind].modulus

\* tscf_get_acf_payload and its siblings on a frame of this many octets.
get_acf_payload(frame) ==
  LET available == frame - Containers[acfKind].header
  IN  IF available <= 0 THEN 0
      ELSE IF Declared < available THEN Declared ELSE available

Frame == Containers[acfKind].header + Used(acfItems)

\* The frame arrives, damaged as acfFault' says.
Arrive(frame) ==
  /\ acfPhase = "wire" /\ acfPhase' = "walk"
  /\ acfSize' = get_acf_payload(frame)
  /\ UNCHANGED <<acfKind, acfItems, acfAt, acfBad, acfGot>>

\* Intact, with Ethernet's padding of short frames.
ArriveIntact ==
  /\ acfFault' = [how |-> "none"]
  /\ Arrive(IF Frame < EthernetMinimum THEN EthernetMinimum ELSE Frame)

\* Cut short: everything after `keep` octets of the frame is lost.
ArriveCut(keep) ==
  /\ keep < Frame
  /\ acfFault' = [how |-> "cut", keep |-> keep]
  /\ Arrive(keep)

\* Octets after the header of item i are changed on the way.
ArriveDamaged(i) ==
  /\ acfFault' = [how |-> "damage", item |-> i]
  /\ Arrive(Frame)

\* The length in the header of item i is changed on the way.
ArriveWrongLength(i, quadlets) ==
  /\ quadlets * ACF_QUADLET_OCTETS # acfItems[i].octets
  /\ acfFault' = [how |-> "length", item |-> i, quadlets |-> quadlets]
  /\ Arrive(Frame)

-----------------------------------------------------------------------------
(* The listener *)

Spoiled(i) == acfFault.how \in {"damage", "length"} /\ acfFault.item = i

\* What the octets at offset `at` can say as a message header.  Away from
\* the headers the talker stored they are payload and may say anything.
HeadersAt(at) ==
  LET here == {i \in DOMAIN acfItems : acfItems[i].at = at}
  IN  IF at + 2 > acfSize THEN {}
      ELSE IF here # {} THEN
        {[item |-> i, type |-> acfItems[i].type,
          octets |-> IF Spoiled(i) /\ acfFault.how = "length"
                     THEN acfFault.quadlets * ACF_QUADLET_OCTETS
                     ELSE acfItems[i].octets] : i \in here}
      ELSE {[item |-> 0, type |-> t, octets |-> q * ACF_QUADLET_OCTETS] :
              t \in {AcfGpcMessage.type, CRC}, q \in {0, 2}}

\* acf_parse_message at `at`: is this header's message wholly there?
acf_parse_message(header, at) ==
  header.octets >= ACF_QUADLET_OCTETS /\ header.octets <= acfSize - at

\* What the fields of a message can say of its payload: the pad, and the
\* octets it needs.  Damage may change both.
FieldsOf(header, m) ==
  LET padded == header.octets - m.len
  IN  IF header.item = 0 THEN [pad : {0, 3}, need : {padded}]
      ELSE LET it == acfItems[header.item]
           IN  IF Spoiled(header.item) /\ acfFault.how = "damage"
               THEN [pad : {0, 3}, need : {it.payload, it.payload + 4}]
               ELSE [pad : {it.pad}, need : {it.payload}]

\* acf_parse_typed: the payload octets handed to the application, or -1.
acf_parse_typed(octets, m, fields) ==
  LET padded == octets - m.len
      pad == IF m.pad = "field" THEN fields.pad
             ELSE IF m.pad = "derived" THEN padded - fields.need ELSE 0
  IN  IF octets < m.len \/ ~is_valid(m, octets, fields.need) \/ pad > padded
      THEN -1 ELSE padded - pad

\* Does a trailer match: is it this item's own, and are both untouched?
Matches(message, trailer) ==
  /\ message.item # 0 /\ trailer.item = message.item + 1
  /\ ~Spoiled(message.item) /\ ~Spoiled(trailer.item)

\* acf_crc_compute knows two polynomials; crc32 wants one data quadlet.
Computable(trailer) ==
  /\ trailer.octets = 8
  /\ trailer.item # 0 => acfItems[trailer.item].crc \in {crc_eth, crc_32p4}

\* The verdict of next_verified on the trailer it consumed.
TrailerStatus(message, trailer) ==
  IF trailer.type = CHECKSUM
    THEN IF trailer.octets # 4 THEN "trailer_malformed"
         ELSE IF Matches(message, trailer) THEN "checksum_ok"
         ELSE "checksum_bad"
    ELSE IF trailer.octets < 8 THEN "trailer_malformed"
         ELSE IF ~Computable(trailer) THEN "crc_unsupported"
         ELSE IF Matches(message, trailer) THEN "crc_ok" ELSE "crc_bad"

acf_ok(status) == status \in {"none", "checksum_ok", "crc_ok"}

Walking == acfPhase = "walk" /\ ~acfBad /\ acfAt < acfSize
           /\ Len(SelectSeq(acfGot, LAMBDA r : r.item = 0)) < AcfMaxJunk

\* One result: the message at acfAt, its trailer's verdict, and the octets
\* consumed, the trailer's included when there was one.  A trailer in the
\* place of a message is no message the application parses.
HandUp(header, status, consumed) ==
  \E octets \in
      IF IsTrailer(header.type) THEN {-1}
      ELSE {acf_parse_typed(header.octets, MessageOf[header.type], fields) :
              fields \in FieldsOf(header, MessageOf[header.type])} :
    /\ acfGot' = Append(acfGot,
         [item |-> header.item, status |-> status, octets |-> octets])
    /\ acfAt' = acfAt + consumed
    /\ UNCHANGED <<acfKind, acfItems, acfPhase, acfFault, acfSize, acfBad>>

\* next_verified with no message left that parses: the walk ends.
WalkMalformed ==
  /\ Walking
  /\ HeadersAt(acfAt) = {}
       \/ \E h \in HeadersAt(acfAt) : ~acf_parse_message(h, acfAt)
  /\ acfBad' = TRUE
  /\ UNCHANGED <<acfKind, acfItems, acfPhase, acfFault, acfSize, acfAt, acfGot>>

\* next_verified: the message, and the trailer after it when one follows.
next_verified ==
  /\ Walking
  /\ \E h \in HeadersAt(acfAt) :
       LET after == acfAt + h.octets
           following == {f \in HeadersAt(after) : acf_parse_message(f, after)}
       IN  /\ acf_parse_message(h, acfAt)
           /\ \/ /\ \/ after = acfSize \/ following # HeadersAt(after)
                    \/ HeadersAt(after) = {}
                    \/ \E f \in following : ~IsTrailer(f.type)
                 /\ HandUp(h, "none", h.octets)
              \/ \E f \in following :
                   /\ IsTrailer(f.type)
                   /\ HandUp(h, TrailerStatus(h, f), h.octets + f.octets)

-----------------------------------------------------------------------------
(* What the listener may rely on *)

Messages == SelectSeq([i \in DOMAIN acfItems |-> i],
                      LAMBDA i : ~IsTrailer(acfItems[i].type))

\* The payload octets the talker meant: exact where the message can say so,
\* whole quadlets where it cannot.
Meant(i) ==
  LET it == acfItems[i]
  IN  IF MessageOf[it.type].pad = "none"
      THEN acf_quadlets_for_octets(it.payload) * ACF_QUADLET_OCTETS
      ELSE it.payload

HasTrailer(i) == i + 1 \in DOMAIN acfItems /\ IsTrailer(acfItems[i + 1].type)

\* The verdict an untouched message earns.
Earned(i) ==
  IF ~HasTrailer(i) THEN "none"
  ELSE IF acfItems[i + 1].type = CHECKSUM THEN "checksum_ok"
  ELSE IF acfItems[i + 1].crc = crc_user THEN "crc_unsupported" ELSE "crc_ok"

Walked == acfPhase = "walk" /\ acfAt = acfSize

\* AcfFaithful: the walker never leaves the payload.  Of an untouched or cut
\* frame the listener is handed the talker's messages, in order, with their
\* payloads at their original length; an untouched frame wholly, each message
\* with the verdict it earned.  A message a checksum or CRC vouches for is
\* one the talker sent, untouched.  A damaged message whose trailer came
\* through is flagged, so it is not acted on.  A wrong length spoils nothing
\* before it.  This is about acf_build_typed, the container payload getters,
\* next_verified and acf_parse_typed taken together.
AcfFaithful ==
  /\ acfAt <= acfSize
  /\ \A k \in DOMAIN acfGot :
       LET r == acfGot[k]
       IN  /\ acfFault.how \in {"none", "cut"} =>
                /\ k <= Len(Messages) /\ r.item = Messages[k]
                /\ r.octets = Meant(r.item)
                /\ r.status \in {Earned(r.item), "none"}
           /\ r.status \in {"checksum_ok", "crc_ok"} =>
                /\ r.item # 0 /\ ~Spoiled(r.item)
                /\ r.status = Earned(r.item) /\ r.octets = Meant(r.item)
           /\ acfFault.how = "damage" =>
                (r.item = acfFault.item /\ HasTrailer(r.item)
                   => ~acf_ok(r.status))
           /\ acfFault.how = "length" =>
                (k <= Len(Messages) /\ Messages[k] < acfFault.item
                   => r.item = Messages[k] /\ r.octets = Meant(r.item))
  /\ acfFault.how = "none" /\ acfPhase = "walk" =>
       /\ ~acfBad
       /\ Walked => /\ Len(acfGot) = Len(Messages)
                    /\ \A k \in DOMAIN acfGot :
                         acfGot[k].status = Earned(acfGot[k].item)
=============================================================================
