---------------------------- MODULE ControlPdus ----------------------------
(***************************************************************************)
(* The headers of the control protocols: ACMP, ADP, AECP with AEM and      *)
(* Address Access, the vendor blobs, MRP, MSRP and MVRP, and gPTP with its *)
(* TLVs.                                                                   *)
(***************************************************************************)
EXTENDS WireFields
LOCAL INSTANCE TLC

AcmpDu ==
  Layout(56, <<
    <<"subtype", 1>>, <<"sv_version_msgtype", 1, [sv |-> <<7, 7>>,
    version |-> <<6, 4>>, message_type |-> <<3, 0>>]>>,
    <<"status_cdl", 2, [status |-> <<15, 11>>,
    control_data_length |-> <<10, 0>>]>>, <<"stream_id", 8>>,
    <<"controller_entity_id", 8>>, <<"talker_entity_id", 8>>,
    <<"listener_entity_id", 8>>, <<"talker_unique_id", 2>>,
    <<"listener_unique_id", 2>>, <<"stream_dest_mac", 6>>,
    <<"connection_count", 2>>, <<"sequence_id", 2>>,
    <<"flags", 2, [udp |-> <<9, 9>>, no_srp |-> <<8, 8>>,
    cl_entries_valid |-> <<7, 7>>, talker_failed |-> <<6, 6>>,
    encrypted_pdu |-> <<5, 5>>, supports_encrypted |-> <<4, 4>>,
    streaming_wait |-> <<3, 3>>, saved_state |-> <<2, 2>>,
    fast_connect |-> <<1, 1>>, class_b |-> <<0, 0>>]>>,
    <<"stream_vlan_id", 2>>, <<"connected_listeners_entries", 2>>>>)

AcmpDuFormat ==
  Format(AcmpDu,
    [t \in 1..14 |-> [subtype |-> 252, message_type |-> t - 1,
                    control_data_length |-> 44]],
    <<[subtype |-> {252}, control_data_length |-> 44..2047,
       message_type |-> 0..13]>>)

AcmpDu2021 ==
  Layout(96, <<
    <<"subtype", 1>>, <<"sv_version_msgtype", 1, [sv |-> <<7, 7>>,
    version |-> <<6, 4>>, message_type |-> <<3, 0>>]>>,
    <<"status_cdl", 2, [status |-> <<15, 11>>,
    control_data_length |-> <<10, 0>>]>>, <<"stream_id", 8>>,
    <<"controller_entity_id", 8>>, <<"talker_entity_id", 8>>,
    <<"listener_entity_id", 8>>, <<"talker_unique_id", 2>>,
    <<"listener_unique_id", 2>>, <<"stream_dest_mac", 6>>,
    <<"connection_count", 2>>, <<"sequence_id", 2>>,
    <<"flags", 2, [udp |-> <<9, 9>>, no_srp |-> <<8, 8>>,
    cl_entries_valid |-> <<7, 7>>, talker_failed |-> <<6, 6>>,
    encrypted_pdu |-> <<5, 5>>, supports_encrypted |-> <<4, 4>>,
    streaming_wait |-> <<3, 3>>, saved_state |-> <<2, 2>>,
    fast_connect |-> <<1, 1>>, class_b |-> <<0, 0>>]>>,
    <<"stream_vlan_id", 2>>, <<"connected_listeners_entries", 2>>,
    <<"ip_flags", 2>>, <<"_", 2>>, <<"source_port", 2>>,
    <<"destination_port", 2>>, <<"source_ip_address", 16>>,
    <<"destination_ip_address", 16>>>>)

AcmpDu2021Format ==
  Format(AcmpDu2021,
    [t \in 1..14 |-> [subtype |-> 252, message_type |-> t - 1,
                    control_data_length |-> 84]],
    <<[subtype |-> {252}, control_data_length |-> 84..2047,
       message_type |-> 0..13]>>)

AdpDu ==
  Layout(68, <<
    <<"subtype", 1>>, <<"sv_version_msgtype", 1, [sv |-> <<7, 7>>,
    version |-> <<6, 4>>, message_type |-> <<3, 0>>]>>,
    <<"valid_time_cdl", 2, [valid_time |-> <<15, 11>>,
    control_data_length |-> <<10, 0>>]>>, <<"entity_id", 8>>,
    <<"entity_model_id", 8>>, <<"entity_capabilities", 4>>,
    <<"talker_stream_sources", 2>>, <<"talker_capabilities", 2>>,
    <<"listener_stream_sinks", 2>>, <<"listener_capabilities", 2>>,
    <<"controller_capabilities", 4>>, <<"available_index", 4>>,
    <<"gptp_grandmaster_id", 8>>, <<"gptp_domain_number", 1>>, <<"_", 1>>,
    <<"current_configuration_index", 2>>, <<"identify_control_index", 2>>,
    <<"interface_index", 2>>, <<"association_id", 8>>, <<"_", 4>>>>)

AdpDuFormat ==
  Format(AdpDu,
    <<[subtype |-> 250, valid_time |-> 31, control_data_length |-> 56],
      [subtype |-> 250, message_type |-> 1, control_data_length |-> 56],
      [subtype |-> 250, message_type |-> 2, control_data_length |-> 56]>>,
    <<[subtype |-> {250}, control_data_length |-> 56..2047,
       message_type |-> 0..2]>>)

AecpDuCommon ==
  Layout(22, <<
    <<"subtype", 1>>, <<"sv_version_msgtype", 1, [sv |-> <<7, 7>>,
    version |-> <<6, 4>>, message_type |-> <<3, 0>>]>>,
    <<"status_cdl", 2, [status |-> <<15, 11>>,
    control_data_length |-> <<10, 0>>]>>, <<"target_entity_id", 8>>,
    <<"controller_entity_id", 8>>, <<"sequence_id", 2>>>>)

AecpDuCommonFormat ==
  Format(AecpDuCommon,
    [t \in 1..10 |-> [subtype |-> 251, message_type |-> t - 1,
                    control_data_length |-> 12]],
    <<[subtype |-> {251}, control_data_length |-> 10..524,
       message_type |-> 0..9 \cup {14, 15}]>>)

AecpAaDu ==
  Layout(24, AecpDuCommon.members \o <<<<"tlv_count", 2>>>>)

AecpAaDuFormat ==
  Format(AecpAaDu,
    [t \in 1..2 |-> [subtype |-> 251, message_type |-> t + 1,
                   control_data_length |-> 22, tlv_count |-> 1]],
    <<[subtype |-> {251}, control_data_length |-> 10..524,
       message_type |-> {2, 3}]>>)

AaTlvHeader ==
  Layout(10, <<
    <<"mode_length", 2, [mode |-> <<15, 12>>, length |-> <<11, 0>>]>>,
    <<"address", 8>>>>)

AemDu ==
  Layout(24, <<
    <<"subtype", 1>>, <<"sv_version_msgtype", 1, [sv |-> <<7, 7>>,
    version |-> <<6, 4>>, message_type |-> <<3, 0>>]>>,
    <<"status_cdl", 2, [status |-> <<15, 11>>,
    control_data_length |-> <<10, 0>>]>>, <<"target_entity_id", 8>>,
    <<"controller_entity_id", 8>>, <<"sequence_id", 2>>,
    <<"command_type", 2, [unsolicited |-> <<15, 15>>,
    controller_request |-> <<14, 14>>, command_code |-> <<13, 0>>]>>>>)

AemDuFormat ==
  Format(AemDu,
    [t \in 1..2 |-> [subtype |-> 251, message_type |-> t - 1,
                   control_data_length |-> 16, command_code |-> 4]],
    <<[subtype |-> {251}, control_data_length |-> 12..524,
       message_type |-> {0, 1}]>>)

LogBlobHeader ==
  Layout(14, <<
    <<"vendor_eui64", 8>>, <<"blob_size", 4>>, <<"log_detail", 1>>, <<"_", 1>>>>)

Ipv4ParamsBlob ==
  Layout(32, <<
    <<"interface_descriptor_type", 2>>, <<"interface_descriptor_index", 2>>,
    <<"flags", 4, [is_broadcast_valid |-> <<6, 6>>,
    is_gateway_valid |-> <<5, 5>>, is_netmask_valid |-> <<4, 4>>,
    is_address_valid |-> <<3, 3>>, is_dhcp_enabled |-> <<2, 2>>,
    is_link_local_enabled |-> <<1, 1>>, is_static_enabled |-> <<0, 0>>]>>,
    <<"ipv4_address", 4>>, <<"ipv4_netmask", 4>>, <<"ipv4_gateway", 4>>,
    <<"ipv4_broadcast", 4>>, <<"ipv4_dnsserver1", 4>>, <<"ipv4_dnsserver2", 4>>>>)

AttributeListHeader ==
  Layout(2, <<
    <<"attribute_type", 1>>, <<"attribute_length", 1>>>>)

VectorAttributeHeader ==
  Layout(2, <<
    <<"vector_header", 2, [leave_all |-> <<13, 13>>,
    number_of_values |-> <<12, 0>>]>>>>)

DomainFirstValue ==
  Layout(4, <<
    <<"sr_class_id", 1>>, <<"sr_class_priority", 1>>, <<"sr_class_vid", 2>>>>)

ListenerFirstValue ==
  Layout(8, <<
    <<"stream_id", 8>>>>)

TalkerAdvertiseFirstValue ==
  Layout(25, <<
    <<"stream_id", 8>>, <<"destination_address", 6>>, <<"vlan_identifier", 2>>,
    <<"max_frame_size", 2>>, <<"max_interval_frames", 2>>,
    <<"priority_and_rank", 1, [priority |-> <<7, 5>>, rank |-> <<4, 4>>]>>,
    <<"accumulated_latency", 4>>>>)

TalkerFailedFirstValue ==
  Layout(34, TalkerAdvertiseFirstValue.members \o
    <<<<"failure_bridge_id", 8>>, <<"failure_code", 1>>>>)

VlanIdentifierFirstValue ==
  Layout(2, <<
    <<"vlan_identifier", 2>>>>)

SourcePortIdentity ==
  Layout(10, <<
    <<"clock_identity", 8>>, <<"port_number", 2>>>>)

Timestamp ==
  Layout(10, <<
    <<"seconds_field", 6>>, <<"nanoseconds_field", 4>>>>)

ClockQuality ==
  Layout(4, <<
    <<"clock_class", 1>>, <<"clock_accuracy", 1>>,
    <<"offset_scaled_log_variance", 2>>>>)

\* The message types with a structure of their own, in the order of the
\* structures below.
GptpTypes == <<0, 8, 2, 3, 10, 11, 12>>

\* MessageHeader::init for the t-th of them: controlField is 0 for Sync, 2
\* for Follow_Up and 5 for the others.
GptpInit(t, length) ==
  [major_sdo_id |-> 1, message_type |-> GptpTypes[t], version_ptp |-> 2,
   message_length |-> length, flags |-> 8,
   control_field |-> <<0, 2, 5, 5, 5, 5, 5>>[t]]

GptpValid ==
  [major_sdo_id |-> {1}, version_ptp |-> {2},
   message_type |-> 0..3 \cup 8..13, message_length |-> 34..65535]

MessageHeader ==
  Layout(34, <<
    <<"sdo_id_message_type", 1, [major_sdo_id |-> <<7, 4>>,
    message_type |-> <<3, 0>>]>>,
    <<"version", 1, [minor_version_ptp |-> <<7, 4>>,
    version_ptp |-> <<3, 0>>]>>, <<"message_length", 2>>,
    <<"domain_number", 1>>, <<"minor_sdo_id", 1>>, <<"flags", 2>>,
    <<"correction_field_raw", 8>>, <<"message_type_specific", 4>>,
    <<"source_port_identity", 10>>, <<"sequence_id", 2>>,
    <<"control_field", 1>>, <<"log_message_interval", 1>>>>)

MessageHeaderFormat ==
  Format(MessageHeader,
    [t \in 1..Len(GptpTypes) |-> GptpInit(t, 34)],
    <<GptpValid>>)

SyncMessage ==
  Layout(44, MessageHeader.members \o <<
    <<"origin_timestamp", 10>>>>)

FollowUpMessage ==
  Layout(44, MessageHeader.members \o <<
    <<"precise_origin_timestamp", 10>>>>)

PdelayReqMessage ==
  Layout(54, MessageHeader.members \o <<
    <<"origin_timestamp", 10>>, <<"_", 10>>>>)

PdelayRespMessage ==
  Layout(54, MessageHeader.members \o <<
    <<"request_receipt_timestamp", 10>>, <<"requesting_port_identity", 10>>>>)

PdelayRespFollowUpMessage ==
  Layout(54, MessageHeader.members \o <<
    <<"response_origin_timestamp", 10>>, <<"requesting_port_identity", 10>>>>)

AnnounceMessage ==
  Layout(64, MessageHeader.members \o <<
    <<"origin_timestamp", 10>>, <<"current_utc_offset", 2>>, <<"_", 1>>,
    <<"grandmaster_priority1", 1>>, <<"grandmaster_clock_quality", 4>>,
    <<"grandmaster_priority2", 1>>, <<"grandmaster_identity", 8>>,
    <<"steps_removed", 2>>, <<"time_source", 1>>>>)

SignalingMessage ==
  Layout(44, MessageHeader.members \o <<
    <<"target_port_identity", 10>>>>)

ScaledNs ==
  Layout(12, <<
    <<"integer_high", 2>>, <<"integer_low", 8>>, <<"fraction", 2>>>>)

TlvHeader ==
  Layout(4, <<
    <<"tlv_type", 2>>, <<"length_field", 2>>>>)

FollowUpInformationTLV ==
  Layout(32, TlvHeader.members \o <<
    <<"organization_id", 3>>, <<"organization_sub_type", 3>>,
    <<"cumulative_scaled_rate_offset", 4>>, <<"gm_time_base_indicator", 2>>,
    <<"last_gm_phase_change", 12>>, <<"scaled_last_gm_freq_change", 4>>>>)

FollowUpInformationTLVFormat ==
  Format(FollowUpInformationTLV,
    <<[tlv_type |-> 3, length_field |-> 28, organization_id |-> 32962,
       organization_sub_type |-> 1]>>,
    <<[tlv_type |-> {3}, length_field |-> {28}, organization_id |-> {32962},
       organization_sub_type |-> {1}]>>)

MessageIntervalRequestTLV ==
  Layout(16, TlvHeader.members \o <<
    <<"organization_id", 3>>, <<"organization_sub_type", 3>>,
    <<"link_delay_interval", 1>>, <<"time_sync_interval", 1>>,
    <<"announce_interval", 1>>, <<"flags", 1>>, <<"_", 2>>>>)

MessageIntervalRequestTLVFormat ==
  Format(MessageIntervalRequestTLV,
    <<[tlv_type |-> 3, length_field |-> 12, organization_id |-> 32962,
       organization_sub_type |-> 2]>>,
    <<[tlv_type |-> {3}, length_field |-> {12}, organization_id |-> {32962},
       organization_sub_type |-> {2}]>>)

ControlFormats ==
  <<AcmpDuFormat,
    AcmpDu2021Format,
    AdpDuFormat,
    AecpDuCommonFormat,
    AecpAaDuFormat,
    Plain(AaTlvHeader),
    AemDuFormat,
    Plain(LogBlobHeader),
    Plain(Ipv4ParamsBlob),
    Plain(AttributeListHeader),
    Plain(VectorAttributeHeader),
    Plain(DomainFirstValue),
    Plain(ListenerFirstValue),
    Plain(TalkerAdvertiseFirstValue),
    Plain(TalkerFailedFirstValue),
    Plain(VlanIdentifierFirstValue),
    Plain(SourcePortIdentity),
    Plain(Timestamp),
    Plain(ClockQuality),
    MessageHeaderFormat,
    Format(SyncMessage, <<GptpInit(1, 44)>>, <<GptpValid>>),
    Format(FollowUpMessage, <<GptpInit(2, 44)>>, <<GptpValid>>),
    Format(PdelayReqMessage, <<GptpInit(3, 54)>>, <<GptpValid>>),
    Format(PdelayRespMessage, <<GptpInit(4, 54)>>, <<GptpValid>>),
    Format(PdelayRespFollowUpMessage, <<GptpInit(5, 54)>>, <<GptpValid>>),
    Format(AnnounceMessage,
           <<GptpInit(6, 64) @@ [grandmaster_priority1 |-> 255,
                                 grandmaster_priority2 |-> 255]>>,
           <<GptpValid>>),
    Format(SignalingMessage, <<GptpInit(7, 44)>>, <<GptpValid>>),
    Plain(ScaledNs),
    Plain(TlvHeader),
    FollowUpInformationTLVFormat,
    MessageIntervalRequestTLVFormat>>

\* Which structure parse_gptp reads a payload of `octets` octets as: none
\* when even the header is missing, the header alone when the type has no
\* structure of its own, and "truncated" when the structure does not fit.
parse_gptp(octets, message_type) ==
  LET named == {t \in DOMAIN GptpTypes : GptpTypes[t] = message_type}
      message == <<SyncMessage, FollowUpMessage, PdelayReqMessage,
                   PdelayRespMessage, PdelayRespFollowUpMessage,
                   AnnounceMessage, SignalingMessage>>
  IN  IF octets < MessageHeader.len THEN "none"
      ELSE IF named = {} THEN "header"
      ELSE LET t == CHOOSE t \in named : TRUE
           IN  IF octets < message[t].len THEN "truncated" ELSE t
=============================================================================
