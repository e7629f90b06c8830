----------------------------- MODULE AemFormats -----------------------------
(***************************************************************************)
(* The fixed parts of the AEM descriptors and of the descriptor storage's  *)
(* own records.  The array that follows a descriptor's fixed part is       *)
(* described in DescriptorService.                                         *)
(***************************************************************************)
EXTENDS WireFields
LOCAL INSTANCE TLC

\* Every descriptor begins with its type and index.
Descriptor(len, rest) ==
  Layout(len, <<<<"descriptor_type", 2>>, <<"descriptor_index", 2>>>> \o rest)

\* Most then carry a name the user may set and one from a STRINGS descriptor.
Named(len, rest) ==
  Descriptor(len, <<<<"object_name", 64>>, <<"localized_description", 2>>>> \o
                  rest)

\* Those that process a signal say how long that takes.
Processor(len, rest) ==
  Named(len, <<<<"block_latency", 4>>, <<"control_latency", 4>>,
               <<"control_domain", 2>>>> \o rest)

DescriptorEntity == Descriptor(312, <<
    <<"entity_id", 8>>, <<"entity_model_id", 8>>, <<"entity_capabilities", 4>>,
    <<"talker_stream_sources", 2>>, <<"talker_capabilities", 2>>,
    <<"listener_stream_sinks", 2>>, <<"listener_capabilities", 2>>,
    <<"controller_capabilities", 4>>, <<"available_index", 4>>,
    <<"association_id", 8>>, <<"entity_name", 64>>,
    <<"vendor_name_string", 2>>, <<"model_name_string", 2>>,
    <<"firmware_version", 64>>, <<"group_name", 64>>, <<"serial_number", 64>>,
    <<"configurations_count", 2>>, <<"current_configuration", 2>>>>)

DescriptorConfiguration == Named(74, <<
    <<"descriptor_counts_count", 2>>, <<"descriptor_counts_offset", 2>>>>)

\* The members the three kinds of unit share: how many descriptors of each
\* kind belong to the unit, and the first of them.
UnitMembers ==
  <<<<"clock_domain_index", 2>>, <<"number_of_stream_input_ports", 2>>,
    <<"base_stream_input_port", 2>>, <<"number_of_stream_output_ports", 2>>,
    <<"base_stream_output_port", 2>>, <<"number_of_external_input_ports", 2>>,
    <<"base_external_input_port", 2>>,
    <<"number_of_external_output_ports", 2>>,
    <<"base_external_output_port", 2>>,
    <<"number_of_internal_input_ports", 2>>, <<"base_internal_input_port", 2>>,
    <<"number_of_internal_output_ports", 2>>,
    <<"base_internal_output_port", 2>>, <<"number_of_controls", 2>>,
    <<"base_control", 2>>, <<"number_of_signal_selectors", 2>>,
    <<"base_signal_selector", 2>>, <<"number_of_mixers", 2>>,
    <<"base_mixer", 2>>, <<"number_of_matrices", 2>>, <<"base_matrix", 2>>,
    <<"number_of_splitters", 2>>, <<"base_splitter", 2>>,
    <<"number_of_combiners", 2>>, <<"base_combiner", 2>>,
    <<"number_of_demultiplexers", 2>>, <<"base_demultiplexer", 2>>,
    <<"number_of_multiplexers", 2>>, <<"base_multiplexer", 2>>,
    <<"number_of_transcoders", 2>>, <<"base_transcoder", 2>>,
    <<"number_of_control_blocks", 2>>, <<"base_control_block", 2>>>>

DescriptorAudioUnit == Named(144, UnitMembers \o <<
    <<"current_sampling_rate", 4>>, <<"sampling_rates_offset", 2>>,
    <<"sampling_rates_count", 2>>>>)

DescriptorVideoUnit == Named(136, UnitMembers)

DescriptorSensorUnit == Named(136, UnitMembers)

DescriptorStream == Named(138, <<
    <<"clock_domain_index", 2>>, <<"stream_flags", 2>>,
    <<"current_format", 8>>, <<"formats_offset", 2>>,
    <<"number_of_formats", 2>>, <<"backup_talker_entity_id_0", 8>>,
    <<"backup_talker_unique_id_0", 2>>, <<"backup_talker_entity_id_1", 8>>,
    <<"backup_talker_unique_id_1", 2>>, <<"backup_talker_entity_id_2", 8>>,
    <<"backup_talker_unique_id_2", 2>>, <<"backedup_talker_entity_id", 8>>,
    <<"backedup_talker_unique_id", 2>>, <<"avb_interface_index", 2>>,
    <<"buffer_length", 4>>, <<"redundant_offset", 2>>,
    <<"number_of_redundant_streams", 2>>, <<"timing", 2>>>>)

DescriptorJack == Named(78, <<
    <<"jack_flags", 2>>, <<"jack_type", 2>>, <<"number_of_controls", 2>>,
    <<"base_control", 2>>>>)

DescriptorAvbInterface == Named(102, <<
    <<"mac_address", 6>>, <<"interface_flags", 2>>, <<"clock_identity", 8>>,
    <<"priority1", 1>>, <<"clock_class", 1>>,
    <<"offset_scaled_log_variance", 2>>, <<"clock_accuracy", 1>>,
    <<"priority2", 1>>, <<"domain_number", 1>>, <<"log_sync_interval", 1>>,
    <<"log_announce_interval", 1>>, <<"log_pdelay_interval", 1>>,
    <<"port_number", 2>>, <<"number_of_controls", 2>>, <<"base_control", 2>>>>)

DescriptorClockSource == Named(86, <<
    <<"clock_source_flags", 2>>, <<"clock_source_type", 2>>,
    <<"clock_source_identifier", 8>>, <<"clock_source_location_type", 2>>,
    <<"clock_source_location_index", 2>>>>)

DescriptorMemoryObject == Named(108, <<
    <<"memory_object_type", 2>>, <<"target_descriptor_type", 2>>,
    <<"target_descriptor_index", 2>>, <<"start_address", 8>>,
    <<"maximum_length", 8>>, <<"length", 8>>, <<"maximum_segment_length", 8>>>>)

DescriptorLocale == Descriptor(72, <<
    <<"locale_identifier", 64>>, <<"number_of_strings", 2>>,
    <<"base_strings", 2>>>>)

DescriptorStrings == Descriptor(452, <<
    <<"string_0", 64>>, <<"string_1", 64>>, <<"string_2", 64>>,
    <<"string_3", 64>>, <<"string_4", 64>>, <<"string_5", 64>>,
    <<"string_6", 64>>>>)

DescriptorStreamPort == Descriptor(20, <<
    <<"clock_domain_index", 2>>, <<"port_flags", 2>>,
    <<"number_of_controls", 2>>, <<"base_control", 2>>,
    <<"number_of_clusters", 2>>, <<"base_cluster", 2>>,
    <<"number_of_maps", 2>>, <<"base_map", 2>>>>)

DescriptorExternalPort == Descriptor(24, <<
    <<"clock_domain_index", 2>>, <<"port_flags", 2>>,
    <<"number_of_controls", 2>>, <<"base_control", 2>>, <<"signal_source", 6>>,
    <<"block_latency", 4>>, <<"jack_index", 2>>>>)

DescriptorInternalPort == Descriptor(24, <<
    <<"clock_domain_index", 2>>, <<"port_flags", 2>>,
    <<"number_of_controls", 2>>, <<"base_control", 2>>, <<"signal_source", 6>>,
    <<"block_latency", 4>>, <<"internal_index", 2>>>>)

DescriptorAudioCluster == Named(90, <<
    <<"signal_source", 6>>, <<"path_latency", 4>>, <<"block_latency", 4>>,
    <<"channel_count", 2>>, <<"format", 1>>, <<"aes3_data_type_reference", 1>>,
    <<"aes3_data_type", 2>>>>)

DescriptorVideoCluster == Named(121, <<
    <<"signal_source", 6>>, <<"path_latency", 4>>, <<"block_latency", 4>>,
    <<"format", 1>>, <<"current_format_specific", 4>>,
    <<"supported_format_specifics_offset", 2>>,
    <<"supported_format_specifics_count", 2>>, <<"current_sampling_rate", 4>>,
    <<"supported_sampling_rates_offset", 2>>,
    <<"supported_sampling_rates_count", 2>>, <<"current_aspect_ratio", 2>>,
    <<"supported_aspect_ratios_offset", 2>>,
    <<"supported_aspect_ratios_count", 2>>, <<"current_size", 4>>,
    <<"supported_sizes_offset", 2>>, <<"supported_sizes_count", 2>>,
    <<"current_color_space", 2>>, <<"supported_color_spaces_offset", 2>>,
    <<"supported_color_spaces_count", 2>>>>)

DescriptorSensorCluster == Named(104, <<
    <<"signal_source", 6>>, <<"path_latency", 4>>, <<"block_latency", 4>>,
    <<"current_format", 8>>, <<"supported_formats_offset", 2>>,
    <<"supported_formats_count", 2>>, <<"current_sampling_rate", 4>>,
    <<"supported_sampling_rates_offset", 2>>,
    <<"supported_sampling_rates_count", 2>>>>)

DescriptorAudioMap == Descriptor(8, <<
    <<"mappings_offset", 2>>, <<"number_of_mappings", 2>>>>)

DescriptorVideoMap == Descriptor(8, <<
    <<"mappings_offset", 2>>, <<"number_of_mappings", 2>>>>)

DescriptorSensorMap == Descriptor(8, <<
    <<"mappings_offset", 2>>, <<"number_of_mappings", 2>>>>)

DescriptorControl == Processor(104, <<
    <<"control_value_type", 2>>, <<"control_type", 8>>, <<"reset_time", 4>>,
    <<"values_offset", 2>>, <<"number_of_values", 2>>, <<"signal_source", 6>>>>)

DescriptorSignalSelector == Processor(96, <<
    <<"sources_offset", 2>>, <<"number_of_sources", 2>>,
    <<"current_signal", 6>>, <<"default_signal", 6>>>>)

DescriptorMixer == Processor(88, <<
    <<"control_value_type", 2>>, <<"sources_offset", 2>>,
    <<"number_of_sources", 2>>, <<"value_offset", 2>>>>)

DescriptorMatrix == Processor(102, <<
    <<"control_value_type", 2>>, <<"control_type", 8>>, <<"width", 2>>,
    <<"height", 2>>, <<"values_offset", 2>>, <<"number_of_values", 2>>,
    <<"number_of_sources", 2>>, <<"base_source", 2>>>>)

DescriptorMatrixSignal == Descriptor(8, <<
    <<"signals_offset", 2>>, <<"signals_count", 2>>>>)

DescriptorSignalSplitter == Processor(92, <<
    <<"signal_source", 6>>, <<"number_of_outputs", 2>>,
    <<"splitter_map_count", 2>>, <<"splitter_map_offset", 2>>>>)

DescriptorSignalCombiner == Processor(88, <<
    <<"combiner_map_count", 2>>, <<"combiner_map_offset", 2>>,
    <<"sources_offset", 2>>, <<"number_of_sources", 2>>>>)

DescriptorSignalDemultiplexer == Processor(92, <<
    <<"signal_source", 6>>, <<"number_of_outputs", 2>>,
    <<"demultiplexer_map_count", 2>>, <<"demultiplexer_map_offset", 2>>>>)

DescriptorSignalMultiplexer == Processor(88, <<
    <<"multiplexer_map_count", 2>>, <<"multiplexer_map_offset", 2>>,
    <<"sources_offset", 2>>, <<"number_of_sources", 2>>>>)

DescriptorSignalTranscoder == Processor(100, <<
    <<"control_value_type", 2>>, <<"values_offset", 2>>,
    <<"number_of_values", 2>>, <<"signal_source", 6>>, <<"transcoder_type", 8>>>>)

DescriptorClockDomain == Named(76, <<
    <<"clock_source_index", 2>>, <<"clock_sources_offset", 2>>,
    <<"clock_sources_count", 2>>>>)

DescriptorControlBlock == Named(82, <<
    <<"number_of_controls", 2>>, <<"base_control", 2>>,
    <<"final_control_index", 2>>, <<"signal_source", 6>>>>)

DescriptorTiming == Named(76, <<
    <<"algorithm", 2>>, <<"ptp_instances_offset", 2>>,
    <<"number_of_ptp_instances", 2>>>>)

DescriptorPtpInstance == Named(90, <<
    <<"clock_identity", 8>>, <<"flags", 4>>, <<"number_of_controls", 2>>,
    <<"base_control", 2>>, <<"number_of_ptp_ports", 2>>, <<"base_ptp_port", 2>>>>)

DescriptorPtpPort == Named(86, <<
    <<"port_number", 2>>, <<"port_type", 2>>, <<"flags", 4>>,
    <<"avb_interface_index", 2>>, <<"profile_identifier", 6>>>>)

DescriptorCountEntry ==
  Layout(4, <<<<"descriptor_type", 2>>, <<"count", 2>>>>)

AudioMapping ==
  Layout(8, <<<<"mapping_stream_index", 2>>, <<"mapping_stream_channel", 2>>,
    <<"mapping_cluster_offset", 2>>, <<"mapping_cluster_channel", 2>>>>)

VideoMapping ==
  Layout(8, <<<<"mapping_stream_index", 2>>, <<"mapping_program_stream", 2>>,
    <<"mapping_elementary_stream", 2>>, <<"mapping_cluster_offset", 2>>>>)

SensorMapping ==
  Layout(6, <<<<"mapping_stream_index", 2>>, <<"mapping_stream_signal", 2>>,
    <<"mapping_cluster_offset", 2>>>>)

SignalSource ==
  Layout(6, <<<<"signal_type", 2>>, <<"signal_index", 2>>, <<"signal_output", 2>>>>)

DescriptorStorageHeader ==
  Layout(20, <<<<"magic", 4>>, <<"toc_count", 4>>, <<"toc_offset", 4>>,
    <<"symbol_count", 4>>, <<"symbol_offset", 4>>>>)

DescriptorStorageTocEntry ==
  Layout(12, <<<<"descriptor_type", 2>>, <<"descriptor_index", 2>>,
    <<"configuration_index", 2>>, <<"length", 2>>, <<"offset", 4>>>>)

DescriptorStorageSymbolEntry ==
  Layout(10, <<<<"descriptor_type", 2>>, <<"descriptor_index", 2>>,
    <<"configuration_index", 2>>, <<"symbol", 4>>>>)

\* The values the members of a default-constructed descriptor have.
AemDescriptorFormats ==
  LET Of(layout, init) == Format(layout, <<init>>, <<<<>>>>)
  IN  <<Plain(DescriptorEntity),
        Of(DescriptorConfiguration, [descriptor_type |-> 1, descriptor_counts_offset |-> 74]),
        Of(DescriptorAudioUnit, [descriptor_type |-> 2, sampling_rates_offset |-> 144]),
        Of(DescriptorVideoUnit, [descriptor_type |-> 3]),
        Of(DescriptorSensorUnit, [descriptor_type |-> 4]),
        Of(DescriptorStream, [formats_offset |-> 138]),
        Plain(DescriptorJack),
        Of(DescriptorAvbInterface, [descriptor_type |-> 9]),
        Of(DescriptorClockSource, [descriptor_type |-> 10]),
        Of(DescriptorMemoryObject, [descriptor_type |-> 11]),
        Of(DescriptorLocale, [descriptor_type |-> 12]),
        Of(DescriptorStrings, [descriptor_type |-> 13]),
        Plain(DescriptorStreamPort),
        Plain(DescriptorExternalPort),
        Plain(DescriptorInternalPort),
        Of(DescriptorAudioCluster, [descriptor_type |-> 20]),
        Of(DescriptorVideoCluster, [descriptor_type |-> 21]),
        Of(DescriptorSensorCluster, [descriptor_type |-> 22]),
        Of(DescriptorAudioMap, [descriptor_type |-> 23, mappings_offset |-> 8]),
        Of(DescriptorVideoMap, [descriptor_type |-> 24, mappings_offset |-> 8]),
        Of(DescriptorSensorMap, [descriptor_type |-> 25, mappings_offset |-> 8]),
        Of(DescriptorControl, [descriptor_type |-> 26, values_offset |-> 104]),
        Of(DescriptorSignalSelector, [descriptor_type |-> 27]),
        Of(DescriptorMixer, [descriptor_type |-> 28]),
        Of(DescriptorMatrix, [descriptor_type |-> 29]),
        Of(DescriptorMatrixSignal, [descriptor_type |-> 30]),
        Of(DescriptorSignalSplitter, [descriptor_type |-> 31]),
        Of(DescriptorSignalCombiner, [descriptor_type |-> 32]),
        Of(DescriptorSignalDemultiplexer, [descriptor_type |-> 33]),
        Of(DescriptorSignalMultiplexer, [descriptor_type |-> 34]),
        Of(DescriptorSignalTranscoder, [descriptor_type |-> 35]),
        Of(DescriptorClockDomain, [descriptor_type |-> 36, clock_sources_offset |-> 76]),
        Of(DescriptorControlBlock, [descriptor_type |-> 37]),
        Of(DescriptorTiming, [descriptor_type |-> 38]),
        Of(DescriptorPtpInstance, [descriptor_type |-> 39]),
        Of(DescriptorPtpPort, [descriptor_type |-> 40]),
        Plain(DescriptorCountEntry),
        Plain(AudioMapping),
        Plain(VideoMapping),
        Plain(SensorMapping),
        Plain(SignalSource),
        Plain(DescriptorStorageHeader),
        Plain(DescriptorStorageTocEntry),
        Plain(DescriptorStorageSymbolEntry)>>

-----------------------------------------------------------------------------
(***************************************************************************)
(* The payloads of the AEM commands and responses.                         *)
(***************************************************************************)
AemAcquireEntityPayload ==
  Layout(16, <<
    <<"flags", 4, [release |-> <<31, 31>>, persistent |-> <<0, 0>>]>>,
    <<"owner_entity_id", 8>>, <<"descriptor_type", 2>>,
    <<"descriptor_index", 2>>>>)

AemLockEntityPayload ==
  Layout(16, <<
    <<"flags", 4, [unlock |-> <<0, 0>>]>>, <<"locked_entity_id", 8>>,
    <<"descriptor_type", 2>>, <<"descriptor_index", 2>>>>)

AemReadDescriptorCommandPayload ==
  Layout(8, <<
    <<"configuration_index", 2>>, <<"_", 2>>, <<"descriptor_type", 2>>,
    <<"descriptor_index", 2>>>>)

AemReadDescriptorResponsePayload ==
  Layout(4, <<<<"configuration_index", 2>>, <<"_", 2>>>>)

AemSetConfigurationPayload ==
  Layout(4, <<<<"_", 2>>, <<"configuration_index", 2>>>>)

AemStreamFormatPayload ==
  Descriptor(12, <<<<"stream_format", 8>>>>)

AemGetStreamFormatCommandPayload == Descriptor(4, <<>>)

AemGetStreamInfoCommandPayload == Descriptor(4, <<>>)

AemStreamInfoPayload ==
  Descriptor(48, <<
    <<"flags", 4, [is_stream_format_valid |-> <<31, 31>>,
    is_stream_id_valid |-> <<30, 30>>, is_connected |-> <<26, 26>>,
    is_class_b |-> <<0, 0>>]>>, <<"stream_format", 8>>, <<"stream_id", 8>>,
    <<"msrp_accumulated_latency", 4>>, <<"stream_dest_mac", 6>>,
    <<"msrp_failure_code", 1>>, <<"_", 1>>, <<"msrp_failure_bridge_id", 8>>,
    <<"stream_vlan_id", 2>>, <<"_", 2>>>>)

AemNameCommandPayload ==
  Descriptor(8, <<<<"name_index", 2>>, <<"configuration_index", 2>>>>)

AemNamePayload ==
  Descriptor(72, <<
    <<"name_index", 2>>, <<"configuration_index", 2>>, <<"name", 64>>>>)

AemSamplingRatePayload ==
  Descriptor(8, <<<<"sampling_rate", 4>>>>)

AemGetSamplingRateCommandPayload == Descriptor(4, <<>>)

AemClockSourcePayload ==
  Descriptor(8, <<<<"clock_source_index", 2>>, <<"_", 2>>>>)

AemGetClockSourceCommandPayload == Descriptor(4, <<>>)

AemStreamingPayload == Descriptor(4, <<>>)

AemIdentifyPayload == Descriptor(4, <<>>)

AemGetAvbInfoCommandPayload == Descriptor(4, <<>>)

AemAvbInfoPayload ==
  Descriptor(20, <<
    <<"gptp_grandmaster_id", 8>>, <<"propagation_delay", 4>>,
    <<"gptp_domain_number", 1>>,
    <<"flags", 1, [is_avtp_down_valid |-> <<4, 4>>, is_avtp_down |-> <<3, 3>>,
    is_srp_enabled |-> <<2, 2>>, is_gptp_enabled |-> <<1, 1>>,
    is_as_capable |-> <<0, 0>>]>>, <<"msrp_mappings_count", 2>>>>)

AemGetCountersCommandPayload == Descriptor(4, <<>>)

AemCountersPayload ==
  Descriptor(136, <<<<"counters_valid", 4>>, <<"counters", 128>>>>)

AemRebootPayload == Descriptor(4, <<>>)

AemMemoryObjectLengthPayload ==
  Layout(12, <<
    <<"descriptor_index", 2>>, <<"configuration_index", 2>>, <<"length", 8>>>>)

AemGetMemoryObjectLengthCommandPayload ==
  Layout(4, <<<<"descriptor_index", 2>>, <<"configuration_index", 2>>>>)

AemControlPayloadHeader == Descriptor(4, <<>>)

AemSignalSelectorPayload ==
  Descriptor(12, <<<<"source", 6>>, <<"_", 2>>>>)

AemGetSignalSelectorCommandPayload == Descriptor(4, <<>>)

AemMatrixPayloadHeader ==
  Descriptor(16, <<
    <<"matrix_column", 2>>, <<"matrix_row", 2>>, <<"region_width", 2>>,
    <<"region_height", 2>>,
    <<"rep_direction_value_count", 2, [rep |-> <<15, 15>>,
    direction |-> <<14, 13>>, value_count |-> <<12, 0>>]>>,
    <<"item_offset", 2>>>>)

AemMixerPayloadHeader == Descriptor(4, <<>>)

AemAudioMapping ==
  Layout(8, <<
    <<"stream_index", 2>>, <<"stream_channel", 2>>, <<"cluster_offset", 2>>,
    <<"cluster_channel", 2>>>>)

AemGetAudioMapCommandPayload ==
  Descriptor(8, <<<<"map_index", 2>>, <<"_", 2>>>>)

AemAudioMapResponseHeader ==
  Descriptor(12, <<
    <<"map_index", 2>>, <<"number_of_maps", 2>>, <<"number_of_mappings", 2>>,
    <<"_", 2>>>>)

AemAudioMappingsCommandHeader ==
  Descriptor(8, <<<<"number_of_mappings", 2>>, <<"_", 2>>>>)

AemStartOperationCommandPayload ==
  Descriptor(8, <<<<"operation_id", 2>>, <<"operation_type", 2>>>>)

AemStartOperationResponsePayload ==
  Descriptor(8, <<<<"operation_id", 2>>, <<"operation_type", 2>>>>)

AemAbortOperationPayload ==
  Descriptor(8, <<<<"operation_id", 2>>, <<"_", 2>>>>)

AemOperationStatusPayload ==
  Descriptor(8, <<<<"operation_id", 2>>, <<"percent_complete", 2>>>>)

AemSetMaxTransitTimePayload ==
  Descriptor(12, <<<<"max_transit_time", 8>>>>)

AemGetMaxTransitTimeCommandPayload == Descriptor(4, <<>>)

AemPtpPortInfoCommandPayload ==
  Descriptor(32, <<
    <<"_", 2>>, <<"flags", 2>>, <<"delay_mechanism", 1>>,
    <<"announce_receipt_timeout", 1>>, <<"sync_receipt_timeout", 1>>,
    <<"port_flags", 1>>, <<"mean_link_delay_threshold", 8>>,
    <<"delay_asymmetry", 8>>, <<"allowed_lost_responses", 1>>,
    <<"allowed_faults", 1>>, <<"gptp_capable_receipt_timeout", 1>>, <<"_", 1>>>>)

AemGetPtpPortInfoResponsePayload ==
  Descriptor(52, <<
    <<"_", 2>>, <<"flags", 2>>, <<"delay_mechanism", 1>>,
    <<"announce_receipt_timeout", 1>>, <<"sync_receipt_timeout", 1>>,
    <<"port_flags", 1>>, <<"mean_link_delay_threshold", 8>>,
    <<"delay_asymmetry", 8>>, <<"allowed_lost_responses", 1>>,
    <<"allowed_faults", 1>>, <<"gptp_capable_receipt_timeout", 1>>,
    <<"port_state", 1>>, <<"mean_link_delay", 8>>,
    <<"neighbor_rate_ratio", 8>>, <<"major_version", 1>>,
    <<"minor_version", 1>>, <<"ext_port_flags", 1>>, <<"_", 1>>>>)

AemCommandLayouts ==
  <<AemAcquireEntityPayload, AemLockEntityPayload,
    AemReadDescriptorCommandPayload, AemReadDescriptorResponsePayload,
    AemSetConfigurationPayload, AemStreamFormatPayload,
    AemGetStreamFormatCommandPayload, AemGetStreamInfoCommandPayload,
    AemStreamInfoPayload, AemNameCommandPayload, AemNamePayload,
    AemSamplingRatePayload, AemGetSamplingRateCommandPayload,
    AemClockSourcePayload, AemGetClockSourceCommandPayload,
    AemStreamingPayload, AemIdentifyPayload, AemGetAvbInfoCommandPayload,
    AemAvbInfoPayload, AemGetCountersCommandPayload, AemCountersPayload,
    AemRebootPayload, AemMemoryObjectLengthPayload,
    AemGetMemoryObjectLengthCommandPayload, AemControlPayloadHeader,
    AemSignalSelectorPayload, AemGetSignalSelectorCommandPayload,
    AemMatrixPayloadHeader, AemMixerPayloadHeader, AemAudioMapping,
    AemGetAudioMapCommandPayload, AemAudioMapResponseHeader,
    AemAudioMappingsCommandHeader, AemStartOperationCommandPayload,
    AemStartOperationResponsePayload, AemAbortOperationPayload,
    AemOperationStatusPayload, AemSetMaxTransitTimePayload,
    AemGetMaxTransitTimeCommandPayload, AemPtpPortInfoCommandPayload,
    AemGetPtpPortInfoResponsePayload>>

AemCommandFormats ==
  [c \in DOMAIN AemCommandLayouts |-> Plain(AemCommandLayouts[c])]
=============================================================================
