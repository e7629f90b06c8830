---------------------------- MODULE AvtpHeaders -----------------------------
(***************************************************************************)
(* The headers of the AVTP stream and control formats: the members of each *)
(* packed structure, the bits its accessors reach, the values its init     *)
(* leaves in it and what its is_valid accepts.                             *)
(***************************************************************************)
EXTENDS WireFields
LOCAL INSTANCE TLC

\* What AafPdu and AafV1Pdu accept: a PCM format with at least one channel,
\* and 32-bit samples when they are floating point.
AafValid(v) ==
  LET pcm == [subtype |-> {2}, sv |-> {1}, version |-> {v},
              format |-> {0, 2, 3, 4}, channels_per_frame |-> 1..1023,
              bit_depth |-> 0..255]
  IN  <<pcm, [pcm EXCEPT !.format = {1}, !.bit_depth = {32}]>>

AafPdu ==
  Layout(24, <<
    <<"subtype", 1>>, <<"sv_version_flags", 1, [sv |-> <<7, 7>>,
    version |-> <<6, 4>>, mr |-> <<3, 3>>, tv |-> <<0, 0>>]>>,
    <<"sequence_num", 1>>, <<"reserved_tu", 1, [tu |-> <<0, 0>>]>>,
    <<"stream_id", 8>>, <<"avtp_timestamp", 4>>, <<"format", 1>>,
    <<"nsr_rsv_channels", 2, [nsr |-> <<15, 12>>,
    channels_per_frame |-> <<9, 0>>]>>, <<"bit_depth", 1>>,
    <<"stream_data_length", 2>>, <<"rsv_sp_evt", 1, [sp |-> <<4, 4>>,
    evt |-> <<3, 0>>]>>, <<"_", 1>>>>)

AafPduFormat ==
  Format(AafPdu,
    <<[subtype |-> 2, sv |-> 1, format |-> 4, nsr |-> 5, channels_per_frame |-> 2,
       bit_depth |-> 16]>>,
    AafValid(0))

AafV1Pdu ==
  Layout(40, <<
    <<"subtype", 1>>, <<"sv_version_flags", 1, [sv |-> <<7, 7>>,
    version |-> <<6, 4>>, mr |-> <<3, 3>>, tv |-> <<0, 0>>]>>,
    <<"format_specific_data_0", 1>>, <<"reserved_tu", 1, [tu |-> <<0, 0>>]>>,
    <<"stream_id", 8>>, <<"sequence_num", 4>>, <<"avtp_timestamp", 8>>,
    <<"ptp_grandmaster_identity", 8>>, <<"format", 1>>,
    <<"nsr_rsv_channels", 2, [nsr |-> <<15, 12>>,
    channels_per_frame |-> <<9, 0>>]>>, <<"bit_depth", 1>>,
    <<"stream_data_length", 2>>, <<"rsv_sp_evt", 1, [sp |-> <<4, 4>>,
    evt |-> <<3, 0>>]>>, <<"_", 1>>>>)

AafV1PduFormat ==
  Format(AafV1Pdu,
    <<[subtype |-> 2, sv |-> 1, version |-> 1, format |-> 1, nsr |-> 5,
       channels_per_frame |-> 2, bit_depth |-> 32]>>,
    AafValid(1))

AvtpStreamHeader ==
  Layout(24, <<
    <<"subtype", 1>>, <<"sv_version_flags", 1, [sv |-> <<7, 7>>,
    version |-> <<6, 4>>, mr |-> <<3, 3>>, gv |-> <<1, 1>>, tv |-> <<0, 0>>]>>,
    <<"sequence_num", 1>>, <<"reserved_tu", 1, [tu |-> <<0, 0>>]>>,
    <<"stream_id", 8>>, <<"avtp_timestamp", 4>>, <<"format_specific_data", 4>>,
    <<"stream_data_length", 2>>,
    <<"protocol_specific_header", 2, [tag |-> <<15, 14>>,
    channel |-> <<13, 8>>, tcode |-> <<7, 4>>, sy |-> <<3, 0>>]>>>>)

AvtpStreamHeaderFormat ==
  Format(AvtpStreamHeader,
    <<[sv |-> 1, tag |-> 1, tcode |-> 10]>>,
    <<<<>>>>)

Cip61883Header ==
  Layout(8, <<
    <<"qi1_sid", 1, [qi1 |-> <<7, 6>>, sid |-> <<5, 0>>]>>, <<"dbs", 1>>,
    <<"fn_qpc_sph", 1, [fn |-> <<7, 6>>, qpc |-> <<5, 3>>, sph |-> <<2, 2>>]>>,
    <<"dbc", 1>>, <<"qi2_fmt", 1, [qi2 |-> <<7, 6>>, fmt |-> <<5, 0>>]>>,
    <<"fdf", 1>>, <<"syt", 2>>>>)

Cip61883HeaderFormat ==
  Format(Cip61883Header,
    <<[dbs |-> 2, qi2 |-> 2, fmt |-> 16, fdf |-> 2, syt |-> 65535]>>,
    <<<<>>>>)

Am824Pdu ==
  Layout(32, AvtpStreamHeader.members \o Cip61883Header.members)

Am824PduFormat ==
  Format(Am824Pdu,
    <<[sv |-> 1, tag |-> 1, tcode |-> 10, dbs |-> 2, qi2 |-> 2, fmt |-> 16,
       fdf |-> 2, syt |-> 65535]>>,
    <<[subtype |-> {0}, sv |-> {1}, version |-> {0}, fmt |-> {16},
       fdf |-> {f \in 0..255 : f % 8 <= 6}, sph |-> {0}, fn |-> {0},
       dbs |-> 1..255]>>)

AvtpStreamHeaderV1 ==
  Layout(40, <<
    <<"subtype", 1>>, <<"sv_version_flags", 1, [sv |-> <<7, 7>>,
    version |-> <<6, 4>>, mr |-> <<3, 3>>, gv |-> <<1, 1>>, tv |-> <<0, 0>>]>>,
    <<"format_specific_data_0", 1>>, <<"reserved_tu", 1, [tu |-> <<0, 0>>]>>,
    <<"stream_id", 8>>, <<"sequence_num", 4>>, <<"avtp_timestamp", 8>>,
    <<"ptp_grandmaster_identity", 8>>, <<"gateway_info", 4>>,
    <<"stream_data_length", 2>>,
    <<"protocol_specific_header", 2, [tag |-> <<15, 14>>,
    channel |-> <<13, 8>>, tcode |-> <<7, 4>>, sy |-> <<3, 0>>]>>>>)

AvtpStreamHeaderV1Format ==
  Format(AvtpStreamHeaderV1,
    <<[sv |-> 1, version |-> 1, tag |-> 1, tcode |-> 10]>>,
    <<[subtype |-> {0}, sv |-> {1}, version |-> {1}]>>)

Am824V1Pdu ==
  Layout(48, AvtpStreamHeaderV1.members \o Cip61883Header.members)

Am824V1PduFormat ==
  Format(Am824V1Pdu,
    <<[sv |-> 1, version |-> 1, tag |-> 1, tcode |-> 10, dbs |-> 2, qi2 |-> 2,
       fmt |-> 16, fdf |-> 2, syt |-> 65535]>>,
    <<[subtype |-> {0}, sv |-> {1}, version |-> {1}, fmt |-> {16}, fdf |-> 0..6,
       dbs |-> 1..255]>>)

CrfPdu ==
  Layout(20, <<
    <<"subtype", 1>>, <<"sv_version_mr_r_fs_tu", 1, [sv |-> <<7, 7>>,
    version |-> <<6, 4>>, mr |-> <<3, 3>>, fs |-> <<1, 1>>, tu |-> <<0, 0>>]>>,
    <<"sequence_num", 1>>, <<"type", 1>>, <<"stream_id", 8>>,
    <<"pull_base_frequency", 4, [pull |-> <<31, 29>>,
    base_frequency |-> <<28, 0>>]>>, <<"crf_data_length", 2>>,
    <<"timestamp_interval", 2>>>>)

CrfPduFormat ==
  Format(CrfPdu,
    [t \in 1..4 |-> [subtype |-> 4, sv |-> 1, type |-> t, base_frequency |-> 48000,
                   crf_data_length |-> 48, timestamp_interval |-> 160]],
    <<[subtype |-> {4}, sv |-> {1}, version |-> {0}, type |-> 0..4]>>)

CrfV1Pdu ==
  Layout(36, <<
    <<"subtype", 1>>, <<"sv_version_rsv", 1, [sv |-> <<7, 7>>,
    version |-> <<6, 4>>]>>, <<"_", 2>>, <<"sequence_num", 4>>,
    <<"ptp_grandmaster_identity", 8>>, <<"rsv_mr_r_fs_tu", 1, [mr |-> <<3, 3>>,
    fs |-> <<1, 1>>, tu |-> <<0, 0>>]>>, <<"sequence_num_lsb", 1>>,
    <<"type", 1>>, <<"_", 1>>, <<"stream_id", 8>>,
    <<"pull_base_frequency", 4, [pull |-> <<31, 29>>,
    base_frequency |-> <<28, 0>>]>>, <<"crf_data_length", 2>>,
    <<"timestamp_interval", 2>>>>)

CrfV1PduFormat ==
  Format(CrfV1Pdu,
    [t \in 1..4 |-> [subtype |-> 4, sv |-> 1, version |-> 1, type |-> t,
                   base_frequency |-> 48000, timestamp_interval |-> 160]],
    <<[subtype |-> {4}, sv |-> {1}, version |-> {1}]>>)

TscfPdu ==
  Layout(24, <<
    <<"subtype", 1>>, <<"sv_version_flags", 1, [sv |-> <<7, 7>>,
    version |-> <<6, 4>>, mr |-> <<3, 3>>, tv |-> <<0, 0>>]>>,
    <<"sequence_num", 1>>, <<"reserved_tu", 1, [tu |-> <<0, 0>>]>>,
    <<"stream_id", 8>>, <<"avtp_timestamp", 4>>, <<"_", 1>>,
    <<"sequence_num_lsb", 1>>, <<"_", 2>>, <<"stream_data_length", 2>>,
    <<"_", 2>>>>)

TscfPduFormat ==
  Format(TscfPdu,
    [s \in 1..2 |-> [subtype |-> 5, sv |-> s - 1]],
    <<[subtype |-> {5}, version |-> {0}]>>)

TscfV1Pdu ==
  Layout(40, <<
    <<"subtype", 1>>, <<"sv_version_flags", 1, [sv |-> <<7, 7>>,
    version |-> <<6, 4>>, mr |-> <<3, 3>>, tv |-> <<0, 0>>]>>,
    <<"sequence_num_lsb", 1>>, <<"reserved_tu", 1, [tu |-> <<0, 0>>]>>,
    <<"stream_id", 8>>, <<"sequence_num", 4>>, <<"avtp_timestamp", 8>>,
    <<"ptp_grandmaster_identity", 8>>, <<"_", 4>>, <<"stream_data_length", 2>>,
    <<"_", 2>>>>)

TscfV1PduFormat ==
  Format(TscfV1Pdu,
    [s \in 1..2 |-> [subtype |-> 5, sv |-> s - 1, version |-> 1]],
    <<[subtype |-> {5}, version |-> {1}]>>)

\* Mutant: the mask of the length field is one bit too wide.
NtscfPdu_mut ==
  Layout(12, <<
    <<"subtype", 1>>, <<"sv_version_length", 2, [sv |-> <<15, 15>>,
    version |-> <<14, 12>>, ntscf_data_length |-> <<12, 0>>]>>,
    <<"sequence_num_lsb", 1>>, <<"stream_id", 8>>>>)

NtscfPdu ==
  Layout(12, <<
    <<"subtype", 1>>, <<"sv_version_length", 2, [sv |-> <<15, 15>>,
    version |-> <<14, 12>>, ntscf_data_length |-> <<10, 0>>]>>,
    <<"sequence_num_lsb", 1>>, <<"stream_id", 8>>>>)

NtscfPduFormat ==
  Format(NtscfPdu,
    [s \in 1..2 |-> [subtype |-> 130, sv |-> s - 1]],
    <<[subtype |-> {130}, version |-> {0}]>>)

NtscfV1Pdu ==
  Layout(28, <<
    <<"subtype", 1>>, <<"sv_version_rsv", 1, [sv |-> <<7, 7>>,
    version |-> <<6, 4>>]>>, <<"_", 2>>, <<"sequence_num", 4>>,
    <<"ptp_grandmaster_identity", 8>>,
    <<"rsv_r_length", 2, [ntscf_data_length |-> <<10, 0>>]>>,
    <<"sequence_num_lsb", 1>>, <<"_", 1>>, <<"stream_id", 8>>>>)

NtscfV1PduFormat ==
  Format(NtscfV1Pdu,
    [s \in 1..2 |-> [subtype |-> 130, sv |-> s - 1, version |-> 1]],
    <<[subtype |-> {130}, version |-> {1}]>>)

EscfPdu ==
  Layout(12, <<
    <<"subtype", 1>>, <<"r_version_sig", 1, [version |-> <<6, 4>>,
    sig |-> <<3, 0>>]>>,
    <<"rsv_control_data_length", 2, [control_data_length |-> <<10, 0>>]>>,
    <<"key_id", 8>>>>)

EscfPduFormat ==
  Format(EscfPdu,
    <<[subtype |-> 236]>>,
    <<[subtype |-> {236}, version |-> {0}]>>)

EecfPdu ==
  Layout(12, <<
    <<"subtype", 1>>, <<"r_version_enc", 1, [version |-> <<6, 4>>,
    enc |-> <<3, 0>>]>>,
    <<"rsv_encrypted_payload_length", 2, [encrypted_payload_length |-> <<10, 0>>]>>,
    <<"key_id", 8>>>>)

EecfPduFormat ==
  Format(EecfPdu,
    <<[subtype |-> 237]>>,
    <<[subtype |-> {237}, version |-> {0}]>>)

AefContinuousPdu ==
  Layout(12, <<
    <<"subtype", 1>>, <<"r_version_enc", 1, [version |-> <<6, 4>>,
    enc |-> <<3, 0>>]>>, <<"stream_data_length", 2>>, <<"key_id", 8>>>>)

AefContinuousPduFormat ==
  Format(AefContinuousPdu,
    <<[subtype |-> 110]>>,
    <<[subtype |-> {110}, version |-> {0}]>>)

AefDiscretePdu ==
  Layout(12, <<
    <<"subtype", 1>>, <<"r_version_enc", 1, [version |-> <<6, 4>>,
    enc |-> <<3, 0>>]>>,
    <<"rsv_control_data_length", 2, [control_data_length |-> <<10, 0>>]>>,
    <<"key_id", 8>>>>)

AefDiscretePduFormat ==
  Format(AefDiscretePdu,
    <<[subtype |-> 238]>>,
    <<[subtype |-> {238}, version |-> {0}]>>)

MaapDu ==
  Layout(28, <<
    <<"subtype", 1>>, <<"sv_version_msgtype", 1, [sv |-> <<7, 7>>,
    version |-> <<6, 4>>, message_type |-> <<3, 0>>]>>,
    <<"maap_version_datalen", 2, [maap_version |-> <<15, 11>>,
    maap_data_length |-> <<10, 0>>]>>, <<"stream_id", 8>>,
    <<"requested_start_address", 6>>, <<"requested_count", 2>>,
    <<"conflict_start_address", 6>>, <<"conflict_count", 2>>>>)

MaapDuFormat ==
  Format(MaapDu,
    [t \in 1..3 |-> [subtype |-> 254, message_type |-> t, maap_version |-> 1,
                   maap_data_length |-> 16]],
    <<[subtype |-> {254}, message_type |-> 1..3]>>)

AvtpFormats ==
  <<AafPduFormat, AafV1PduFormat, AvtpStreamHeaderFormat, Cip61883HeaderFormat,
    Am824PduFormat, AvtpStreamHeaderV1Format, Am824V1PduFormat, CrfPduFormat,
    CrfV1PduFormat, TscfPduFormat, TscfV1PduFormat, NtscfPduFormat,
    NtscfV1PduFormat, EscfPduFormat, EecfPduFormat, AefContinuousPduFormat,
    AefDiscretePduFormat, MaapDuFormat>>

-----------------------------------------------------------------------------
(***************************************************************************)
(* The wire structures of key management: the key exchange and the two     *)
(* AUTH exchanges, wrapped keys, signed public keys, the IEEE 1722.1 ECC   *)
(* keys, and the Ethernet frames that carry them.  Each is written by a    *)
(* serialize function that advances an offset over its members and read    *)
(* back by the deserialize function beside it.                             *)
(***************************************************************************)
\* Octets of the keys of the crypto library.
nonce_size == 8
key_id_size == 8
aes_block_size == 16
p256_field_element_size == 32
KeyOctets ==
  [aes128 |-> 16, aes256 |-> 32, aes128_siv |-> 32, aes256_siv |-> 64,
   ed25519 |-> 32, x25519 |-> 32, p256 |-> 64, signature |-> 64]

KeyExchangeInits == <<[message_type |-> 1], [message_type |-> 2]>>
KeyExchangeValid == <<[message_type |-> {1, 2}]>>

Ed25519KeyExchangePdu ==
  Format(Layout(129, <<
    <<"message_type", 1>>, <<"sender_identity", KeyOctets.ed25519>>,
    <<"ephemeral_pubkey", KeyOctets.x25519>>,
    <<"signature", KeyOctets.signature>>>>),
    KeyExchangeInits, KeyExchangeValid)

P256KeyExchangePdu ==
  Format(Layout(193, <<
    <<"message_type", 1>>, <<"sender_identity", KeyOctets.p256>>,
    <<"ephemeral_pubkey", KeyOctets.p256>>,
    <<"signature", KeyOctets.signature>>>>),
    KeyExchangeInits, KeyExchangeValid)

AuthGetNoncePayload ==
  Layout(8, <<<<"controller_nonce", nonce_size>>>>)

AuthGetNonceResponsePayload ==
  Layout(16, <<<<"controller_nonce", nonce_size>>,
               <<"target_nonce", nonce_size>>>>)

AuthAddKeyNonceHeader ==
  Layout(28, <<
    <<"controller_nonce", nonce_size>>, <<"target_nonce", nonce_size>>,
    <<"key_id", key_id_size>>,
    <<"key", 2, [key_type |-> <<15, 12>>, key_length |-> <<11, 0>>]>>,
    <<"_", 2>>>>)

AuthAddKeyNonceResponsePayload ==
  Layout(24, <<<<"controller_nonce", nonce_size>>,
               <<"target_nonce", nonce_size>>, <<"key_id", key_id_size>>>>)

----------------------------------------------------------------------------
WrappedKey(type, len) ==
  Layout(len, <<<<"ciphertext", KeyOctets[type]>>,
                <<"siv_tag", aes_block_size>>>>)

Aes128WrappedKey == WrappedKey("aes128", 32)
Aes256WrappedKey == WrappedKey("aes256", 48)
Aes128SivWrappedKey == WrappedKey("aes128_siv", 48)
Aes256SivWrappedKey == WrappedKey("aes256_siv", 80)

SignedPublicKeyEntry(type, len) ==
  Layout(len, <<
    <<"key_id", key_id_size>>, <<"related_key_id", key_id_size>>,
    <<"public_key", KeyOctets[type]>>, <<"signature_key_id", key_id_size>>,
    <<"signature", KeyOctets.signature>>>>)

Ed25519SignedPublicKeyEntry == SignedPublicKeyEntry("ed25519", 120)
X25519SignedPublicKeyEntry == SignedPublicKeyEntry("x25519", 120)
P256SignedPublicKeyEntry == SignedPublicKeyEntry("p256", 152)
P256SignedX25519PublicKeyEntry == SignedPublicKeyEntry("x25519", 120)

\* The members every ECC key starts with.
CurveMembers ==
  <<<<"related_key_id", key_id_size>>>>
    \o [i \in 1..6 |->
         <<<<"field_size", "semimajor", "semiminor", "prime_divisor",
             "generator_x", "generator_y">>[i], p256_field_element_size>>]

EccPublic256Wire ==
  Layout(336, CurveMembers \o <<
    <<"public_x", p256_field_element_size>>,
    <<"public_y", p256_field_element_size>>,
    <<"signature_key_id", key_id_size>>,
    <<"ecdsa_signature_c", p256_field_element_size>>,
    <<"ecdsa_signature_d", p256_field_element_size>>>>)

EccPrivate256Wire ==
  Layout(232, CurveMembers \o
    <<<<"private_scalar", p256_field_element_size>>>>)

\* The octets of an ECC public key that its signature covers.
ecc_public_256_signed_data_size ==
  OffsetOf(EccPublic256Wire, "ecdsa_signature_c")

----------------------------------------------------------------------------
EthernetMembers ==
  <<<<"dest_mac", 6>>, <<"src_mac", 6>>, <<"ethertype", 2>>>>

AVTP_ETHERTYPE == 8944

AemFrame ==
  Format(Layout(38, EthernetMembers \o <<
    <<"subtype", 1>>, <<"type", 1, [message_type |-> <<3, 0>>]>>,
    <<"status_cdl", 2, [status |-> <<15, 11>>,
    control_data_length |-> <<10, 0>>]>>,
    <<"target_entity_id", 8>>, <<"controller_entity_id", 8>>,
    <<"sequence_id", 2>>, <<"command", 2, [u |-> <<15, 15>>,
    command_code |-> <<14, 0>>]>>>>),
    <<[ethertype |-> AVTP_ETHERTYPE, subtype |-> 251, command_code |-> 103,
       control_data_length |-> 20],
      [ethertype |-> AVTP_ETHERTYPE, subtype |-> 251, message_type |-> 1,
       command_code |-> 103, control_data_length |-> 28],
      [ethertype |-> AVTP_ETHERTYPE, subtype |-> 251, command_code |-> 104,
       control_data_length |-> 12],
      [ethertype |-> AVTP_ETHERTYPE, subtype |-> 251, message_type |-> 1,
       command_code |-> 104, control_data_length |-> 36]>>,
    <<[ethertype |-> {AVTP_ETHERTYPE}, subtype |-> {251},
       control_data_length |-> 12..2047]>>)

EecfFrame ==
  Format(Layout(26, EthernetMembers \o <<
    <<"subtype", 1>>, <<"mode", 1, [r |-> <<7, 7>>, version |-> <<6, 4>>,
    enc |-> <<3, 0>>]>>,
    <<"length", 2, [encrypted_payload_length |-> <<10, 0>>]>>, <<"key_id", 8>>>>),
    <<[ethertype |-> AVTP_ETHERTYPE, subtype |-> 237]>>,
    <<[ethertype |-> {AVTP_ETHERTYPE}, subtype |-> {237}, version |-> {0}]>>)

KeyFormats ==
  <<Ed25519KeyExchangePdu, P256KeyExchangePdu, Plain(AuthGetNoncePayload),
    Plain(AuthGetNonceResponsePayload), Plain(AuthAddKeyNonceHeader),
    Plain(AuthAddKeyNonceResponsePayload), Plain(Aes128WrappedKey),
    Plain(Aes256WrappedKey), Plain(Aes128SivWrappedKey),
    Plain(Aes256SivWrappedKey), Plain(Ed25519SignedPublicKeyEntry),
    Plain(X25519SignedPublicKeyEntry), Plain(P256SignedPublicKeyEntry),
    Plain(P256SignedX25519PublicKeyEntry), Plain(EccPublic256Wire),
    Plain(EccPrivate256Wire), AemFrame, EecfFrame>>
=============================================================================
