------------------------------ MODULE PduCodec ------------------------------
(***************************************************************************)
(* Filling in a PDU in place: init puts a format's values into an image,   *)
(* accessors then write single fields of it, and the receiver's accessors, *)
(* is_valid and parse_gptp look at the same octets.  Every format of the   *)
(* protocols is one element of Formats.                                    *)
(***************************************************************************)
EXTENDS AvtpHeaders, ControlPdus, AemFormats
LOCAL INSTANCE Functions

CONSTANT PduMaxWrites    \* accessor calls before the PDU is looked at

VARIABLES
  pduFormat,    \* one of Formats
  pduImg,       \* its octets: the positions of the one bits
  pduWant,      \* what each accessor was last given
  pduWrites     \* accessor calls so far

pduVars == <<pduFormat, pduImg, pduWant, pduWrites>>

Formats ==
  AvtpFormats \o ControlFormats \o AemDescriptorFormats \o AemCommandFormats
    \o KeyFormats

\* The fields that have a getter and a setter.
Accessors(layout) == DOMAIN layout.at \ {"_"}

\* The bits an init leaves in field a.
Initial(layout, init, a) ==
  IF a \in DOMAIN init THEN Bits(layout, a, init[a]) ELSE {}

\* A constructed PDU: zero, then the fields its init sets.
PduInit(f, init) ==
  /\ pduFormat = f
  /\ pduWant = [a \in Accessors(f.layout) |-> Initial(f.layout, init, a)]
  /\ pduImg = UNION {Initial(f.layout, init, a) : a \in Accessors(f.layout)}
  /\ pduWrites = 0

\* The low eight bits of a sequence number of any width, in the copy of them
\* that the formats with a sequence_num_lsb keep.
LowOctet(layout, bits) ==
  LET last == layout.at["sequence_num"][2]
      copy == layout.at["sequence_num_lsb"][2]
  IN  {copy - (last - b) : b \in {b \in bits : last - b < 8}}

\* The fields that the setter of a writes besides a: set_sequence_num keeps
\* the copy, set_fmt of a CIP header also says that this is its second
\* quadlet.
AlsoSets(layout, a, bits) ==
  CASE a = "sequence_num" /\ "sequence_num_lsb" \in DOMAIN layout.at ->
         [sequence_num_lsb |-> LowOctet(layout, bits)]
    [] a = "fmt" /\ "qi2" \in DOMAIN layout.at ->
         [qi2 |-> Bits(layout, "qi2", 2)]
    [] OTHER -> <<>>

\* set_<a>.
PduSet(a, bits) ==
  LET layout == pduFormat.layout
      also == AlsoSets(layout, a, bits)
      img == WriteBits(layout, pduImg, a, bits)
  IN  /\ pduWrites < PduMaxWrites
      /\ pduWrites' = pduWrites + 1
      /\ pduImg' = IF DOMAIN also = {} THEN img
                   ELSE LET b == CHOOSE b \in DOMAIN also : TRUE
                        IN  WriteBits(layout, img, b, also[b])
      /\ pduWant' = [b \in DOMAIN pduWant |->
                       IF b = a THEN bits
                       ELSE IF b \in DOMAIN also THEN also[b] ELSE pduWant[b]]
      /\ UNCHANGED pduFormat

PduSets ==
  \E a \in Accessors(pduFormat.layout) :
    LET at == pduFormat.layout.at[a]
    IN  \E bits \in {{}, {at[1]}, {at[1], at[2]}} : PduSet(a, bits)

\* is_valid, asked of the octets.
PduIsValid(f, img) ==
  \E v \in Range(f.valid) :
    \A a \in DOMAIN v : Number(f.layout, img, a) \in v[a]

\* is_valid, asked of the values the accessors were given.
WantValid(f, want) ==
  \E v \in Range(f.valid) :
    \A a \in DOMAIN v : Number(f.layout, want[a], a) \in v[a]

\* The structure a gPTP message's own type stands for.
GptpMessages ==
  <<SyncMessage, FollowUpMessage, PdelayReqMessage, PdelayRespMessage,
    PdelayRespFollowUpMessage, AnnounceMessage, SignalingMessage>>

----------------------------------------------------------------------------
\* Whatever order the accessors of a PDU are called in, on top of whichever
\* init: the members fill the octets its LENGTH says, each accessor reads
\* exactly what it was last given, whatever was written to its neighbours in
\* the same octet; the freshly initialised PDU is valid, and stays so exactly
\* as long as the fields is_valid looks at keep accepted values; and a whole
\* gPTP message is parsed as the structure it was built from, while one cut
\* by an octet is not.
PduReadsBack ==
  LET layout == pduFormat.layout
  IN  /\ layout.octets = layout.len
      /\ \A a \in Accessors(layout) : ReadBits(layout, pduImg, a) = pduWant[a]
      /\ PduIsValid(pduFormat, pduImg) <=> WantValid(pduFormat, pduWant)
      /\ pduWrites = 0 => PduIsValid(pduFormat, pduImg)
      /\ \A t \in DOMAIN GptpMessages :
           (pduWrites = 0 /\ layout = GptpMessages[t]) =>
             LET type == Number(layout, pduImg, "message_type")
             IN  /\ parse_gptp(layout.len, type) = t
                 /\ parse_gptp(layout.len - 1, type) = "truncated"
=============================================================================
