----------------------------- MODULE WireFields -----------------------------
(***************************************************************************)
(* Packed wire structures: members laid out one after the other in network *)
(* byte order, and accessors that read or write a run of bits of one       *)
(* member.  A structure's image is the set of the positions of its one     *)
(* bits, position 0 being the most significant bit of the first octet.     *)
(* The octet_t, doublet_t, quadlet_t and octlet_t members and their        *)
(* get_bits, set_bits, has_flag and set_flag are the ieee library's, which *)
(* is not part of this repository: they are modelled from how the          *)
(* structures use them.                                                    *)
(***************************************************************************)
EXTENDS Integers, Sequences, FiniteSets
LOCAL INSTANCE SequencesExt
LOCAL INSTANCE FiniteSetsExt
LOCAL INSTANCE TLC

\* Bits hi..lo (0 is the least significant) of the big-endian member of n
\* octets that starts at octet o, as the positions of the first and last bit.
get_bits(o, n, hi, lo) == <<8 * (o + n) - 1 - hi, 8 * (o + n) - 1 - lo>>

\* A structure of `len` octets.  Each member is <<name, octets>>, or
\* <<name, octets, parts>> when the accessors reach parts of it.
Layout(len, members) ==
  LET start[i \in 1..(Len(members) + 1)] ==
        IF i = 1 THEN 0 ELSE start[i - 1] + members[i - 1][2]
      parts(i) == IF Len(members[i]) = 2 THEN {members[i][1]}
                  ELSE DOMAIN members[i][3]
      bits(i, name) ==
        LET m == members[i]
        IN  IF Len(m) = 2
              THEN get_bits(start[i], m[2], 8 * m[2] - 1, 0)
              ELSE get_bits(start[i], m[2], m[3][name][1], m[3][name][2])
  IN  [len |-> len, members |-> members,
       octets |-> start[Len(members) + 1],
       at |-> [name \in UNION {parts(i) : i \in DOMAIN members} |->
                 bits(CHOOSE i \in DOMAIN members : name \in parts(i), name)]]

\* The octets of a structure before a member: offsetof.
OffsetOf(layout, name) == layout.at[name][1] \div 8

\* The positions of an accessor's bits.
Span(layout, name) == layout.at[name][1] .. layout.at[name][2]

\* The integer v as the one bits of an accessor (its low 30 bits).
Bits(layout, name, v) ==
  {p \in Span(layout, name) :
     LET k == layout.at[name][2] - p
     IN  k < 30 /\ (v \div (2 ^ k)) % 2 = 1}

\* A getter.
ReadBits(layout, img, name) == img \cap Span(layout, name)

\* A setter.
WriteBits(layout, img, name, bits) == (img \ Span(layout, name)) \cup bits

\* The integer an accessor of at most 30 bits reads.
Number(layout, img, name) ==
  MapThenSumSet(LAMBDA p : 2 ^ (layout.at[name][2] - p),
                ReadBits(layout, img, name))

\* A structure with the values its init functions leave in it (fields that
\* are not named are zero) and the alternatives its is_valid accepts, each a
\* set of integers per field it looks at.
Format(layout, inits, valid) ==
  [layout |-> layout, inits |-> inits, valid |-> valid]

\* A structure without init and is_valid.
Plain(layout) == Format(layout, <<<<>>>>, <<<<>>>>)
=============================================================================
