---------------------------- MODULE ControlValues ----------------------------
(***************************************************************************)
(* The value_details of a CONTROL descriptor: filled in by an init_*       *)
(* function, changed by the build_set_control_* helpers, carried in a      *)
(* SET_CONTROL payload and copied by parse_control_response into the other *)
(* side's descriptor, and read by the typed accessors.  An octet is named  *)
(* <<field, entry, octet>> by the value it is an octet of.                 *)
(***************************************************************************)
EXTENDS Integers, Sequences
LOCAL INSTANCE SequencesExt

CONSTANTS
  CvWidth,      \* bits of an element where its arithmetic is checked
  CvMaxSets     \* changes of a current value

VARIABLES
  cvType,     \* control_value_type without its flags
  cvFlags,    \* its read-only flag
  cvN,        \* number_of_values
  cvMine,     \* value_details of the descriptor that is changed
  cvPeer,     \* value_details of the descriptor at the other end
  cvWire,     \* the payload on its way: whether there is one, and its body
  cvSets,     \* changes so far
  cvAsked     \* the last call's validation, its bounds and its verdict

cvVars == <<cvType, cvFlags, cvN, cvMine, cvPeer, cvWire, cvSets, cvAsked>>

MAX_VALUE_DETAILS == 404

LinearTypes == 0..9
SelectorTypes == 10..20
ArrayTypes == 21..30
CONTROL_SELECTOR_STRING == 20
CONTROL_UTF8 == 31
CONTROL_BODE_PLOT == 32
CONTROL_SMPTE_TIME == 33
CONTROL_SAMPLE_RATE == 34
CONTROL_GPTP_TIME == 35
CONTROL_VENDOR == 16382
ValueTypes == 0..35 \cup {CONTROL_VENDOR}

\* The ten element types of a family, in order: int8 .. uint64, float, double.
ElementSizes == <<1, 1, 2, 2, 4, 4, 8, 8, 4, 8>>

control_value_element_size(vt) ==
  CASE vt \in LinearTypes -> ElementSizes[vt + 1]
    [] vt = CONTROL_SELECTOR_STRING -> 2
    [] vt \in SelectorTypes -> ElementSizes[vt - 9]
    [] vt \in ArrayTypes -> ElementSizes[vt - 20]
    [] vt = CONTROL_SAMPLE_RATE -> 4
    [] vt \in {CONTROL_SMPTE_TIME, CONTROL_GPTP_TIME} -> 10
    [] vt = CONTROL_BODE_PLOT -> 12
    [] OTHER -> 0

control_value_details_length(vt, n) ==
  LET v == control_value_element_size(vt)
  IN  CASE vt \in LinearTypes -> n * (5 * v + 4)
        [] vt \in SelectorTypes -> (n + 2) * v + 2
        [] vt \in ArrayTypes -> 4 + 4 * v + n * v
        [] vt \in {CONTROL_SMPTE_TIME, CONTROL_GPTP_TIME} -> 10
        [] vt = CONTROL_SAMPLE_RATE -> 16
        [] vt = CONTROL_BODE_PLOT -> 48 + n * 12
        [] OTHER -> 0

\* DescriptorControl::value_details_length.
value_details_length(vt, n) ==
  LET length == control_value_details_length(vt, n)
  IN  IF length > MAX_VALUE_DETAILS THEN MAX_VALUE_DETAILS ELSE length

----------------------------------------------------------------------------
(* The writers. *)

\* The octets of field f of entry i.
Field(f, i, size) == [b \in 1..size |-> <<f, i, b>>]

Each(n, octets(_)) == FlattenSeq([i \in 1..n |-> octets(i)])

\* init_linear: n structures {min, max, step, default, current, unit, string}.
init_linear(v, n) ==
  Each(n, LAMBDA i : Field("minimum", i, v) \o Field("maximum", i, v) \o
                     Field("step", i, v) \o Field("default", i, v) \o
                     Field("current", i, v) \o Field("unit", i, 2) \o
                     Field("string", i, 2))

init_selector(v, n) ==
  Field("current", 1, v) \o Field("default", 1, v) \o
  Each(n, LAMBDA i : Field("option", i, v)) \o Field("unit", 1, 2)

init_array(v, n) ==
  Field("minimum", 1, v) \o Field("maximum", 1, v) \o Field("step", 1, v) \o
  Field("default", 1, v) \o Field("unit", 1, 2) \o Field("string", 1, 2) \o
  Each(n, LAMBDA i : Field("current", i, v))

init_bode_plot(n) ==
  Field("header", 1, 48) \o Each(n, LAMBDA i : Field("current", i, 12))

\* init_smpte_time, init_sample_rate and init_gptp_time: one structure.
init_special(size) == Field("current", 1, size)

\* init_utf8 and init_vendor of a value of `size` octets.
init_blob(size) == Field("current", 1, size)

Written(vt, n) ==
  LET v == control_value_element_size(vt)
  IN  CASE vt \in LinearTypes -> init_linear(v, n)
        [] vt \in SelectorTypes -> init_selector(v, n)
        [] vt \in ArrayTypes -> init_array(v, n)
        [] vt = CONTROL_BODE_PLOT -> init_bode_plot(n)
        [] vt = CONTROL_SAMPLE_RATE -> init_special(16)
        [] vt \in {CONTROL_SMPTE_TIME, CONTROL_GPTP_TIME} -> init_special(10)
        [] OTHER -> init_blob(n)

\* The values an init_* function writes: the specials have one.
Values(vt, n) ==
  IF vt \in LinearTypes \cup SelectorTypes \cup ArrayTypes \cup
            {CONTROL_BODE_PLOT} THEN n ELSE 1

----------------------------------------------------------------------------
(* The readers: the octets at an offset, when they are in the buffer. *)

ReadAt(details, at, size) == SubSeq(details, at + 1, at + size)

\* linear_entry: the fields of entry i (from 1).
linear_entry(details, v, i) ==
  LET at == (i - 1) * (5 * v + 4)
  IN  [minimum |-> ReadAt(details, at, v),
       maximum |-> ReadAt(details, at + v, v),
       step |-> ReadAt(details, at + 2 * v, v),
       default |-> ReadAt(details, at + 3 * v, v),
       current |-> ReadAt(details, at + 4 * v, v),
       unit |-> ReadAt(details, at + 5 * v, 2),
       string |-> ReadAt(details, at + 5 * v + 2, 2)]

\* Mutant: the options follow the current value, as if there were no default.
selector_view_mut(details, v, n) ==
  [current |-> ReadAt(details, 0, v), default |-> ReadAt(details, v, v),
   option |-> [i \in 1..n |-> ReadAt(details, i * v, v)],
   unit |-> ReadAt(details, (n + 2) * v, 2)]

selector_view(details, v, n) ==
  [current |-> ReadAt(details, 0, v), default |-> ReadAt(details, v, v),
   option |-> [i \in 1..n |-> ReadAt(details, (i + 1) * v, v)],
   unit |-> ReadAt(details, (n + 2) * v, 2)]

array_view(details, v, n) ==
  [minimum |-> ReadAt(details, 0, v), maximum |-> ReadAt(details, v, v),
   step |-> ReadAt(details, 2 * v, v), default |-> ReadAt(details, 3 * v, v),
   unit |-> ReadAt(details, 4 * v, 2), string |-> ReadAt(details, 4 * v + 2, 2),
   current |-> [i \in 1..n |-> ReadAt(details, 4 + 4 * v + (i - 1) * v, v)]]

control_bode_plot_point(details, i) == ReadAt(details, 48 + (i - 1) * 12, 12)

----------------------------------------------------------------------------
NotAskedYet == [lo |-> 0, hi |-> 0, step |-> 0, value |-> 0, ok |-> FALSE]

Idle == [sent |-> FALSE, body |-> <<>>]

CvInit(vt, n) ==
  /\ cvType = vt
  /\ cvFlags \in BOOLEAN
  /\ cvN = Values(vt, n)
  /\ Len(Written(vt, n)) <= MAX_VALUE_DETAILS
  /\ cvMine = Written(vt, n)
  /\ cvPeer = Written(vt, n)
  /\ cvWire = Idle
  /\ cvSets = 0
  /\ cvAsked = NotAskedYet

\* The octets at..at+size-1 replaced by those of a new current value.
WithCurrent(details, at, i, size) ==
  [p \in DOMAIN details |->
     IF p \in (at + 1)..(at + size) THEN <<"set", i, p - at>> ELSE details[p]]

\* build_set_control_payload: nothing of a text or a vendor blob, whose
\* length type and count do not tell.
build_set_control_payload(details) ==
  [sent |-> TRUE,
   body |-> ReadAt(details, 0, value_details_length(cvType, cvN))]

\* build_set_control_linear_current.
SetLinearCurrent(i) ==
  LET v == control_value_element_size(cvType)
      mine == WithCurrent(cvMine, (i - 1) * (5 * v + 4) + 4 * v, i, v)
  IN  /\ cvType \in LinearTypes /\ i \in 1..cvN
      /\ cvSets < CvMaxSets
      /\ cvMine' = mine
      /\ cvWire' = build_set_control_payload(mine)
      /\ cvSets' = cvSets + 1
      /\ cvAsked' = NotAskedYet
      /\ UNCHANGED <<cvType, cvFlags, cvN, cvPeer>>

\* build_set_control_selector_current: init_selector without flags.
SetSelectorCurrent ==
  LET v == control_value_element_size(cvType)
      mine == WithCurrent(cvMine, 0, 1, v)
  IN  /\ cvType \in SelectorTypes \ {CONTROL_SELECTOR_STRING}
      /\ cvSets < CvMaxSets
      /\ cvMine' = mine
      /\ cvFlags' = FALSE
      /\ cvWire' = build_set_control_payload(mine)
      /\ cvSets' = cvSets + 1
      /\ cvAsked' = NotAskedYet
      /\ UNCHANGED <<cvType, cvN, cvPeer>>

\* A descriptor re-sent as it stands.
SendControl ==
  /\ cvSets < CvMaxSets
  /\ cvWire' = build_set_control_payload(cvMine)
  /\ cvSets' = cvSets + 1
  /\ cvAsked' = NotAskedYet
  /\ UNCHANGED <<cvType, cvFlags, cvN, cvMine, cvPeer>>

\* parse_control_response of the first `octets` octets of the body: the
\* length its own type and count tell must be there; a type that tells none
\* takes what came.
parse_control_response(octets) ==
  LET expected == value_details_length(cvType, cvN)
      body == ReadAt(cvWire.body, 0, octets)
  IN  /\ cvWire.sent /\ octets \in 0..Len(cvWire.body)
      /\ cvPeer' = IF expected = 0 THEN body
                   ELSE IF octets < expected THEN cvPeer
                   ELSE ReadAt(body, 0, expected)
      /\ cvWire' = Idle
      /\ UNCHANGED <<cvType, cvFlags, cvN, cvMine, cvSets, cvAsked>>

\* The element types that are integers, and which of them are signed.
IntegerType(vt) == vt \in 0..7 \cup 21..28
SignedType(vt) == (vt \in LinearTypes /\ vt % 2 = 0) \/
                  (vt \in ArrayTypes /\ vt % 2 = 1)

Elements ==
  IF SignedType(cvType) THEN (-(2 ^ (CvWidth - 1)))..(2 ^ (CvWidth - 1) - 1)
  ELSE 0..(2 ^ CvWidth - 1)

\* validate_linear_current and validate_array_current.
validate_current(lo, hi, step, value) ==
  LET unsigned(x) == x % (2 ^ CvWidth)
      delta == unsigned(unsigned(value) - unsigned(lo))
  IN  /\ value >= lo /\ value <= hi
      /\ step # 0 => delta % unsigned(step) = 0

ValidateCurrent(lo, hi, step, value) ==
  /\ IntegerType(cvType) /\ cvSets = 0 /\ cvAsked = NotAskedYet
  /\ {lo, hi, step, value} \subseteq Elements
  /\ cvAsked' = [lo |-> lo, hi |-> hi, step |-> step, value |-> value,
                 ok |-> validate_current(lo, hi, step, value)]
  /\ UNCHANGED <<cvType, cvFlags, cvN, cvMine, cvPeer, cvWire, cvSets>>

----------------------------------------------------------------------------
\* Octets are those of field f of entry i, or of the value it was set to.
Holds(octets, f, i, size) ==
  \/ octets = Field(f, i, size)
  \/ f = "current" /\ octets = Field("set", i, size)

\* What the accessors read from a descriptor's details.
ReadsBack(details) ==
  LET v == control_value_element_size(cvType)
  IN  CASE cvType \in LinearTypes ->
             \A i \in 1..cvN :
               LET entry == linear_entry(details, v, i)
               IN  \A f \in DOMAIN entry :
                     Holds(entry[f], f, i, IF f \in {"unit", "string"}
                                             THEN 2 ELSE v)
        [] cvType \in SelectorTypes ->
             LET view == selector_view(details, v, cvN)
             IN  /\ Holds(view.current, "current", 1, v)
                 /\ Holds(view.default, "default", 1, v)
                 /\ Holds(view.unit, "unit", 1, 2)
                 /\ \A i \in 1..cvN : Holds(view.option[i], "option", i, v)
        [] cvType \in ArrayTypes ->
             LET view == array_view(details, v, cvN)
             IN  /\ \A f \in {"minimum", "maximum", "step", "default"} :
                      Holds(view[f], f, 1, v)
                 /\ \A f \in {"unit", "string"} : Holds(view[f], f, 1, 2)
                 /\ \A i \in 1..cvN : Holds(view.current[i], "current", i, v)
        [] cvType = CONTROL_BODE_PLOT ->
             \A i \in 1..cvN :
               Holds(control_bode_plot_point(details, i), "current", i, 12)
        [] OTHER -> TRUE

\* A control's details survive the trip.  Whatever init_* wrote, however
\* often a current value was changed, every accessor reads the value of the
\* field it names, at both ends, and a payload cut short changes nothing at
\* the receiver; the length computed from type and count is the length the
\* writers fill, wherever the type tells it; a payload received whole makes
\* the two descriptors equal; and the validators accept an integer exactly
\* when it is within the bounds and a whole number of (positive) steps above
\* the minimum, over the full range of signed and unsigned elements.
ControlReadsBack ==
  /\ ReadsBack(cvMine)
  /\ ReadsBack(cvPeer)
  /\ value_details_length(cvType, cvN) \in {0, Len(cvMine)}
  /\ (cvWire.sent /\ value_details_length(cvType, cvN) # 0) =>
       cvWire.body = cvMine
  /\ (cvAsked # NotAskedYet /\ cvAsked.step >= 0) =>
       (cvAsked.ok <=>
          /\ cvAsked.value \in cvAsked.lo..cvAsked.hi
          /\ cvAsked.step > 0 =>
               \E m \in 0..(2 ^ CvWidth) :
                 cvAsked.value = cvAsked.lo + m * cvAsked.step)
=============================================================================
