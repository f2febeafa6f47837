---------------------------- MODULE MessageCodec ----------------------------
(***************************************************************************)
(* The typed messages (include/messages/, src/messages.cpp): what decoding *)
(* makes of the bytes and what encoding makes of the values.               *)
(*                                                                         *)
(* A message type is a table of fields: the offset of each in the payload, *)
(* and its kind.  Bytes no field covers are padding.  The kinds            *)
(*   byte   one byte, taken as it is (counters, enumerations, reserved)    *)
(*   flag   one byte, nonzero for true                                     *)
(*   u16    a temperature, read and written as uint16_t                    *)
(*   i16    a temperature, read and written as int16_t                     *)
(*   i16u   a temperature, read as int16_t, written by a cast to uint16_t  *)
(*   u32    four bytes                                                     *)
(*   unit   a string in a slot of UNIT_LEN bytes                           *)
(* differ in what they do to a value.  Temperatures are integers of 1/Fine *)
(* of a tenth of a degree, as in ClimateEntity; tenths / 10.0f * 10.0f is  *)
(* exact in float for every tenth a field can carry.                       *)
(*                                                                         *)
(* A client of the library holds one message at a time: it decodes one     *)
(* from bytes or composes one from values, and may serialise it.  What was *)
(* serialised can be decoded and serialised again, as when a message is    *)
(* passed on or comes back from the device.                                *)
(***************************************************************************)
EXTENDS Integers, Sequences, FiniteSetsExt, WmmmCodec

CONSTANTS
  Base,      \* number of byte values, 256 in the code
  Fine,      \* how many steps of a float temperature make one tenth
  Received,  \* bound: the WMMM bytes that arrive
  Composed   \* bound: the messages a client builds

ASSUME CodecAssumption ==
  /\ Base \in Nat /\ Base % 2 = 0 /\ Base > 0
  /\ Fine \in Nat \ {0}

VARIABLES
  build,     \* how this build casts a float that uint16_t cannot represent
  phase,     \* "idle", "holding" a message, or "sent"
  data,      \* the bytes that arrived, or that were serialised last
  message,   \* the message the client holds, optional
  sends      \* history: how often a decoded message was serialised, up to 2

vars == <<build, phase, data, message, sends>>

-----------------------------------------------------------------------------
(* The message types.                                                      *)

UNIT_LEN == 8
TRAILING_LEN == 9
DAYS == 7
ENTRIES_PER_DAY == 4
ENTRY_SIZE == 4

TwoTemperatures == [at \in {0, 2} |-> "u16"]
SignedTemperature == [at \in {0} |-> "i16"]
EnumByte == [at \in {0} |-> "byte"]

AllConfigKind(at) ==
  CASE at \in {0, 8, 12, 14, 46, 48, 50} -> "i16u"
    [] at \in {16, 28} -> "u32"
    [] at \in {20, 32} -> "unit"
    [] OTHER -> "byte"

\* A fault: the last of the trailing bytes is left out.
AllConfigCutShort ==
  [at \in {0, 8, 12, 14, 16, 20, 28, 32, 46, 48, 50} \cup (2 .. 7) \cup {10, 11}
           \cup (40 .. 45) \cup (52 .. 50 + TRAILING_LEN) |-> AllConfigKind(at)]

AllConfig ==
  [at \in {0, 8, 12, 14, 16, 20, 28, 32, 46, 48, 50} \cup (2 .. 7) \cup {10, 11}
           \cup (40 .. 45) \cup (52 .. 51 + TRAILING_LEN) |-> AllConfigKind(at)]

\* Hour, minute and setpoint of every entry of the week.
Entry == {4 + n * ENTRY_SIZE : n \in 0 .. DAYS * ENTRIES_PER_DAY - 1}
Schedule ==
  [at \in (0 .. 3) \cup UNION {{n, n + 1, n + 2} : n \in Entry} |->
     IF at - 2 \in Entry THEN "i16u" ELSE "byte"]

\* The other message types, four bytes each.
Temperature       == TwoTemperatures
TargetTemperature == TwoTemperatures
Mode              == EnumByte
Power             == [at \in {0} |-> "flag"]
FanSpeed          == EnumByte
TemperatureOffset == SignedTemperature
SwitchingDiffHeat == SignedTemperature
SwitchingDiffCool == SignedTemperature
ChangeoverHeat    == SignedTemperature
ChangeoverCool    == SignedTemperature
SystemMode        == EnumByte
DisplayUnit       == EnumByte

\* The alternatives of AnyMessage; the id byte is represented by the name.
Fields ==
  [Temperature       |-> Temperature,
   TargetTemperature |-> TargetTemperature,
   Mode              |-> Mode,
   Power             |-> Power,
   FanSpeed          |-> FanSpeed,
   AllConfig         |-> AllConfig,
   Schedule          |-> Schedule,
   TemperatureOffset |-> TemperatureOffset,
   SwitchingDiffHeat |-> SwitchingDiffHeat,
   SwitchingDiffCool |-> SwitchingDiffCool,
   ChangeoverHeat    |-> ChangeoverHeat,
   ChangeoverCool    |-> ChangeoverCool,
   SystemMode        |-> SystemMode,
   DisplayUnit       |-> DisplayUnit]

AnyMessage == DOMAIN Fields

PAYLOAD_SIZE ==
  [m \in AnyMessage |->
     CASE m = "AllConfig" -> 61
       [] m = "Schedule"  -> 4 + DAYS * ENTRIES_PER_DAY * ENTRY_SIZE
       [] OTHER           -> 4]

Width(kind) ==
  CASE kind \in {"byte", "flag"}        -> 1
    [] kind \in {"u16", "i16", "i16u"}  -> 2
    [] kind = "u32"                     -> 4
    [] kind = "unit"                    -> UNIT_LEN

-----------------------------------------------------------------------------
(* Numbers, temperatures and strings.                                      *)

Byte == 0 .. Base - 1
Word == Base * Base

from_be16(bytes) == bytes[1] * Base + bytes[2]
from_be32(bytes) ==
  ((bytes[1] * Base + bytes[2]) * Base + bytes[3]) * Base + bytes[4]

\* A fault: least significant byte first.
to_be16_reversed(value) == <<value % Base, (value \div Base) % Base>>

to_be16(value) == <<(value \div Base) % Base, value % Base>>
to_be32(value) ==
  <<(value \div (Word * Base)) % Base, (value \div Word) % Base,
    (value \div Base) % Base, value % Base>>

\* A fault: the sign bit is not looked at.
SignedNever(word) == word

\* A 16-bit word read as int16_t.
Signed(word) == IF word < Word \div 2 THEN word ELSE word - Word

\* A cast from float drops the fraction, towards zero.
ToTenths(v) == IF v >= 0 THEN v \div Fine ELSE - ((- v) \div Fine)
FromTenths(tenths) == tenths * Fine

\* Beyond the target type's range a cast from float is undefined.  Depending on
\* the target, builds keep the low 16 bits or the nearest representable value.
Cast(tenths, low, high) ==
  CASE build = "wraps"     -> tenths % Word
    [] build = "saturates" -> (IF tenths < low THEN low
                               ELSE IF tenths > high THEN high
                               ELSE tenths) % Word

\* How many characters there are, before a NUL and within the slot.
UnitLength(bytes) ==
  CHOOSE n \in 0 .. UNIT_LEN :
    /\ n <= Len(bytes) /\ \A i \in 1 .. n : bytes[i] # 0
    /\ n = UNIT_LEN \/ n = Len(bytes) \/ bytes[n + 1] = 0

read_unit(bytes) == SubSeq(bytes, 1, UnitLength(bytes))

\* A fault: the last byte of the slot is kept for a NUL.
write_unit_terminated(value) ==
  [i \in 1 .. UNIT_LEN |->
     IF i <= Len(value) /\ i < UNIT_LEN THEN value[i] ELSE 0]

\* write_unit: cut to the slot, the rest of it NUL.
write_unit(value) ==
  [i \in 1 .. UNIT_LEN |-> IF i <= Len(value) THEN value[i] ELSE 0]

DecodeField(kind, bytes) ==
  CASE kind = "byte" -> bytes[1]
    [] kind = "flag" -> bytes[1] # 0
    [] kind = "u16"  -> FromTenths(from_be16(bytes))
    [] kind \in {"i16", "i16u"} -> FromTenths(Signed(from_be16(bytes)))
    [] kind = "u32"  -> from_be32(bytes)
    [] kind = "unit" -> read_unit(bytes)

EncodeField(kind, value) ==
  CASE kind = "byte" -> <<value>>
    [] kind = "flag" -> IF value THEN <<1>> ELSE <<0>>
    [] kind \in {"u16", "i16u"} -> to_be16(Cast(ToTenths(value), 0, Word - 1))
    [] kind = "i16"  ->
         to_be16(Cast(ToTenths(value), - (Word \div 2), (Word \div 2) - 1))
    [] kind = "u32"  -> to_be32(value)
    [] kind = "unit" -> write_unit(value)

-----------------------------------------------------------------------------
(* Whole messages.                                                         *)

Slot(payload, at, kind) == SubSeq(payload, at + 1, at + Width(kind))

\* decode() of the message type m.
Decode(m, payload) ==
  [id    |-> m,
   value |-> [at \in DOMAIN Fields[m] |->
                DecodeField(Fields[m][at], Slot(payload, at, Fields[m][at]))]]

\* decode_message: the type with the frame's id, if the payload has its size.
decode_message(frame) ==
  IF frame.msg_id \in AnyMessage
     /\ Len(frame.payload) = PAYLOAD_SIZE[frame.msg_id]
  THEN <<Decode(frame.msg_id, frame.payload)>>
  ELSE <<>>

\* The field that byte number i of the payload belongs to, if any.
Owner ==
  [m \in AnyMessage |->
     [i \in 1 .. PAYLOAD_SIZE[m] |->
        {at \in DOMAIN Fields[m] : at < i /\ i <= at + Width(Fields[m][at])}]]

\* encode() of a message: padding and reserved bytes are zero.
encode(msg) ==
  LET slot == [at \in DOMAIN Fields[msg.id] |->
                 EncodeField(Fields[msg.id][at], msg.value[at])]
  IN  [msg_id   |-> msg.id,
       reserved |-> <<0, 0, 0>>,
       payload  |-> [i \in 1 .. PAYLOAD_SIZE[msg.id] |->
                       IF Owner[msg.id][i] = {} THEN 0
                       ELSE LET at == CHOOSE x \in Owner[msg.id][i] : TRUE
                            IN  slot[at][i - at]]]

\* decode_message of what arrives, if it is a frame.
Parse(bytes) ==
  LET frame == WmmmDecode(bytes)
  IN  IF frame = <<>> THEN <<>> ELSE decode_message(frame[1])

-----------------------------------------------------------------------------
(* The client.                                                             *)

\* What a member of a message type can hold, decoded or not.
Value(kind) ==
  CASE kind = "byte" -> Byte
    [] kind = "flag" -> BOOLEAN
    [] kind \in {"u16", "i16", "i16u"} -> Int
    [] kind = "u32"  -> 0 .. Word * Word - 1
    [] kind = "unit" -> Seq(Byte)

IsMessage(msg) ==
  /\ msg.id \in AnyMessage
  /\ msg = [id    |-> msg.id,
            value |-> [at \in DOMAIN Fields[msg.id] |-> msg.value[at]]]
  /\ \A at \in DOMAIN Fields[msg.id] : msg.value[at] \in Value(Fields[msg.id][at])

\* Nothing, or an id and bytes.
IsData(bytes) ==
  \/ bytes = <<>>
  \/ bytes = <<bytes[1]>> \o Tail(bytes) /\ Tail(bytes) \in Seq(Byte)

ASSUME ReceivedAssumption == \A bytes \in Received : IsData(bytes)
ASSUME ComposedAssumption == \A msg \in Composed : IsMessage(msg)

Init ==
  /\ build \in {"wraps", "saturates"}
  /\ phase = "idle"
  /\ data = <<>>
  /\ message = <<>>
  /\ sends = 0

Receive(bytes) ==
  /\ phase = "idle"
  /\ data' = bytes
  /\ message' = Parse(bytes)
  /\ phase' = "holding"
  /\ UNCHANGED <<build, sends>>

Compose(msg) ==
  /\ phase = "idle"
  /\ message' = <<msg>>
  /\ phase' = "holding"
  /\ UNCHANGED <<build, data, sends>>

Send ==
  /\ phase = "holding"
  /\ message # <<>>
  /\ sends < 2
  /\ data' = WmmmEncode(encode(message[1]))
  /\ sends' = IF data = <<>> THEN sends ELSE sends + 1
  /\ phase' = "sent"
  /\ UNCHANGED <<build, message>>

\* Whoever gets the bytes decodes them.
Echo ==
  /\ phase = "sent"
  /\ message' = Parse(data)
  /\ phase' = "holding"
  /\ UNCHANGED <<build, data, sends>>

\* The library remembers nothing of a message its client has dropped.
Drop ==
  /\ phase # "idle"
  /\ phase' = "idle"
  /\ data' = <<>>
  /\ message' = <<>>
  /\ sends' = 0
  /\ UNCHANGED build

Next ==
  \/ \E bytes \in Received : Receive(bytes)
  \/ \E msg \in Composed : Compose(msg)
  \/ Send
  \/ Echo
  \/ Drop

Spec == Init /\ [][Next]_vars

-----------------------------------------------------------------------------
(***************************************************************************)
(* Correctness.                                                            *)
(***************************************************************************)

\* The values a field of some kind can have after decoding.
DecodedValue(kind, v) ==
  CASE kind = "byte" -> v \in 0 .. Base - 1
    [] kind = "flag" -> v \in BOOLEAN
    [] kind = "u16"  -> ToTenths(v) \in 0 .. Word - 1
    [] kind \in {"i16", "i16u"} ->
         ToTenths(v) \in - (Word \div 2) .. (Word \div 2) - 1
    [] kind = "u32"  -> v \in 0 .. Word * Word - 1
    [] kind = "unit" -> Len(v) <= UNIT_LEN /\ \A i \in DOMAIN v : v[i] # 0

InRange(msg) ==
  \A at \in DOMAIN Fields[msg.id] : DecodedValue(Fields[msg.id][at], msg.value[at])

TypeOK ==
  /\ build \in {"wraps", "saturates"}
  /\ phase \in {"idle", "holding", "sent"}
  /\ sends \in 0 .. 2
  /\ message # <<>> => message = <<message[1]>> /\ IsMessage(message[1])

\* Every field of a decoded message is in its range, what a client got is what the
\* bytes say, and what it has sent twice no longer changes.
IInv ==
  /\ TypeOK
  /\ phase = "idle" => data = <<>> /\ message = <<>> /\ sends = 0
  /\ phase = "sent" =>
       /\ message # <<>> /\ data = WmmmEncode(encode(message[1]))
       /\ sends > 0 => InRange(message[1])
  /\ phase = "holding" /\ data = <<>> => sends = 0
  /\ phase = "holding" /\ data # <<>> =>
       /\ IsData(data) /\ message = Parse(data)
       /\ message # <<>> => InRange(message[1])
       /\ sends > 0 => message # <<>> /\ WmmmEncode(encode(message[1])) = data

\* What becomes of a value on its way over the wire: a temperature is cut to
\* tenths, a string to what fits the slot and precedes a NUL.
Delivered(kind, v) ==
  CASE kind \in {"u16", "i16", "i16u"} -> FromTenths(ToTenths(v))
    [] kind = "unit" ->
         SubSeq(v, 1, Max({n \in 0 .. UNIT_LEN :
                             n <= Len(v) /\ \A i \in 1 .. n : v[i] # 0}))
    [] OTHER -> v

\* The values a field can carry.  Below zero that depends on the build where a
\* temperature is cast to uint16_t but read as int16_t.
Fits(kind, v) ==
  CASE kind = "u16" -> ToTenths(v) \in 0 .. Word - 1
    [] kind = "i16" -> ToTenths(v) \in - (Word \div 2) .. (Word \div 2) - 1
    [] kind = "i16u" -> /\ ToTenths(v) \in - (Word \div 2) .. (Word \div 2) - 1
                        /\ build = "wraps" \/ ToTenths(v) >= 0
    [] OTHER -> TRUE

\* The receiver reads what the sender meant (message.hpp: encode is the inverse
\* of decode): no field is misplaced, overlaps another or has its bytes swapped.
EchoExact ==
  phase = "sent" =>
    LET msg    == message[1]
        fields == Fields[msg.id]
    IN  (\A at \in DOMAIN fields : Fits(fields[at], msg.value[at])) =>
          Parse(data) =
            <<[id |-> msg.id,
               value |-> [at \in DOMAIN fields |->
                            Delivered(fields[at], msg.value[at])]]>>

\* A message that has been decoded changes at most the first time it is passed on:
\* the second serialisation gives the same bytes, also where the cast is undefined.
\* (One that was composed may change twice, if a string has a NUL inside.)
Settles == [][Send /\ sends > 0 => data' = data]_vars

\* The offsets of the payload whose bytes only stand for themselves: all of a
\* message but padding, switches, strings and temperatures with a sign.
Carried ==
  [m \in AnyMessage |->
     CASE m \in {"Temperature", "TargetTemperature"} -> 0 .. 3
       [] m \in {"Mode", "FanSpeed", "SystemMode", "DisplayUnit"} -> {0}
       [] m = "Power"     -> {}
       [] m = "AllConfig" -> (0 .. 60) \ ((20 .. 27) \cup (32 .. 39) \cup
                               {0, 1, 8, 9, 12, 13, 14, 15} \cup (46 .. 51))
       [] m = "Schedule"  -> {at \in 0 .. 115 : at < 4 \/ at % 4 < 2}
       [] OTHER           -> {0, 1}]

\* Bytes the library does not interpret survive decoding and encoding, whatever
\* they are (all_config.hpp: "carried verbatim"; mode.hpp: "an unrecognised value
\* is carried through verbatim").
CarriedVerbatim ==
  [][Send /\ data # <<>> =>
       \A at \in Carried[message[1].id] :
         data'[HeaderSize + 1 + at] = data[HeaderSize + 1 + at]]_vars

\* What all_config.hpp says of the uninterpreted bytes: they are "carried verbatim
\* so that encode is an exact inverse of decode".
AllConfigExactInverse ==
  [][Send /\ data # <<>> /\ message[1].id = "AllConfig" =>
       SubSeq(data', HeaderSize + 1, Len(data'))
         = SubSeq(data, HeaderSize + 1, Len(data))]_vars
=============================================================================
