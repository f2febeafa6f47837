------------------------------ MODULE AupFrame ------------------------------
(***************************************************************************)
(* The AUP wire format (include/aup.hpp): what a frame is and the byte     *)
(* sequence Encoder::encode serialises it to.                              *)
(*                                                                         *)
(*   MAGIC1 MAGIC2 checksum flag type command length(MSB, LSB) payload...  *)
(*                                                                         *)
(* A byte is a number below Base.  The program's Base is 256 and its       *)
(* markers are 0x5A and 0x9E; the model checker uses a small Base, which   *)
(* keeps the format and its arithmetic and shrinks the alphabet.           *)
(***************************************************************************)
EXTENDS Integers, Sequences

CONSTANTS
  Base,         \* number of values of a uint8_t
  AUP_MAGIC1,   \* first byte of the start marker
  AUP_MAGIC2    \* second byte of the start marker

Byte == 0 .. Base - 1

\* The values of a uint16_t: two bytes.
Word == 0 .. Base * Base - 1

ASSUME BaseAssumption == Base \in Nat /\ Base > 1

ASSUME MagicAssumption ==
  /\ AUP_MAGIC1 \in Byte
  /\ AUP_MAGIC2 \in Byte
  /\ AUP_MAGIC1 # AUP_MAGIC2

Frame == [checksum : Byte, flag : Byte, type : Byte, command : Byte,
          length : Word, payload : Seq(Byte)]

\* "Declared payload length; equals payload.size()" (aup.hpp).
WellFormed(f) == f.length = Len(f.payload)

\* The two bytes of a length, most significant first, and back.
Msb(w) == w \div Base
Lsb(w) == w % Base
FromBytes(msb, lsb) == msb * Base + lsb

\* Number of bytes in front of the payload.
HeaderSize == 8

Header(f) ==
  <<AUP_MAGIC1, AUP_MAGIC2, f.checksum, f.flag, f.type, f.command,
    Msb(f.length), Lsb(f.length)>>

\* Encoder::encode: header fields and payload verbatim, nothing escaped.
Encode(f) == Header(f) \o f.payload
=============================================================================
