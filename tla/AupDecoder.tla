----------------------------- MODULE AupDecoder -----------------------------
(***************************************************************************)
(* unilux::aup::Decoder: the byte-at-a-time parser of src/aup.cpp.         *)
(*                                                                         *)
(* consume(byte) is one step; its switch over state_ is the disjunction    *)
(* Consume, one operator per case.  `out` is the optional<Frame> the last  *)
(* call returned: <<>> for nullopt, <<frame>> otherwise.                   *)
(***************************************************************************)
EXTENDS AupFrame

CONSTANT MaxLength  \* bound: the line declares no payload longer than this

ASSUME MaxLengthAssumption == MaxLength \in Nat

VARIABLES
  state_,   \* position within the frame being assembled
  frame_,   \* the frame being assembled
  read_,    \* payload bytes accumulated, a uint16_t
  out       \* what the last consume() returned

vars == <<state_, frame_, read_, out>>

State == {"MAGIC1", "MAGIC2", "CHECKSUM", "FLAG", "TYPE", "COMMAND",
          "LENGTH1", "LENGTH2", "PAYLOAD"}

\* The states in which the header's start marker has been accepted.
InFrame == State \ {"MAGIC1", "MAGIC2"}

EmptyFrame == [checksum |-> 0, flag |-> 0, type |-> 0, command |-> 0,
               length |-> 0, payload |-> <<>>]

\* A Decoder constructed without an initialiser leaves the integer fields of
\* frame_ indeterminate; the payload vector is empty.
Init ==
  /\ state_ = "MAGIC1"
  /\ frame_ \in [checksum : Byte, flag : Byte, type : Byte, command : Byte,
                length : Word, payload : {<<>>}]
  /\ read_ = 0
  /\ out = <<>>

\* A fault: reset() leaves the payload counter alone.
ResetKeepsCount ==
  /\ state_' = "MAGIC1"
  /\ frame_' = EmptyFrame
  /\ UNCHANGED read_

\* reset()
Reset ==
  /\ state_' = "MAGIC1"
  /\ frame_' = EmptyFrame
  /\ read_' = 0

Magic1(byte) ==
  /\ state_ = "MAGIC1"
  /\ out' = <<>>
  /\ \/ /\ byte = AUP_MAGIC1
        /\ state_' = "MAGIC2"
        /\ UNCHANGED <<frame_, read_>>
     \/ /\ byte # AUP_MAGIC1
        /\ Reset

\* A fault: any byte but MAGIC2 restarts the hunt, a second MAGIC1 included.
Magic2WithoutCollapse(byte) ==
  /\ state_ = "MAGIC2"
  /\ out' = <<>>
  /\ \/ /\ byte = AUP_MAGIC2
        /\ state_' = "CHECKSUM"
        /\ UNCHANGED <<frame_, read_>>
     \/ /\ byte # AUP_MAGIC2
        /\ Reset

Magic2(byte) ==
  /\ state_ = "MAGIC2"
  /\ out' = <<>>
  /\ \/ /\ byte = AUP_MAGIC2
        /\ state_' = "CHECKSUM"
        /\ UNCHANGED <<frame_, read_>>
     \/ /\ byte = AUP_MAGIC1   \* a run of MAGIC1 is collapsed
        /\ UNCHANGED <<state_, frame_, read_>>
     \/ /\ byte \notin {AUP_MAGIC1, AUP_MAGIC2}
        /\ Reset

\* A fault: the hunt for a marker goes on behind an accepted one.
ChecksumStillHunts(byte) ==
  /\ state_ = "CHECKSUM"
  /\ frame_' = [frame_ EXCEPT !.checksum = byte]
  /\ state_' = IF byte = AUP_MAGIC1 THEN "MAGIC2" ELSE "FLAG"
  /\ out' = <<>>
  /\ UNCHANGED read_

\* The one-byte header fields: store the byte, move to the next position.
Checksum(byte) ==
  /\ state_ = "CHECKSUM"
  /\ frame_' = [frame_ EXCEPT !.checksum = byte]
  /\ state_' = "FLAG"
  /\ out' = <<>>
  /\ UNCHANGED read_

Flag(byte) ==
  /\ state_ = "FLAG"
  /\ frame_' = [frame_ EXCEPT !.flag = byte]
  /\ state_' = "TYPE"
  /\ out' = <<>>
  /\ UNCHANGED read_

Type(byte) ==
  /\ state_ = "TYPE"
  /\ frame_' = [frame_ EXCEPT !.type = byte]
  /\ state_' = "COMMAND"
  /\ out' = <<>>
  /\ UNCHANGED read_

Command(byte) ==
  /\ state_ = "COMMAND"
  /\ frame_' = [frame_ EXCEPT !.command = byte]
  /\ state_' = "LENGTH1"
  /\ out' = <<>>
  /\ UNCHANGED read_

Length1(byte) ==
  /\ state_ = "LENGTH1"
  /\ frame_' = [frame_ EXCEPT !.length = byte * Base]
  /\ state_' = "LENGTH2"
  /\ out' = <<>>
  /\ UNCHANGED read_

\* Hands f over and restarts the hunt.
Deliver(f) ==
  /\ out' = <<f>>
  /\ Reset

\* A fault: an empty frame waits for payload like any other.
Length2WaitsForPayload(byte) ==
  /\ state_ = "LENGTH2"
  /\ frame_' = [frame_ EXCEPT !.length = @ + byte]
  /\ state_' = "PAYLOAD"
  /\ out' = <<>>
  /\ UNCHANGED read_

\* `|=` is an addition: the low byte of frame_.length is zero here.
Length2(byte) ==
  LET f == [frame_ EXCEPT !.length = @ + byte] IN
    /\ state_ = "LENGTH2"
    /\ \/ /\ f.length > 0
          /\ frame_' = f
          /\ state_' = "PAYLOAD"
          /\ out' = <<>>
          /\ UNCHANGED read_
       \/ /\ f.length = 0
          /\ Deliver(f)

Payload(byte) ==
  LET f == [frame_ EXCEPT !.payload = Append(@, byte)]
      n == (read_ + 1) % (Base * Base)
  IN
    /\ state_ = "PAYLOAD"
    /\ \/ /\ n >= f.length
          /\ Deliver(f)
       \/ /\ n < f.length
          /\ frame_' = f
          /\ read_' = n
          /\ out' = <<>>
          /\ UNCHANGED state_

Consume(byte) ==
  \/ Magic1(byte)
  \/ Magic2(byte)
  \/ Checksum(byte)
  \/ Flag(byte)
  \/ Type(byte)
  \/ Command(byte)
  \/ Length1(byte)
  \/ Length2(byte)
  \/ Payload(byte)

\* The line is arbitrary, but for the bound on the lengths it declares.
OnTheLine(byte) ==
  /\ byte \in Byte
  /\ state_ = "LENGTH1" => byte * Base <= MaxLength
  /\ state_ = "LENGTH2" => frame_.length + byte <= MaxLength

Next == \E byte \in Byte : OnTheLine(byte) /\ Consume(byte)

Spec == Init /\ [][Next]_vars

\* The line never falls silent for good.
LiveSpec == Spec /\ WF_vars(Next)

-----------------------------------------------------------------------------
(***************************************************************************)
(* Correctness.                                                            *)
(***************************************************************************)

\* The type of the parser's state; consume() returns at most one frame.
TypeOK ==
  /\ state_ \in State
  /\ frame_ \in Frame
  /\ read_ \in Word
  /\ out \in Seq(Frame) /\ Len(out) <= 1

\* Outside PAYLOAD nothing is left of an earlier frame's payload, whichever
\* way that frame ended (LENGTH2 and PAYLOAD complete frames on two separate
\* paths, MAGIC1 and MAGIC2 give up on two more).
NothingStale ==
  state_ # "PAYLOAD" => frame_.payload = <<>> /\ read_ = 0

\* LENGTH2 adds its byte to a length whose low byte is zero.
LowByteClear ==
  state_ = "LENGTH2" => \E msb \in Byte : frame_.length = FromBytes(msb, 0)

\* In PAYLOAD the 16-bit counter is the size of the payload vector, and the
\* frame still lacks a byte: the counter can neither wrap nor lag behind.
PayloadInProgress ==
  state_ = "PAYLOAD" => /\ read_ = Len(frame_.payload)
                        /\ read_ < frame_.length

\* A delivered frame holds as many payload bytes as its length field declares
\* (aup.hpp: "equals payload.size()"), and the parser is back at MAGIC1.
DeliveredWellFormed ==
  out # <<>> => WellFormed(out[1]) /\ state_ = "MAGIC1"

\* The inductive invariant.
IInv ==
  /\ TypeOK
  /\ NothingStale
  /\ LowByteClear
  /\ PayloadInProgress
  /\ DeliveredWellFormed

\* Once a start marker is accepted a frame is delivered, whatever follows: no
\* byte sequence holds the parser in the middle of a frame for ever.
AcceptedMarkerDelivers == (state_ \in InFrame) ~> (out # <<>>)

-----------------------------------------------------------------------------
(***************************************************************************)
(* Refinement: the parser implements the framing contract.  The matched    *)
(* bytes are the front of the encoding of frame_; a delivered frame stands *)
(* for the bytes the Encoder would produce for it, so the refinement       *)
(* carries the claim that the Encoder is the Decoder's inverse.            *)
(***************************************************************************)

\* How many bytes of the current frame have been matched.
Matched ==
  CASE state_ = "MAGIC1"   -> 0
    [] state_ = "MAGIC2"   -> 1
    [] state_ = "CHECKSUM" -> 2
    [] state_ = "FLAG"     -> 3
    [] state_ = "TYPE"     -> 4
    [] state_ = "COMMAND"  -> 5
    [] state_ = "LENGTH1"  -> 6
    [] state_ = "LENGTH2"  -> 7
    [] state_ = "PAYLOAD"  -> HeaderSize + Len(frame_.payload)

Span == SubSeq(Encode(frame_), 1, Matched)

Got == [i \in 1 .. Len(out) |-> Encode(out[i])]

Framing == INSTANCE AupFraming WITH span <- Span, got <- Got

\* consume(byte) is the contract's reaction to that very byte: it extends the
\* matched bytes, restarts the match at the longest suffix that can still become
\* a frame, or completes a frame that re-encodes to exactly the bytes received.
ConsumeFeeds ==
  [][\A byte \in Byte : Consume(byte) => Framing!Feed(byte)]_vars

\* Hence the decoder implements the contract.
ImplementsFraming == Framing!Spec
=============================================================================
