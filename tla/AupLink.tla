------------------------------ MODULE AupLink ------------------------------
(***************************************************************************)
(* One direction of the UART: the sender puts encoded AUP frames on the    *)
(* line one after the other, the line may lose, damage or add bytes, and   *)
(* UniluxUartComponent::loop() feeds what arrives to the AUP decoder.      *)
(*                                                                         *)
(* AUP escapes nothing and checks nothing, so a fault can cost frames far  *)
(* beyond the one it hits: a lost byte makes the decoder swallow the       *)
(* beginning of the next frame, a damaged length a whole series of them.   *)
(* What is claimed of the link is stated in terms of the faults.           *)
(***************************************************************************)
EXTENDS Integers, Sequences

CONSTANTS
  Base, AUP_MAGIC1, AUP_MAGIC2,
  Frames,       \* the frames the sender sends
  MaxFaults     \* bound: faults of the line

VARIABLES
  state_, frame_, read_, out,   \* the decoder
  cur,        \* optional: the frame on the line
  line,       \* its bytes that are still to arrive
  delivered,  \* the frames the decoder returned since cur was sent
  clean,      \* the line had no fault in cur and the decoder awaited its start
  faults      \* faults so far

decoder == <<state_, frame_, read_, out>>
vars == <<decoder, cur, line, delivered, clean, faults>>

Decoder == INSTANCE AupDecoder WITH MaxLength <- Base * Base - 1

Byte == Decoder!Byte
Hunting == state_ \in {"MAGIC1", "MAGIC2"}

ASSUME AlphabetAssumption ==
  /\ Base \in Nat /\ Base > 1
  /\ AUP_MAGIC1 \in Byte /\ AUP_MAGIC2 \in Byte
  /\ AUP_MAGIC1 # AUP_MAGIC2

ASSUME MaxFaultsAssumption == MaxFaults \in Nat

ASSUME FramesAssumption ==
  \A f \in Frames : f \in Decoder!Frame /\ Decoder!WellFormed(f)

Init ==
  /\ Decoder!Init
  /\ cur = <<>>
  /\ line = <<>>
  /\ delivered = <<>>
  /\ clean = TRUE
  /\ faults = 0

\* The sender starts the next frame.
Transmit(f) ==
  /\ line = <<>>
  /\ cur' = <<f>>
  /\ line' = Decoder!Encode(f)
  /\ delivered' = <<>>
  /\ clean' = Hunting
  /\ UNCHANGED <<decoder, faults>>

\* loop() reads one byte and feeds it to the decoder.
Read(byte) ==
  /\ Decoder!Consume(byte)
  /\ delivered' = delivered \o out'

Arrive ==
  /\ line # <<>>
  /\ Read(Head(line))
  /\ line' = Tail(line)
  /\ UNCHANGED <<cur, clean, faults>>

\* A stray byte between frames, short of completing a start marker.
Stray(byte) ==
  /\ line = <<>>
  /\ Hunting
  /\ ~ (state_ = "MAGIC2" /\ byte = AUP_MAGIC2)
  /\ Read(byte)
  /\ UNCHANGED <<cur, line, clean, faults>>

Fault ==
  /\ faults < MaxFaults
  /\ faults' = faults + 1
  /\ clean' = FALSE
  /\ UNCHANGED <<decoder, cur, delivered>>

Drop ==
  /\ Fault
  /\ line # <<>>
  /\ line' = Tail(line)

Damage(byte) ==
  /\ Fault
  /\ line # <<>>
  /\ line' = <<byte>> \o Tail(line)

Insert(byte) ==
  /\ Fault
  /\ line' = <<byte>> \o line

Next ==
  \/ \E f \in Frames : Transmit(f)
  \/ Arrive
  \/ \E byte \in Byte : Stray(byte) \/ Damage(byte) \/ Insert(byte)
  \/ Drop

Spec == Init /\ [][Next]_vars

\* The sender keeps sending and the receiver keeps reading.
LiveSpec ==
  /\ Spec
  /\ WF_vars(\E f \in Frames : Transmit(f))
  /\ WF_vars(Arrive)

-----------------------------------------------------------------------------
(***************************************************************************)
(* Correctness.                                                            *)
(***************************************************************************)

\* The type of the line's state; the decoder keeps its invariant on this line.
TypeOK ==
  /\ Decoder!IInv
  /\ cur \in {<<>>} \cup {<<f>> : f \in Frames}
  /\ line \in Seq(Byte)
  /\ delivered \in Seq(Decoder!Frame)
  /\ clean \in BOOLEAN
  /\ faults \in 0 .. MaxFaults

\* While the line has left a frame alone, what the decoder has matched and what
\* is still to arrive make up the frame; before its first byte the decoder may
\* hold a stray MAGIC1 instead.
InStep ==
  clean =>
    \/ /\ line = <<>>
       /\ Hunting
       /\ delivered = cur
    \/ /\ line # <<>>
       /\ cur # <<>>
       /\ delivered = <<>>
       /\ \/ Hunting /\ line = Decoder!Encode(cur[1])
          \/ Decoder!Span \o line = Decoder!Encode(cur[1])

\* The inductive invariant.
IInv == TypeOK /\ InStep

\* A frame that meets no fault while the decoder hunts for a start marker is
\* delivered as it was sent, exactly once and with nothing beside it, whatever
\* stray bytes (a lone MAGIC1 included) came before it and whatever marker bytes
\* it contains.
CleanDelivers ==
  (clean /\ line = <<>> /\ cur # <<>>) => delivered = cur

\* ... and the decoder then hunts for the next one.
CleanKeepsSync == (clean /\ line = <<>>) => Hunting

\* The frame contains no start marker after its own.
MarkerFree(f) ==
  LET s == Decoder!Encode(f) IN
    \A i \in 2 .. Len(s) - 1 : ~ (s[i] = AUP_MAGIC1 /\ s[i + 1] = AUP_MAGIC2)

\* Once the frames sent contain no start marker, the decoder finds back after the
\* last fault, whatever frames it has got lost in before: from some frame on every
\* frame is delivered.
Resync ==
  <>[](\A i \in DOMAIN cur : MarkerFree(cur[i]))
    => <>[](line = <<>> => clean /\ delivered = cur)
=============================================================================
