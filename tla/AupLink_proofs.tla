--------------------------- MODULE AupLink_proofs ---------------------------
(***************************************************************************)
(* Proofs about AupLink, for every alphabet, every pair of distinct marker *)
(* bytes, every set of well-formed frames and every number of faults: a    *)
(* frame that the line leaves alone is delivered as it was sent.           *)
(*                                                                         *)
(* What a byte does to the decoder is taken from AupDecoder_proofs.        *)
(***************************************************************************)
EXTENDS AupLink, SequenceTheorems, TLAPS

Proofs == INSTANCE AupDecoder_proofs WITH MaxLength <- Base * Base - 1

(***************************************************************************)
(* Decoder and Proofs are two instances of the same definitions.           *)
(***************************************************************************)

LEMMA SameFormat ==
  /\ Byte = Proofs!Byte
  /\ Decoder!Frame = Proofs!Frame
  /\ \A f : Decoder!WellFormed(f) = Proofs!WellFormed(f)
  /\ \A f : Decoder!Encode(f) = Proofs!Encode(f)
<1>1. Byte = Proofs!Byte /\ Decoder!Frame = Proofs!Frame
  BY DEF Byte, Decoder!Byte, Proofs!Byte, Decoder!Frame, Proofs!Frame,
         Decoder!Word, Proofs!Word
<1>2. \A f : Decoder!WellFormed(f) = Proofs!WellFormed(f)
  BY DEF Decoder!WellFormed, Proofs!WellFormed
<1>3. \A f : Decoder!Encode(f) = Proofs!Encode(f)
  BY Zenon DEF Decoder!Encode, Proofs!Encode, Decoder!Header, Proofs!Header,
               Decoder!Msb, Proofs!Msb, Decoder!Lsb, Proofs!Lsb
<1> QED
  BY <1>1, <1>2, <1>3

LEMMA SameSpan == Decoder!Span = Proofs!Span
  BY SameFormat, Zenon DEF Decoder!Span, Proofs!Span, Decoder!Matched,
                           Proofs!Matched, Decoder!HeaderSize, Proofs!HeaderSize

LEMMA SameIInv == Decoder!IInv <=> Proofs!IInv
<1>1. Decoder!TypeOK <=> Proofs!TypeOK
  BY SameFormat, Zenon DEF Decoder!TypeOK, Proofs!TypeOK, Decoder!State,
                           Proofs!State, Decoder!Word, Proofs!Word
<1>2. Decoder!NothingStale <=> Proofs!NothingStale
  BY Zenon DEF Decoder!NothingStale, Proofs!NothingStale
<1>3. Decoder!LowByteClear <=> Proofs!LowByteClear
  BY SameFormat, Zenon DEF Decoder!LowByteClear, Proofs!LowByteClear, Byte,
                           Decoder!FromBytes, Proofs!FromBytes
<1>4. Decoder!PayloadInProgress <=> Proofs!PayloadInProgress
  BY Zenon DEF Decoder!PayloadInProgress, Proofs!PayloadInProgress
<1>5. Decoder!DeliveredWellFormed <=> Proofs!DeliveredWellFormed
  BY SameFormat, Zenon DEF Decoder!DeliveredWellFormed,
                           Proofs!DeliveredWellFormed
<1> QED
  BY <1>1, <1>2, <1>3, <1>4, <1>5, Zenon DEF Decoder!IInv, Proofs!IInv

LEMMA SameConsume ==
  ASSUME NEW byte
  PROVE  Decoder!Consume(byte) <=> Proofs!Consume(byte)
  BY Zenon DEF Decoder!Consume, Proofs!Consume, Decoder!Magic1, Proofs!Magic1,
       Decoder!Magic2, Proofs!Magic2, Decoder!Checksum, Proofs!Checksum,
       Decoder!Flag, Proofs!Flag, Decoder!Type, Proofs!Type, Decoder!Command,
       Proofs!Command, Decoder!Length1, Proofs!Length1, Decoder!Length2,
       Proofs!Length2, Decoder!Payload, Proofs!Payload, Decoder!Reset,
       Proofs!Reset, Decoder!Deliver, Proofs!Deliver, Decoder!EmptyFrame,
       Proofs!EmptyFrame

\* The assumptions under which the decoder's lemmas hold.
LEMMA DecoderAssumptions ==
  /\ Proofs!BaseAssumption
  /\ Proofs!MagicAssumption
  /\ Proofs!MaxLengthAssumption
<1>1. Base \in Nat /\ Base > 1
  BY AlphabetAssumption
<1>2. Base * Base - 1 \in Nat
  BY <1>1
<1> QED
  BY <1>1, <1>2, AlphabetAssumption, SameFormat
  DEF Proofs!BaseAssumption, Proofs!MagicAssumption, Proofs!MaxLengthAssumption

(***************************************************************************)
(* What the link needs to know of the decoder.                             *)
(***************************************************************************)

LEMMA DecoderInit == Decoder!Init => Decoder!IInv
<1>1. Decoder!Init => Proofs!Init
  BY SameFormat DEF Decoder!Init, Proofs!Init, Byte, Decoder!Word, Proofs!Word
<1> QED
  BY <1>1, DecoderAssumptions, SameIInv, Proofs!InitIInv
  DEF Proofs!BaseAssumption, Proofs!MagicAssumption, Proofs!MaxLengthAssumption

LEMMA ConsumeKeepsIInv ==
  ASSUME Decoder!IInv, NEW byte \in Byte, Decoder!Consume(byte)
  PROVE  Decoder!IInv'
<1>1. Proofs!IInv /\ Proofs!Consume(byte) /\ byte \in Proofs!Byte
  BY SameFormat, SameIInv, SameConsume
<1>2. Proofs!IInv'
  BY <1>1, DecoderAssumptions, Proofs!ConsumeIInv
  DEF Proofs!BaseAssumption, Proofs!MagicAssumption, Proofs!MaxLengthAssumption
<1>3. (Decoder!IInv <=> Proofs!IInv)'
  BY SameIInv, PTL
<1> QED
  BY <1>2, <1>3

\* Bytes matched and bytes to come that make up a frame.
LEMMA Progress ==
  ASSUME Decoder!IInv, NEW byte \in Byte, Decoder!Consume(byte),
         NEW f \in Decoder!Frame, Decoder!WellFormed(f),
         NEW rest \in Seq(Byte),
         Append(Decoder!Span, byte) \o rest = Decoder!Encode(f)
  PROVE  /\ rest # <<>> =>
              Decoder!Span' = Append(Decoder!Span, byte) /\ out' = <<>>
         /\ rest = <<>> => out' = <<f>> /\ state_' = "MAGIC1"
<1>1. /\ Proofs!IInv /\ Proofs!Consume(byte) /\ byte \in Proofs!Byte
      /\ f \in Proofs!Frame /\ Proofs!WellFormed(f) /\ rest \in Seq(Proofs!Byte)
      /\ Append(Proofs!Span, byte) \o rest = Proofs!Encode(f)
  BY SameFormat, SameSpan, SameIInv, SameConsume
<1>2. (Decoder!Span = Proofs!Span)'
  BY SameSpan, PTL
<1> HIDE DEF Byte
<1>3. /\ rest # <<>> => Proofs!Span' = Append(Proofs!Span, byte) /\ out' = <<>>
      /\ rest = <<>> => out' = <<f>> /\ state_' = "MAGIC1"
  BY <1>1, DecoderAssumptions, Proofs!FrameProgress
  DEF Proofs!BaseAssumption, Proofs!MagicAssumption, Proofs!MaxLengthAssumption
<1> QED
  BY <1>2, <1>3, SameSpan

\* The first element of what follows a sequence may belong to the sequence.
LEMMA AppendConcat ==
  ASSUME NEW S, NEW s \in Seq(S), NEW b \in S, NEW r \in Seq(S)
  PROVE  Append(s, b) \o r = s \o (<<b>> \o r)
<1> DEFINE t == <<b>>
<1>1. t \in Seq(S) /\ Append(s, b) = s \o t
  BY AppendIsConcat
<1> HIDE DEF t
<1>2. (s \o t) \o r = s \o (t \o r)
  BY <1>1, ConcatAssociative
<1> QED
  BY <1>1, <1>2 DEF t

LEMMA EncodeBytes ==
  ASSUME NEW f \in Decoder!Frame
  PROVE  /\ Decoder!Encode(f) \in Seq(Byte)
         /\ Len(Decoder!Encode(f)) >= 8
         /\ Decoder!Encode(f)[1] = AUP_MAGIC1
<1>1. f \in Proofs!Frame /\ f.payload \in Seq(Byte)
  BY SameFormat DEF Decoder!Frame, Byte
<1>2. /\ Proofs!Encode(f) \in Seq(Proofs!Byte)
      /\ Len(Proofs!Encode(f)) = 8 + Len(f.payload)
      /\ Proofs!Encode(f)[1] = AUP_MAGIC1
  BY <1>1, DecoderAssumptions, Proofs!EncodeShape
  DEF Proofs!BaseAssumption, Proofs!MagicAssumption, Proofs!MaxLengthAssumption
<1> QED
  BY <1>1, <1>2, SameFormat

LEMMA SpanBytes == Decoder!IInv => Decoder!Span \in Seq(Byte)
<1>1. Proofs!IInv => Proofs!SpanIsFront
  BY DecoderAssumptions, Proofs!SpanShape
  DEF Proofs!BaseAssumption, Proofs!MagicAssumption, Proofs!MaxLengthAssumption
<1> QED
  BY <1>1, SameFormat, SameSpan, SameIInv DEF Proofs!SpanIsFront

\* Two bytes a marker: while it hunts, the decoder hands nothing over, takes a
\* MAGIC1 as the beginning of a frame, and goes on hunting unless the marker
\* completes.
LEMMA HuntStep ==
  ASSUME Decoder!IInv, NEW byte \in Byte, Decoder!Consume(byte), Hunting
  PROVE  /\ out' = <<>>
         /\ ~ (state_ = "MAGIC2" /\ byte = AUP_MAGIC2) => Hunting'
         /\ byte = AUP_MAGIC1 => Decoder!Span' = <<AUP_MAGIC1>>
<1>1. Decoder!Magic1(byte) \/ Decoder!Magic2(byte)
  BY DEF Hunting, Decoder!Consume, Decoder!Checksum, Decoder!Flag, Decoder!Type,
         Decoder!Command, Decoder!Length1, Decoder!Length2, Decoder!Payload
<1>2. out' = <<>> /\ (~ (state_ = "MAGIC2" /\ byte = AUP_MAGIC2) => Hunting')
  BY <1>1 DEF Decoder!Magic1, Decoder!Magic2, Decoder!Reset, Hunting
<1>3. ASSUME byte = AUP_MAGIC1
      PROVE  Decoder!Span' = <<AUP_MAGIC1>>
  <2>1. Decoder!Matched' = 1
    BY <1>1, <1>3, AlphabetAssumption
    DEF Decoder!Magic1, Decoder!Magic2, Decoder!Reset, Decoder!Matched
  <2>2. frame_' \in Decoder!Frame
    BY ConsumeKeepsIInv DEF Decoder!IInv, Decoder!TypeOK
  <2> DEFINE e == Decoder!Encode(frame_')
             s == SubSeq(e, 1, 1)
  <2>3. e \in Seq(Byte) /\ Len(e) >= 1 /\ e[1] = AUP_MAGIC1
    BY <2>2, EncodeBytes
  <2>4. Decoder!Span' = s
    BY <2>1 DEF Decoder!Span
  <2> HIDE DEF e
  <2>5. s \in Seq(Byte) /\ Len(s) = 1 /\ s[1] = e[1]
    <3>1. \A i \in 1 .. 1 : e[i] \in Byte
      BY <2>3, AlphabetAssumption
    <3> QED
      BY <3>1, SubSeqProperties
  <2> HIDE DEF s
  <2>6. s = <<AUP_MAGIC1>>
    BY <2>3, <2>5
  <2> QED
    BY <2>4, <2>6
<1> QED
  BY <1>2, <1>3

(***************************************************************************)
(* The inductive invariant.                                                *)
(***************************************************************************)

LEMMA InitIInv == Init => IInv
<1> SUFFICES ASSUME Init PROVE IInv
  OBVIOUS
<1>1. Decoder!IInv
  BY DecoderInit DEF Init
<1>2. TypeOK
  BY <1>1, MaxFaultsAssumption DEF Init, TypeOK
<1>3. InStep
  BY DEF Init, InStep, Hunting, Decoder!Init
<1> QED
  BY <1>2, <1>3 DEF IInv

\* A step that leaves the decoder alone.
LEMMA DecoderKept ==
  ASSUME UNCHANGED decoder, Decoder!IInv
  PROVE  /\ Decoder!IInv'
         /\ Hunting' = Hunting
         /\ Decoder!Span' = Decoder!Span
  BY DEF decoder, Hunting, Decoder!IInv, Decoder!TypeOK, Decoder!NothingStale,
         Decoder!LowByteClear, Decoder!PayloadInProgress,
         Decoder!DeliveredWellFormed, Decoder!Span, Decoder!Matched

\* What the decoder returns is a sequence of frames.
LEMMA ReadType ==
  ASSUME TypeOK, NEW byte \in Byte, Read(byte)
  PROVE  Decoder!IInv' /\ delivered' \in Seq(Decoder!Frame)
<1>1. Decoder!IInv'
  BY ConsumeKeepsIInv DEF Read, TypeOK
<1>2. out' \in Seq(Decoder!Frame)
  BY <1>1 DEF Decoder!IInv, Decoder!TypeOK
<1> QED
  BY <1>1, <1>2, ConcatProperties DEF Read, TypeOK

LEMMA TransmitStep ==
  ASSUME IInv, NEW f \in Frames, Transmit(f)
  PROVE  IInv'
<1>1. /\ f \in Decoder!Frame
      /\ Decoder!Encode(f) \in Seq(Byte) /\ Len(Decoder!Encode(f)) >= 1
  BY FramesAssumption, EncodeBytes
<1>2. TypeOK'
  BY <1>1, DecoderKept DEF IInv, TypeOK, Transmit, Hunting
<1>3. InStep'
  <2> SUFFICES ASSUME Hunting PROVE InStep'
    BY DEF InStep, Transmit
  <2>1. /\ line' # <<>> /\ cur' # <<>> /\ delivered' = <<>>
        /\ line' = Decoder!Encode(cur'[1])
    BY <1>1 DEF Transmit
  <2>2. Hunting'
    BY DecoderKept DEF Transmit, IInv, TypeOK
  <2> QED
    BY <2>1, <2>2 DEF InStep
<1> QED
  BY <1>2, <1>3 DEF IInv

LEMMA ArriveStep ==
  ASSUME IInv, Arrive
  PROVE  IInv'
<1> DEFINE byte == Head(line)
           rest == Tail(line)
<1>1. /\ byte \in Byte /\ rest \in Seq(Byte) /\ line = <<byte>> \o rest
      /\ Len(rest) = Len(line) - 1
  BY HeadTailProperties DEF IInv, TypeOK, Arrive
<1>2. Read(byte) /\ line' = rest /\ UNCHANGED <<cur, clean, faults>>
  BY DEF Arrive
<1> HIDE DEF byte, rest
<1>3. TypeOK'
  BY <1>1, <1>2, ReadType DEF IInv, TypeOK
<1>4. InStep'
  <2> SUFFICES ASSUME clean PROVE InStep'
    BY <1>2 DEF InStep
  <2>1. PICK f \in Frames : cur = <<f>>
    BY DEF IInv, TypeOK, InStep, Arrive
  <2>2. f \in Decoder!Frame /\ Decoder!WellFormed(f)
    BY FramesAssumption
  <2> DEFINE e == Decoder!Encode(f)
  <2>3. e \in Seq(Byte) /\ Len(e) >= 8 /\ e[1] = AUP_MAGIC1
    BY <2>2, EncodeBytes
  <2>4. delivered = <<>> /\ delivered' = out'
    <3>1. delivered = <<>> /\ out' \in Seq(Decoder!Frame)
      BY <1>1, <1>2, ConsumeKeepsIInv
      DEF IInv, TypeOK, InStep, Arrive, Read, Decoder!IInv, Decoder!TypeOK
    <3> QED
      BY <1>2, <3>1 DEF Read
  <2>5. CASE Hunting /\ line = e
    <3>1. byte = AUP_MAGIC1 /\ rest # <<>> /\ <<AUP_MAGIC1>> \o rest = e
      BY <1>1, <2>3, <2>5
    <3>2. out' = <<>> /\ Decoder!Span' = <<AUP_MAGIC1>>
      BY <1>1, <1>2, <2>5, <3>1, HuntStep DEF IInv, TypeOK, Read
    <3> QED
      BY <1>2, <2>1, <2>4, <3>1, <3>2 DEF InStep
  <2>6. CASE Decoder!Span \o line = e
    <3>1. Append(Decoder!Span, byte) \o rest = e
      <4>1. Decoder!Span \in Seq(Byte)
        BY SpanBytes DEF IInv, TypeOK
      <4>2. byte \in Byte /\ rest \in Seq(Byte)
        BY <1>1
      <4>3. Append(Decoder!Span, byte) \o rest
              = Decoder!Span \o (<<byte>> \o rest)
        BY <4>1, <4>2, AppendConcat
      <4> QED
        BY <1>1, <2>6, <4>3, Zenon
    <3>2. /\ rest # <<>> => Decoder!Span' = Append(Decoder!Span, byte) /\ out' = <<>>
          /\ rest = <<>> => out' = <<f>> /\ state_' = "MAGIC1"
      BY <1>1, <1>2, <2>2, <3>1, Progress DEF IInv, TypeOK, Read
    <3>3. CASE rest # <<>>
      BY <1>2, <2>1, <2>4, <3>1, <3>2, <3>3 DEF InStep
    <3>4. CASE rest = <<>>
      BY <1>2, <2>1, <2>4, <3>2, <3>4 DEF InStep, Hunting
    <3> QED
      BY <3>3, <3>4
  <2> QED
    BY <2>1, <2>5, <2>6 DEF IInv, InStep, Arrive
<1> QED
  BY <1>3, <1>4 DEF IInv

LEMMA StrayStep ==
  ASSUME IInv, NEW byte \in Byte, Stray(byte)
  PROVE  IInv'
<1>1. out' = <<>> /\ Hunting'
  BY HuntStep DEF IInv, TypeOK, Stray, Read
<1>2. TypeOK'
  BY ReadType DEF IInv, TypeOK, Stray
<1>3. delivered' = delivered
  BY <1>1 DEF IInv, TypeOK, Stray, Read
<1>4. InStep'
  BY <1>1, <1>3 DEF IInv, InStep, Stray
<1> QED
  BY <1>2, <1>4 DEF IInv

LEMMA FaultStep ==
  ASSUME IInv, Fault, line' \in Seq(Byte)
  PROVE  IInv'
<1>1. TypeOK'
  <2>1. faults' \in 0 .. MaxFaults
    BY MaxFaultsAssumption DEF IInv, TypeOK, Fault
  <2>2. Decoder!IInv'
    BY DecoderKept DEF IInv, TypeOK, Fault
  <2> QED
    BY <2>1, <2>2 DEF IInv, TypeOK, Fault
<1>2. InStep'
  BY DEF Fault, InStep
<1> QED
  BY <1>1, <1>2 DEF IInv

LEMMA NextIInv == IInv /\ [Next]_vars => IInv'
<1> SUFFICES ASSUME IInv, [Next]_vars PROVE IInv'
  OBVIOUS
<1>1. line \in Seq(Byte)
  BY DEF IInv, TypeOK
<1>2. ASSUME NEW f \in Frames, Transmit(f) PROVE IInv'
  BY <1>2, TransmitStep
<1>3. CASE Arrive
  BY <1>3, ArriveStep
<1>4. ASSUME NEW byte \in Byte, Stray(byte) PROVE IInv'
  BY <1>4, StrayStep
<1>5. ASSUME NEW byte \in Byte, Damage(byte) PROVE IInv'
  <2>1. line' \in Seq(Byte)
    BY <1>1, <1>5, HeadTailProperties, ConcatProperties DEF Damage
  <2> QED
    BY <1>5, <2>1, FaultStep DEF Damage
<1>6. ASSUME NEW byte \in Byte, Insert(byte) PROVE IInv'
  <2>1. line' \in Seq(Byte)
    BY <1>1, <1>6, ConcatProperties DEF Insert
  <2> QED
    BY <1>6, <2>1, FaultStep DEF Insert
<1>7. CASE Drop
  <2>1. line' \in Seq(Byte)
    BY <1>1, <1>7, HeadTailProperties DEF Drop
  <2> QED
    BY <1>7, <2>1, FaultStep DEF Drop
<1>8. CASE UNCHANGED vars
  BY <1>8, DecoderKept DEF vars, IInv, TypeOK, InStep
<1> QED
  BY <1>2, <1>3, <1>4, <1>5, <1>6, <1>7, <1>8 DEF Next

\* The invariant holds whatever is sent and whatever the line does to it.
THEOREM IInvariance == Spec => []IInv
<1> QED
  BY InitIInv, NextIInv, PTL DEF Spec

\* A frame that the line leaves alone and that finds the decoder hunting is
\* delivered as it was sent, once and alone.
THEOREM Delivery == Spec => []CleanDelivers
<1>1. IInv => CleanDelivers
  BY DEF IInv, InStep, CleanDelivers
<1> QED
  BY <1>1, IInvariance, PTL

\* ... and leaves the decoder hunting for the next one.
THEOREM KeepsSync == Spec => []CleanKeepsSync
<1>1. IInv => CleanKeepsSync
  BY DEF IInv, InStep, CleanKeepsSync
<1> QED
  BY <1>1, IInvariance, PTL
=============================================================================
