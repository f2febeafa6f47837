-------------------------- MODULE AupDecoder_proofs --------------------------
(***************************************************************************)
(* Proofs about AupDecoder, for every Base, every pair of distinct marker  *)
(* bytes and every MaxLength:                                              *)
(*   - IInv is an inductive invariant (IInvariance);                       *)
(*   - the decoder implements the framing contract (Refinement).           *)
(***************************************************************************)
EXTENDS AupDecoder, SequenceTheorems, TLAPS

(***************************************************************************)
(* The two bytes of a length.                                              *)
(***************************************************************************)

\* A length is split into bytes and reassembled without loss.
LEMMA WordBytes ==
  ASSUME NEW w \in Word
  PROVE  /\ Msb(w) \in Byte
         /\ Lsb(w) \in Byte
         /\ FromBytes(Msb(w), Lsb(w)) = w
  BY BaseAssumption DEF Lsb, Msb, FromBytes, Byte, Word

\* Two bytes make a length that splits back into them.
LEMMA BytesWord ==
  ASSUME NEW msb \in Byte, NEW lsb \in Byte
  PROVE  /\ FromBytes(msb, lsb) \in Word
         /\ Msb(FromBytes(msb, lsb)) = msb
         /\ Lsb(FromBytes(msb, lsb)) = lsb
         /\ FromBytes(msb, 0) + lsb = FromBytes(msb, lsb)
  BY BaseAssumption DEF Lsb, Msb, FromBytes, Byte, Word

(***************************************************************************)
(* The inductive invariant.                                                *)
(***************************************************************************)

LEMMA InitIInv == Init => IInv
<1> SUFFICES ASSUME Init PROVE IInv
  OBVIOUS
<1>1. 0 \in Word
  BY BaseAssumption DEF Word
<1>2. frame_ \in Frame /\ frame_.payload = <<>>
  <2>1. {<<>>} \subseteq Seq(Byte)
    OBVIOUS
  <2>2. frame_ \in [checksum : Byte, flag : Byte, type : Byte, command : Byte,
                    length : Word, payload : {<<>>}]
    BY DEF Init
  <2>3. frame_ \in Frame
    BY <2>1, <2>2, Zenon DEF Frame
  <2> QED
    BY <2>2, <2>3
<1>3. TypeOK
  BY <1>1, <1>2 DEF Init, TypeOK, State
<1> QED
  BY <1>2, <1>3 DEF Init, IInv, NothingStale, LowByteClear, PayloadInProgress,
                    DeliveredWellFormed

\* reset() leads to a state that satisfies the invariant, whatever well-formed
\* frame is handed over.
LEMMA ResetIInv ==
  ASSUME Reset, out' \in Seq(Frame), Len(out') <= 1,
         out' # <<>> => WellFormed(out'[1])
  PROVE  IInv'
<1>1. 0 \in Byte /\ 0 \in Word
  BY BaseAssumption DEF Byte, Word
<1>2. EmptyFrame \in Frame /\ EmptyFrame.payload = <<>>
  BY <1>1 DEF EmptyFrame, Frame
<1>3. TypeOK'
  BY <1>1, <1>2 DEF Reset, TypeOK, State
<1> QED
  BY <1>2, <1>3 DEF Reset, IInv, NothingStale, LowByteClear,
                    PayloadInProgress, DeliveredWellFormed

\* Every byte keeps the invariant, also those that declare long payloads.
LEMMA ConsumeIInv ==
  ASSUME IInv, NEW b \in Byte, Consume(b)
  PROVE  IInv'
<1> USE DEF IInv
<1>1. ASSUME NEW byte \in Byte, Magic1(byte)
      PROVE  IInv'
  <2>1. CASE Reset
    BY <1>1, <2>1, ResetIInv DEF Magic1
  <2>2. CASE state_' = "MAGIC2" /\ UNCHANGED <<frame_, read_>>
    BY <1>1, <2>2 DEF Magic1, TypeOK, State, NothingStale, LowByteClear,
                      PayloadInProgress, DeliveredWellFormed
  <2> QED
    BY <1>1, <2>1, <2>2 DEF Magic1
<1>2. ASSUME NEW byte \in Byte, Magic2(byte)
      PROVE  IInv'
  <2>1. CASE Reset
    BY <1>2, <2>1, ResetIInv DEF Magic2
  <2>2. CASE state_' \in {"MAGIC2", "CHECKSUM"} /\ UNCHANGED <<frame_, read_>>
    BY <1>2, <2>2 DEF Magic2, TypeOK, State, NothingStale, LowByteClear,
                      PayloadInProgress, DeliveredWellFormed
  <2> QED
    BY <1>2, <2>1, <2>2 DEF Magic2
<1>3. ASSUME NEW byte \in Byte,
             Checksum(byte) \/ Flag(byte) \/ Type(byte) \/ Command(byte)
      PROVE  IInv'
  BY <1>3 DEF Checksum, Flag, Type, Command, TypeOK, State, Frame,
              NothingStale, LowByteClear, PayloadInProgress,
              DeliveredWellFormed
<1>4. ASSUME NEW byte \in Byte, Length1(byte)
      PROVE  IInv'
  <2>1. byte * Base \in Word /\ byte * Base = FromBytes(byte, 0)
    BY BaseAssumption DEF Byte, Word, FromBytes
  <2> QED
    BY <1>4, <2>1 DEF Length1, TypeOK, State, Frame, NothingStale,
                      LowByteClear, PayloadInProgress, DeliveredWellFormed
<1>5. ASSUME NEW byte \in Byte, Length2(byte)
      PROVE  IInv'
  <2> DEFINE f == [frame_ EXCEPT !.length = @ + byte]
  <2>1. frame_.length + byte \in Word
    BY <1>5, BytesWord DEF Length2, LowByteClear
  <2>2. f \in Frame /\ f.length = frame_.length + byte
        /\ f.payload = frame_.payload
    BY <2>1 DEF TypeOK, Frame
  <2>3. frame_.payload = <<>> /\ read_ = 0
    BY <1>5 DEF Length2, NothingStale
  <2> HIDE DEF f
  <2>4. CASE Deliver(f) /\ f.length = 0
    <3>1. /\ Reset
          /\ out' = <<f>>
          /\ WellFormed(f)
      BY <2>2, <2>3, <2>4 DEF Deliver, WellFormed
    <3> QED
      BY <2>2, <3>1, ResetIInv
  <2>5. CASE /\ f.length > 0
             /\ frame_' = f
             /\ state_' = "PAYLOAD"
             /\ out' = <<>>
             /\ UNCHANGED read_
    BY <2>2, <2>3, <2>5 DEF TypeOK, State, NothingStale, LowByteClear,
                            PayloadInProgress, DeliveredWellFormed
  <2> QED
    BY <1>5, <2>4, <2>5 DEF Length2, f
<1>6. ASSUME NEW byte \in Byte, Payload(byte)
      PROVE  IInv'
  <2> DEFINE f == [frame_ EXCEPT !.payload = Append(@, byte)]
             n == (read_ + 1) % (Base * Base)
  <2>1. read_ = Len(frame_.payload) /\ read_ < frame_.length
    BY <1>6 DEF Payload, PayloadInProgress
  <2>2. f \in Frame /\ f.length = frame_.length
        /\ Len(f.payload) = Len(frame_.payload) + 1
    <3>1. frame_ \in Frame /\ frame_.payload \in Seq(Byte)
      BY DEF TypeOK, Frame
    <3>2. /\ Append(frame_.payload, byte) \in Seq(Byte)
          /\ Len(Append(frame_.payload, byte)) = Len(frame_.payload) + 1
      BY <3>1
    <3> QED
      BY <3>1, <3>2 DEF Frame
  <2>3. n = read_ + 1 /\ n \in Word
    \* the 16-bit counter does not wrap: it is below a 16-bit length
    <3> DEFINE W == Base * Base
    <3>1. W \in Nat
      BY BaseAssumption
    <3>2. read_ \in Nat /\ read_ + 1 < W
      BY <2>1, BaseAssumption DEF TypeOK, Frame, Word
    <3>3. n = (read_ + 1) % W
      OBVIOUS
    <3> HIDE DEF W
    <3>4. (read_ + 1) % W = read_ + 1
      BY <3>1, <3>2
    <3> QED
      BY <3>1, <3>2, <3>3, <3>4 DEF Word, W
  <2> HIDE DEF f, n
  <2>4. CASE Deliver(f) /\ n >= f.length
    <3>1. WellFormed(f)
      BY <2>1, <2>2, <2>3, <2>4 DEF WellFormed, TypeOK, Frame, Word
    <3>2. Reset /\ out' = <<f>>
      BY <2>4 DEF Deliver
    <3> QED
      BY <2>2, <3>1, <3>2, ResetIInv
  <2>5. CASE /\ n < f.length
             /\ frame_' = f
             /\ read_' = n
             /\ out' = <<>>
             /\ UNCHANGED state_
    BY <1>6, <2>1, <2>2, <2>3, <2>5
    DEF Payload, TypeOK, State, NothingStale, LowByteClear,
        PayloadInProgress, DeliveredWellFormed
  <2> QED
    BY <1>6, <2>4, <2>5 DEF Payload, f, n
<1> QED
  BY <1>1, <1>2, <1>3, <1>4, <1>5, <1>6 DEF Consume

LEMMA NextIInv == IInv /\ [Next]_vars => IInv'
<1> SUFFICES ASSUME IInv, [Next]_vars PROVE IInv'
  OBVIOUS
<1>1. CASE Next
  BY <1>1, ConsumeIInv DEF Next, OnTheLine
<1>2. CASE UNCHANGED vars
  BY <1>2 DEF vars, IInv, TypeOK, NothingStale, LowByteClear,
              PayloadInProgress, DeliveredWellFormed
<1> QED
  BY <1>1, <1>2

\* The invariant holds in every state the decoder reaches, for every line.
THEOREM IInvariance == Spec => []IInv
<1>1. Init => IInv
  BY InitIInv
<1>2. IInv /\ [Next]_vars => IInv'
  BY NextIInv
<1> QED
  BY <1>1, <1>2, PTL DEF Spec

(***************************************************************************)
(* The bytes of an encoded frame.                                          *)
(***************************************************************************)

\* The header occupies the first eight bytes, the payload the rest.
LEMMA EncodeShape ==
  ASSUME NEW f \in Frame
  PROVE  /\ Encode(f) \in Seq(Byte)
         /\ Len(Encode(f)) = 8 + Len(f.payload)
         /\ Encode(f)[1] = AUP_MAGIC1 /\ Encode(f)[2] = AUP_MAGIC2
         /\ Encode(f)[3] = f.checksum /\ Encode(f)[4] = f.flag
         /\ Encode(f)[5] = f.type     /\ Encode(f)[6] = f.command
         /\ Encode(f)[7] = Msb(f.length)
         /\ Encode(f)[8] = Lsb(f.length)
         /\ \A i \in 1 .. Len(f.payload) : Encode(f)[8 + i] = f.payload[i]
<1>1. /\ f.checksum \in Byte /\ f.flag \in Byte /\ f.type \in Byte
      /\ f.command \in Byte /\ f.length \in Word /\ f.payload \in Seq(Byte)
  BY DEF Frame
<1>2. Msb(f.length) \in Byte /\ Lsb(f.length) \in Byte
  BY <1>1, WordBytes
<1> DEFINE h == Header(f)
           p == f.payload
           e == h \o p
<1>3. /\ h \in Seq(Byte) /\ Len(h) = 8
      /\ h[1] = AUP_MAGIC1 /\ h[2] = AUP_MAGIC2 /\ h[3] = f.checksum
      /\ h[4] = f.flag /\ h[5] = f.type /\ h[6] = f.command
      /\ h[7] = Msb(f.length) /\ h[8] = Lsb(f.length)
  BY <1>1, <1>2, MagicAssumption DEF Header
<1>4. p \in Seq(Byte) /\ Len(p) \in Nat
  BY <1>1
<1>5. Encode(f) = e /\ f.payload = p
  BY DEF Encode
<1> HIDE DEF h, p
<1>6. /\ e \in Seq(Byte)
      /\ Len(e) = Len(h) + Len(p)
      /\ \A i \in 1 .. Len(h) + Len(p) :
           e[i] = IF i <= Len(h) THEN h[i] ELSE p[i - Len(h)]
  <2>1. h \in Seq(Byte)
    BY <1>3
  <2> QED
    BY <2>1, <1>4, ConcatProperties
<1> HIDE DEF e
<1>7. Len(e) = 8 + Len(p)
  BY <1>3, <1>6
<1>8. \A i \in 1 .. 8 : e[i] = h[i]
  BY <1>3, <1>4, <1>6
<1>9. \A i \in 1 .. Len(p) : e[8 + i] = p[i]
  BY <1>3, <1>4, <1>6
<1>10. /\ e[1] = AUP_MAGIC1 /\ e[2] = AUP_MAGIC2
       /\ e[3] = f.checksum /\ e[4] = f.flag
       /\ e[5] = f.type /\ e[6] = f.command
       /\ e[7] = Msb(f.length) /\ e[8] = Lsb(f.length)
  BY <1>3, <1>8
<1> QED
  BY <1>5, <1>6, <1>7, <1>9, <1>10

\* One more matched byte, of a frame that agrees with the old one in the bytes
\* matched before.
LEMMA OneMore ==
  ASSUME NEW f \in Frame, NEW g \in Frame, NEW k \in Nat,
         k <= Len(Encode(f)), k < Len(Encode(g)),
         \A i \in 1 .. k : Encode(g)[i] = Encode(f)[i]
  PROVE  SubSeq(Encode(g), 1, k + 1)
           = Append(SubSeq(Encode(f), 1, k), Encode(g)[k + 1])
<1> DEFINE e == Encode(f)
           d == Encode(g)
           s == SubSeq(e, 1, k)
           t == SubSeq(d, 1, k + 1)
<1>1. e \in Seq(Byte) /\ d \in Seq(Byte) /\ Len(e) \in Nat /\ Len(d) \in Nat
  BY EncodeShape
<1>2. k <= Len(e) /\ k < Len(d) /\ \A i \in 1 .. k : d[i] = e[i]
  OBVIOUS
<1> HIDE DEF e, d
<1>3. s \in Seq(Byte) /\ Len(s) = k /\ \A i \in 1 .. k : s[i] = e[i]
  BY <1>1, <1>2, SubSeqProperties
<1>4. t \in Seq(Byte) /\ Len(t) = k + 1 /\ \A i \in 1 .. k + 1 : t[i] = d[i]
  <2>1. \A i \in 1 .. k + 1 : d[i] \in Byte
    BY <1>1, <1>2
  <2> QED
    BY <2>1, <1>1, SubSeqProperties
<1>5. d[k + 1] \in Byte
  BY <1>1, <1>2
<1> HIDE DEF s, t
<1>6. /\ Append(s, d[k + 1]) \in Seq(Byte)
      /\ Len(Append(s, d[k + 1])) = k + 1
      /\ \A i \in 1 .. k + 1 : Append(s, d[k + 1])[i] = t[i]
  BY <1>2, <1>3, <1>4, <1>5
<1>7. t = Append(s, d[k + 1])
  BY <1>4, <1>6, SeqEqual
<1> QED
  BY <1>7 DEF s, t, e, d

(***************************************************************************)
(* The framing contract's reaction to a byte.                              *)
(***************************************************************************)

\* FirstViable is the position that its definition describes.
LEMMA FirstViableIs ==
  ASSUME NEW s \in Seq(Byte), NEW k \in 1 .. Len(s) + 1,
         Framing!Viable(Framing!SuffixFrom(s, k)),
         \A j \in 1 .. k - 1 : ~ Framing!Viable(Framing!SuffixFrom(s, j))
  PROVE  Framing!LongestViable(s) = Framing!SuffixFrom(s, k)
<1> DEFINE P(n) == /\ Framing!Viable(Framing!SuffixFrom(s, n))
                   /\ \A j \in 1 .. n - 1 :
                        ~ Framing!Viable(Framing!SuffixFrom(s, j))
<1>1. P(k)
  OBVIOUS
<1>2. \A n \in 1 .. Len(s) + 1 : P(n) => n = k
  <2> SUFFICES ASSUME NEW n \in 1 .. Len(s) + 1, P(n) PROVE n = k
    OBVIOUS
  <2>1. Len(s) \in Nat
    OBVIOUS
  <2>2. ~ (n < k)
    <3> SUFFICES ASSUME n < k PROVE FALSE
      OBVIOUS
    <3>1. n \in 1 .. k - 1
      BY <2>1
    <3> QED
      BY <3>1
  <2>3. ~ (k < n)
    <3> SUFFICES ASSUME k < n PROVE FALSE
      OBVIOUS
    <3>1. k \in 1 .. n - 1
      BY <2>1
    <3> QED
      BY <3>1
  <2> QED
    BY <2>1, <2>2, <2>3
<1> HIDE DEF P
<1>3. (CHOOSE n \in 1 .. Len(s) + 1 : P(n)) = k
  BY <1>1, <1>2
<1>4. Framing!FirstViable(s) = k
  BY <1>3 DEF Framing!FirstViable, P
<1> QED
  BY <1>4 DEF Framing!LongestViable

\* A byte that extends the match to something that may become a frame.
LEMMA FeedExtends ==
  ASSUME NEW byte \in Byte, Span \in Seq(Byte),
         Span' = Append(Span, byte), Framing!Viable(Span'), out' = <<>>
  PROVE  Framing!Feed(byte)
<1> DEFINE t == Append(Span, byte)
<1>1. t \in Seq(Byte) /\ Len(t) \in Nat /\ Framing!Viable(t) /\ Span' = t
  OBVIOUS
<1> HIDE DEF t
<1>2. Framing!SuffixFrom(t, 1) = t
  BY <1>1, SubSeqFull DEF Framing!SuffixFrom
<1>3. Framing!LongestViable(t) = t
  BY <1>1, <1>2, FirstViableIs
<1>4. ~ Framing!IsFrame(t)
  BY <1>1 DEF Framing!Viable, Framing!IsFrame
<1>5. Got' = <<>>
  BY DEF Got
<1> QED
  BY <1>1, <1>3, <1>4, <1>5 DEF Framing!Feed, t

(***************************************************************************)
(* The matched bytes.                                                      *)
(***************************************************************************)

\* Span is the front of an encoded frame, Matched bytes long.
SpanIsFront ==
  /\ frame_ \in Frame
  /\ Matched \in Nat
  /\ Matched <= Len(Encode(frame_))
  /\ Span \in Seq(Byte)
  /\ Len(Span) = Matched
  /\ \A i \in 1 .. Matched : Span[i] = Encode(frame_)[i]

\* The invariant makes Span the front of an encoded frame.
LEMMA SpanShape == IInv => SpanIsFront
<1> SUFFICES ASSUME IInv PROVE SpanIsFront
  OBVIOUS
<1> DEFINE e == Encode(frame_)
           k == Matched
<1>1. frame_ \in Frame /\ state_ \in State
  BY DEF IInv, TypeOK
<1>2. Len(frame_.payload) \in Nat
  BY <1>1 DEF Frame
<1>3. k \in Nat /\ k <= 8 + Len(frame_.payload)
  BY <1>1, <1>2 DEF Matched, State, HeaderSize
<1>4. e \in Seq(Byte) /\ Len(e) = 8 + Len(frame_.payload)
  BY <1>1, EncodeShape
<1>5. Span = SubSeq(e, 1, k)
  BY DEF Span
<1> HIDE DEF e, k
<1>6. k <= Len(e)
  BY <1>3, <1>4
<1>7. \A i \in 1 .. k : e[i] \in Byte
  BY <1>2, <1>3, <1>4
<1>8. /\ SubSeq(e, 1, k) \in Seq(Byte) /\ Len(SubSeq(e, 1, k)) = k
      /\ \A i \in 1 .. k : SubSeq(e, 1, k)[i] = e[i]
  BY <1>3, <1>4, <1>6, <1>7, SubSeqProperties
<1> QED
  BY <1>1, <1>3, <1>5, <1>6, <1>8 DEF e, k, SpanIsFront

\* The matched bytes may always become a frame.
LEMMA SpanViable == IInv => Framing!Viable(Span)
<1> SUFFICES ASSUME IInv PROVE Framing!Viable(Span)
  OBVIOUS
<1> DEFINE s == Span
           e == Encode(frame_)
<1>1. /\ Matched \in Nat /\ Len(s) = Matched
      /\ \A i \in 1 .. Matched : s[i] = e[i]
  BY SpanShape DEF SpanIsFront
<1>2. /\ frame_ \in Frame /\ state_ \in State
      /\ frame_.length \in Nat /\ Len(frame_.payload) \in Nat
  BY BaseAssumption DEF IInv, TypeOK, Frame, Word
<1>3. /\ e[1] = AUP_MAGIC1 /\ e[2] = AUP_MAGIC2
      /\ e[7] = Msb(frame_.length) /\ e[8] = Lsb(frame_.length)
  BY <1>2, EncodeShape
<1> HIDE DEF s, e
<1>4. Framing!StartsLikeFrame(s)
  BY <1>1, <1>3 DEF Framing!StartsLikeFrame
<1>5. Len(s) >= 8 => Len(s) < 8 + Framing!Declared(s)
  <2> SUFFICES ASSUME Len(s) >= 8 PROVE Len(s) < 8 + Framing!Declared(s)
    OBVIOUS
  <2>1. state_ = "PAYLOAD" /\ Matched = 8 + Len(frame_.payload)
    BY <1>1, <1>2 DEF Matched, State, HeaderSize
  <2>2. Len(frame_.payload) < frame_.length
    BY <2>1 DEF IInv, PayloadInProgress
  <2>3. s[7] = Msb(frame_.length) /\ s[8] = Lsb(frame_.length)
    BY <1>1, <1>3
  <2>4. frame_.length \in Word
    BY <1>2 DEF Frame
  <2>5. Framing!Declared(s) = frame_.length
    BY <2>3, <2>4, WordBytes
    DEF Framing!Declared, Framing!FromBytes, FromBytes
  <2> QED
    BY <1>1, <1>2, <2>1, <2>2, <2>5
<1> QED
  BY <1>4, <1>5 DEF Framing!Viable, s, Framing!HeaderSize

\* The same of the state that a step leads to.
LEMMA SpanNext == IInv' => SpanIsFront' /\ Framing!Viable(Span)'
<1>1. IInv => SpanIsFront /\ Framing!Viable(Span)
  BY SpanShape, SpanViable
<1> QED
  BY <1>1, PTL

\* A step that takes the byte as the next one of the frame.
LEMMA ProgressFeeds ==
  ASSUME IInv, IInv', NEW byte \in Byte, out' = <<>>,
         Matched' = Matched + 1,
         \A i \in 1 .. Matched : Encode(frame_')[i] = Encode(frame_)[i],
         Encode(frame_')[Matched + 1] = byte
  PROVE  Framing!Feed(byte)
<1>1. /\ frame_ \in Frame /\ Matched \in Nat /\ Span \in Seq(Byte)
      /\ Matched <= Len(Encode(frame_))
  BY SpanShape DEF SpanIsFront
<1>2. frame_' \in Frame /\ Matched + 1 <= Len(Encode(frame_'))
  BY SpanNext DEF SpanIsFront
<1>3. Framing!Viable(Span')
  BY SpanNext
<1>4. Len(Encode(frame_')) \in Nat
  BY <1>2, EncodeShape
<1>5. SubSeq(Encode(frame_'), 1, Matched + 1)
        = Append(SubSeq(Encode(frame_), 1, Matched), byte)
  BY <1>1, <1>2, <1>4, OneMore
<1>6. Span' = Append(Span, byte)
  BY <1>5 DEF Span
<1> QED
  BY <1>1, <1>3, <1>6, FeedExtends

\* A step that takes the byte as the last one of the frame g.
LEMMA CompletionFeeds ==
  ASSUME IInv, NEW byte \in Byte, NEW g \in Frame,
         Deliver(g), WellFormed(g),
         Len(Encode(g)) = Matched + 1,
         \A i \in 1 .. Matched : Encode(g)[i] = Encode(frame_)[i],
         Encode(g)[Matched + 1] = byte
  PROVE  Framing!Feed(byte)
<1> DEFINE t == Append(Span, byte)
           e == Encode(g)
<1>1. /\ frame_ \in Frame /\ Matched \in Nat /\ Matched <= Len(Encode(frame_))
  BY SpanShape DEF SpanIsFront
<1>2. SubSeq(Encode(g), 1, Matched + 1)
        = Append(SubSeq(Encode(frame_), 1, Matched), byte)
  BY <1>1, OneMore
<1>3. t = SubSeq(e, 1, Len(e))
  BY <1>2 DEF Span
<1>4. /\ e \in Seq(Byte) /\ Len(e) = 8 + Len(g.payload)
      /\ e[1] = AUP_MAGIC1 /\ e[2] = AUP_MAGIC2
      /\ e[7] = Msb(g.length) /\ e[8] = Lsb(g.length)
  BY EncodeShape
<1>5. g.length \in Word /\ g.length = Len(g.payload)
      /\ FromBytes(Msb(g.length), Lsb(g.length)) = g.length
      /\ Len(g.payload) \in Nat
  BY WordBytes DEF Frame, WellFormed
<1> HIDE DEF e
<1>6. t = e
  BY <1>3, <1>4, SubSeqFull
<1>7. Framing!IsFrame(e)
  <2>1. Framing!Declared(e) = g.length
    BY <1>4, <1>5 DEF Framing!Declared, Framing!FromBytes, FromBytes
  <2> QED
    BY <1>4, <1>5, <2>1
    DEF Framing!IsFrame, Framing!StartsLikeFrame, Framing!HeaderSize
<1>8. Got' = <<e>>
  BY DEF Got, Deliver, e
<1>9. Span' = <<>>
  <2>1. Matched' = 0
    BY DEF Deliver, Reset, Matched
  <2>2. Span' = SubSeq(Encode(frame_'), 1, 0)
    BY <2>1 DEF Span
  <2> QED
    BY <2>2
<1> QED
  BY <1>6, <1>7, <1>8, <1>9 DEF Framing!Feed

\* Appending to a sequence of one element.
LEMMA AppendPair ==
  ASSUME NEW S, NEW a \in S, NEW b \in S
  PROVE  Append(<<a>>, b) = <<a, b>>
<1> DEFINE s == <<a>>
           t == <<a, b>>
           u == Append(s, b)
<1>1. s \in Seq(S) /\ Len(s) = 1 /\ s[1] = a
  OBVIOUS
<1>2. t \in Seq(S) /\ Len(t) = 2 /\ t[1] = a /\ t[2] = b
  OBVIOUS
<1> HIDE DEF s, t
<1>3. s \in Seq(S)
  BY <1>1
<1>4. /\ u \in Seq(S) /\ Len(u) = Len(s) + 1 /\ u[Len(s) + 1] = b
      /\ \A i \in 1 .. Len(s) : u[i] = s[i]
  BY <1>3
<1> HIDE DEF u
<1>5. Len(s) + 1 = 2 /\ 1 \in 1 .. Len(s)
  BY <1>1
<1>6. Len(u) = 2 /\ u[1] = a /\ u[2] = b
  BY <1>1, <1>4, <1>5
<1>7. \A i \in 1 .. 2 : u[i] = t[i]
  <2>1. \A i \in 1 .. 2 : i = 1 \/ i = 2
    OBVIOUS
  <2> QED
    BY <1>2, <1>6, <2>1
<1>8. u = t
  BY <1>2, <1>4, <1>6, <1>7, SeqEqual
<1> QED
  BY <1>8, Zenon DEF s, t, u

\* A byte that cannot begin a marker is dropped.
LEMMA HuntFirst ==
  ASSUME NEW byte \in Byte, byte # AUP_MAGIC1
  PROVE  /\ ~ Framing!IsFrame(<<byte>>)
         /\ Framing!LongestViable(<<byte>>) = <<>>
<1> DEFINE t == <<byte>>
<1>1. t \in Seq(Byte) /\ Len(t) = 1 /\ t[1] = byte
  OBVIOUS
<1> HIDE DEF t
<1>2. Framing!SuffixFrom(t, 1) = t
  BY <1>1, SubSeqFull DEF Framing!SuffixFrom
<1>3. Framing!SuffixFrom(t, 2) = <<>>
  BY <1>1, SubSeqEmpty DEF Framing!SuffixFrom
<1>4. ~ Framing!Viable(t) /\ ~ Framing!IsFrame(t) /\ Framing!Viable(<<>>)
  BY <1>1 DEF Framing!Viable, Framing!IsFrame, Framing!StartsLikeFrame,
              Framing!HeaderSize
<1>5. 2 \in 1 .. Len(t) + 1
  BY <1>1
<1>6. \A j \in 1 .. 2 - 1 : ~ Framing!Viable(Framing!SuffixFrom(t, j))
  BY <1>2, <1>4
<1>7. Framing!LongestViable(t) = <<>>
  BY <1>1, <1>3, <1>4, <1>5, <1>6, FirstViableIs
<1> QED
  BY <1>4, <1>7 DEF t

\* Behind MAGIC1, a byte other than MAGIC2 is kept exactly when it may begin a
\* marker itself.
LEMMA HuntSecond ==
  ASSUME NEW byte \in Byte, byte # AUP_MAGIC2
  PROVE  /\ ~ Framing!IsFrame(<<AUP_MAGIC1, byte>>)
         /\ Framing!LongestViable(<<AUP_MAGIC1, byte>>)
              = IF byte = AUP_MAGIC1 THEN <<byte>> ELSE <<>>
<1> DEFINE t == <<AUP_MAGIC1, byte>>
<1>1. t \in Seq(Byte) /\ Len(t) = 2 /\ t[1] = AUP_MAGIC1 /\ t[2] = byte
  BY MagicAssumption
<1> HIDE DEF t
<1>2. Framing!SuffixFrom(t, 1) = t
  BY <1>1, SubSeqFull DEF Framing!SuffixFrom
<1>3. Framing!SuffixFrom(t, 2) = <<byte>>
  <2> DEFINE u == SubSeq(t, 2, 2)
  <2>1. \A i \in 2 .. 2 : t[i] \in Byte
    BY <1>1
  <2>2. u \in Seq(Byte) /\ Len(u) = 1 /\ u[1] = t[2]
    BY <2>1, SubSeqProperties
  <2> HIDE DEF u
  <2>3. u = <<byte>>
    BY <1>1, <2>2, SeqEqual
  <2> QED
    BY <1>1, <2>3 DEF Framing!SuffixFrom, u
<1>4. Framing!SuffixFrom(t, 3) = <<>>
  BY <1>1, SubSeqEmpty DEF Framing!SuffixFrom
<1>5. ~ Framing!Viable(t) /\ ~ Framing!IsFrame(t) /\ Framing!Viable(<<>>)
  BY <1>1 DEF Framing!Viable, Framing!IsFrame, Framing!StartsLikeFrame,
              Framing!HeaderSize
<1>6. Framing!Viable(<<byte>>) <=> byte = AUP_MAGIC1
  BY DEF Framing!Viable, Framing!StartsLikeFrame, Framing!HeaderSize
<1>7. CASE byte = AUP_MAGIC1
  <2>1. 2 \in 1 .. Len(t) + 1
    BY <1>1
  <2>2. \A j \in 1 .. 2 - 1 : ~ Framing!Viable(Framing!SuffixFrom(t, j))
    BY <1>2, <1>5
  <2>3. Framing!LongestViable(t) = <<byte>>
    BY <1>1, <1>3, <1>6, <1>7, <2>1, <2>2, FirstViableIs
  <2> QED
    BY <1>5, <1>7, <2>3 DEF t
<1>8. CASE byte # AUP_MAGIC1
  <2>1. 3 \in 1 .. Len(t) + 1
    BY <1>1
  <2>2. \A j \in 1 .. 3 - 1 : ~ Framing!Viable(Framing!SuffixFrom(t, j))
    <3>1. \A j \in 1 .. 3 - 1 : j = 1 \/ j = 2
      OBVIOUS
    <3> QED
      BY <1>2, <1>3, <1>5, <1>6, <1>8, <3>1
  <2>3. Framing!LongestViable(t) = <<>>
    BY <1>1, <1>4, <1>5, <2>1, <2>2, FirstViableIs
  <2> QED
    BY <1>5, <1>8, <2>3 DEF t
<1> QED
  BY <1>7, <1>8

(***************************************************************************)
(* The refinement.                                                         *)
(***************************************************************************)

\* Every consumed byte is the contract's reaction to that byte.
LEMMA ConsumeIsFeed ==
  ASSUME IInv, IInv', NEW byte \in Byte, Consume(byte)
  PROVE  Framing!Feed(byte)
<1> DEFINE e == Encode(frame_)
           d == Encode(frame_')
<1>1. frame_ \in Frame /\ frame_' \in Frame
  BY DEF IInv, TypeOK
<1>2. /\ e[1] = AUP_MAGIC1 /\ e[2] = AUP_MAGIC2
      /\ e[3] = frame_.checksum /\ e[4] = frame_.flag
      /\ e[5] = frame_.type /\ e[6] = frame_.command
      /\ e[7] = Msb(frame_.length) /\ e[8] = Lsb(frame_.length)
  BY <1>1, EncodeShape
<1>3. /\ d[1] = AUP_MAGIC1 /\ d[2] = AUP_MAGIC2
      /\ d[3] = frame_'.checksum /\ d[4] = frame_'.flag
      /\ d[5] = frame_'.type /\ d[6] = frame_'.command
      /\ d[7] = Msb(frame_'.length) /\ d[8] = Lsb(frame_'.length)
  BY <1>1, EncodeShape
<1> HIDE DEF e, d
<1>4. ASSUME Matched \in Nat, out' = <<>>, Matched' = Matched + 1,
             \A i \in 1 .. Matched : d[i] = e[i], d[Matched + 1] = byte
      PROVE  Framing!Feed(byte)
  BY <1>4, ProgressFeeds DEF e, d
<1>5. CASE Magic1(byte)
  <2>1. Matched = 0 /\ Span = <<>>
    <3>1. Matched = 0
      BY <1>5 DEF Magic1, Matched
    <3> QED
      BY <3>1 DEF Span
  <2>2. CASE byte = AUP_MAGIC1
    <3>1. Matched' = 1 /\ out' = <<>>
      BY <1>5, <2>2 DEF Magic1, Matched
    <3> QED
      BY <1>3, <1>4, <2>1, <2>2, <3>1
  <2>3. CASE byte # AUP_MAGIC1
    <3>1. Matched' = 0 /\ out' = <<>>
      BY <1>5, <2>3 DEF Magic1, Reset, Matched
    <3>2. Span' = <<>> /\ Got' = <<>>
      BY <3>1 DEF Span, Got
    <3>3. Append(Span, byte) = <<byte>>
      BY <2>1
    <3> QED
      BY <2>3, <3>2, <3>3, HuntFirst DEF Framing!Feed
  <2> QED
    BY <2>2, <2>3
<1>6. CASE Magic2(byte)
  <2>1. Matched = 1 /\ Span = <<AUP_MAGIC1>>
    <3>1. Matched = 1
      BY <1>6 DEF Magic2, Matched
    <3>2. Len(Span) = 1 /\ Span[1] = AUP_MAGIC1 /\ Span \in Seq(Byte)
      BY <1>2, <3>1, SpanShape DEF SpanIsFront, e
    <3>3. <<AUP_MAGIC1>> \in Seq(Byte)
      BY MagicAssumption
    <3> QED
      BY <3>1, <3>2, <3>3, SeqEqual
  <2>2. CASE byte = AUP_MAGIC2
    <3>1. Matched' = 2 /\ out' = <<>>
      BY <1>6, <2>2, MagicAssumption DEF Magic2, Reset, Matched
    <3> QED
      BY <1>2, <1>3, <1>4, <2>1, <2>2, <3>1
  <2>3. CASE byte # AUP_MAGIC2
    <3>1. Append(Span, byte) = <<AUP_MAGIC1, byte>>
      BY <2>1, MagicAssumption, AppendPair
    <3>2. out' = <<>> /\ Got' = <<>>
      BY <1>6, <2>3 DEF Magic2, Got
    <3>3. Span' = IF byte = AUP_MAGIC1 THEN <<byte>> ELSE <<>>
      <4>1. CASE byte = AUP_MAGIC1
        <5>1. UNCHANGED <<state_, frame_>>
          BY <1>6, <2>3, <4>1 DEF Magic2
        <5> QED
          BY <2>1, <4>1, <5>1 DEF Span, Matched
      <4>2. CASE byte # AUP_MAGIC1
        <5>1. Matched' = 0
          BY <1>6, <2>3, <4>2 DEF Magic2, Reset, Matched
        <5> QED
          BY <4>2, <5>1 DEF Span
      <4> QED
        BY <4>1, <4>2
    <3> QED
      BY <2>3, <3>1, <3>2, <3>3, HuntSecond DEF Framing!Feed
  <2> QED
    BY <2>2, <2>3
<1>7. CASE Checksum(byte)
  <2>1. Matched = 2 /\ Matched' = 3 /\ out' = <<>>
    BY <1>7 DEF Checksum, Matched
  <2>2. frame_'.checksum = byte
    BY <1>1, <1>7 DEF Checksum, Frame
  <2> QED
    BY <1>2, <1>3, <1>4, <2>1, <2>2
<1>8. CASE Flag(byte)
  <2>1. Matched = 3 /\ Matched' = 4 /\ out' = <<>>
    BY <1>8 DEF Flag, Matched
  <2>2. frame_'.flag = byte /\ frame_'.checksum = frame_.checksum
    BY <1>1, <1>8 DEF Flag, Frame
  <2> QED
    BY <1>2, <1>3, <1>4, <2>1, <2>2
<1>9. CASE Type(byte)
  <2>1. Matched = 4 /\ Matched' = 5 /\ out' = <<>>
    BY <1>9 DEF Type, Matched
  <2>2. /\ frame_'.type = byte /\ frame_'.checksum = frame_.checksum
        /\ frame_'.flag = frame_.flag
    BY <1>1, <1>9 DEF Type, Frame
  <2> QED
    BY <1>2, <1>3, <1>4, <2>1, <2>2
<1>10. CASE Command(byte)
  <2>1. Matched = 5 /\ Matched' = 6 /\ out' = <<>>
    BY <1>10 DEF Command, Matched
  <2>2. /\ frame_'.command = byte /\ frame_'.checksum = frame_.checksum
        /\ frame_'.flag = frame_.flag /\ frame_'.type = frame_.type
    BY <1>1, <1>10 DEF Command, Frame
  <2> QED
    BY <1>2, <1>3, <1>4, <2>1, <2>2
<1>11. CASE Length1(byte)
  <2>1. Matched = 6 /\ Matched' = 7 /\ out' = <<>>
    BY <1>11 DEF Length1, Matched
  <2>2. /\ frame_'.length = byte * Base
        /\ frame_'.checksum = frame_.checksum /\ frame_'.flag = frame_.flag
        /\ frame_'.type = frame_.type /\ frame_'.command = frame_.command
    BY <1>1, <1>11 DEF Length1, Frame
  <2>3. Msb(byte * Base) = byte
    BY BaseAssumption DEF Msb, Byte
  <2> QED
    BY <1>2, <1>3, <1>4, <2>1, <2>2, <2>3
<1>12. CASE Length2(byte)
  <2> DEFINE f == [frame_ EXCEPT !.length = @ + byte]
  <2>1. PICK msb \in Byte : frame_.length = FromBytes(msb, 0)
    BY <1>12 DEF Length2, IInv, LowByteClear
  <2>2. /\ frame_.length + byte \in Word
        /\ Msb(frame_.length + byte) = msb /\ Lsb(frame_.length + byte) = byte
    BY <2>1, BytesWord
  <2>3. Msb(frame_.length) = msb
    BY <2>1, BaseAssumption, BytesWord DEF Byte
  <2>4. /\ f \in Frame /\ f.length = frame_.length + byte
        /\ f.payload = frame_.payload /\ f.checksum = frame_.checksum
        /\ f.flag = frame_.flag /\ f.type = frame_.type
        /\ f.command = frame_.command
    BY <1>1, <2>2 DEF Frame
  <2>5. Matched = 7 /\ frame_.payload = <<>>
    BY <1>12 DEF Length2, Matched, IInv, NothingStale
  <2> HIDE DEF f
  <2>6. CASE frame_' = f /\ state_' = "PAYLOAD" /\ out' = <<>>
    <3>1. Matched' = 8
      BY <2>4, <2>5, <2>6 DEF Matched, HeaderSize
    <3> QED
      BY <1>2, <1>3, <1>4, <2>2, <2>3, <2>4, <2>5, <2>6, <3>1
  <2>7. CASE f.length = 0 /\ Deliver(f)
    <3> DEFINE c == Encode(f)
    <3>0. Len(f.payload) = 0
      BY <2>4, <2>5
    <3>1. /\ Len(c) = 8 + Len(f.payload)
          /\ c[1] = AUP_MAGIC1 /\ c[2] = AUP_MAGIC2
          /\ c[3] = f.checksum /\ c[4] = f.flag
          /\ c[5] = f.type /\ c[6] = f.command
          /\ c[7] = Msb(f.length) /\ c[8] = Lsb(f.length)
      BY <2>4, EncodeShape
    <3> HIDE DEF c
    <3>2. Len(c) = Matched + 1 /\ c[Matched + 1] = byte
      BY <2>2, <2>4, <2>5, <3>0, <3>1
    <3>3. \A i \in 1 .. Matched : c[i] = e[i]
      BY <1>2, <2>2, <2>3, <2>4, <2>5, <3>1
    <3>4. WellFormed(f)
      BY <2>4, <2>5, <2>7 DEF WellFormed
    <3> QED
      BY <2>4, <2>7, <3>2, <3>3, <3>4, CompletionFeeds DEF c, e
  <2> QED
    BY <1>12, <2>6, <2>7 DEF Length2, f
<1>13. CASE Payload(byte)
  <2> DEFINE f == [frame_ EXCEPT !.payload = Append(@, byte)]
             m == Len(frame_.payload)
             c == Encode(f)
  <2>1. m \in Nat /\ frame_.payload \in Seq(Byte)
    BY <1>1 DEF Frame
  <2>2. /\ f \in Frame /\ f.payload = Append(frame_.payload, byte)
        /\ f.length = frame_.length /\ f.checksum = frame_.checksum
        /\ f.flag = frame_.flag /\ f.type = frame_.type
        /\ f.command = frame_.command
    BY <1>1 DEF Frame
  <2>3. /\ Len(f.payload) = m + 1 /\ f.payload[m + 1] = byte
        /\ \A i \in 1 .. m : f.payload[i] = frame_.payload[i]
    BY <2>1, <2>2
  <2>4. Matched = 8 + m
    BY <1>13 DEF Payload, Matched, HeaderSize
  <2>5. read_ = m /\ m < frame_.length
    BY <1>13 DEF Payload, IInv, PayloadInProgress
  <2>6. \A i \in 1 .. m : e[8 + i] = frame_.payload[i]
    BY <1>1, EncodeShape DEF e
  <2> HIDE DEF m, f
  <2>7. /\ Len(c) = 8 + (m + 1)
        /\ c[1] = AUP_MAGIC1 /\ c[2] = AUP_MAGIC2
        /\ c[3] = f.checksum /\ c[4] = f.flag
        /\ c[5] = f.type /\ c[6] = f.command
        /\ c[7] = Msb(f.length) /\ c[8] = Lsb(f.length)
        /\ \A i \in 1 .. m + 1 : c[8 + i] = f.payload[i]
    BY <2>2, <2>3, EncodeShape
  <2> HIDE DEF c
  <2>8. Len(c) = Matched + 1 /\ c[Matched + 1] = byte
    <3>1. m + 1 \in 1 .. m + 1 /\ 8 + (m + 1) = Matched + 1
      BY <2>1, <2>4
    <3> QED
      BY <2>3, <2>7, <3>1
  <2>9. \A i \in 1 .. Matched : c[i] = e[i]
    <3> SUFFICES ASSUME NEW i \in 1 .. Matched PROVE c[i] = e[i]
      OBVIOUS
    <3>1. CASE i \in 1 .. 8
      BY <1>2, <2>2, <2>7, <3>1
    <3>2. CASE i > 8
      <4> DEFINE j == i - 8
      <4>1. j \in 1 .. m /\ j \in 1 .. m + 1 /\ i = 8 + j
        BY <2>1, <2>4, <3>2
      <4> HIDE DEF j
      <4> QED
        BY <2>3, <2>6, <2>7, <4>1
    <3> QED
      BY <2>1, <2>4, <3>1, <3>2
  <2>10. CASE frame_' = f /\ out' = <<>> /\ UNCHANGED state_
    <3>1. d = c
      BY <2>10 DEF c, d
    <3>2. Matched' = Matched + 1
      <4>1. state_' = "PAYLOAD" /\ Len(frame_'.payload) = m + 1
        BY <1>13, <2>3, <2>10 DEF Payload
      <4>2. Matched' = 8 + Len(frame_'.payload)
        BY <4>1 DEF Matched, HeaderSize
      <4> QED
        BY <2>1, <2>4, <4>1, <4>2
    <3> QED
      BY <1>4, <2>1, <2>4, <2>8, <2>9, <2>10, <3>1, <3>2
  <2>11. CASE Deliver(f)
    <3>1. WellFormed(f)
      \* of the invariant: a delivered frame is complete
      BY <2>11 DEF Deliver, IInv, DeliveredWellFormed
    <3> QED
      BY <2>2, <2>8, <2>9, <2>11, <3>1, CompletionFeeds DEF c, e
  <2> QED
    BY <1>13, <2>10, <2>11 DEF Payload, f
<1> QED
  BY <1>5, <1>6, <1>7, <1>8, <1>9, <1>10, <1>11, <1>12, <1>13 DEF Consume

(***************************************************************************)
(* A frame on the line.                                                    *)
(***************************************************************************)

\* A frame can be told from its encoding.
LEMMA EncodeInjective ==
  ASSUME NEW f \in Frame, NEW g \in Frame, Encode(f) = Encode(g)
  PROVE  f = g
<1>1. /\ f.checksum = g.checksum /\ f.flag = g.flag
      /\ f.type = g.type /\ f.command = g.command
      /\ Msb(f.length) = Msb(g.length) /\ Lsb(f.length) = Lsb(g.length)
  BY EncodeShape
<1>2. f.length = g.length
  <2>1. f.length \in Word /\ g.length \in Word
    BY DEF Frame
  <2>2. /\ FromBytes(Msb(f.length), Lsb(f.length)) = f.length
        /\ FromBytes(Msb(g.length), Lsb(g.length)) = g.length
    BY <2>1, WordBytes
  <2> QED
    BY <1>1, <2>2
<1>3. f.payload = g.payload
  <2>1. f.payload \in Seq(Byte) /\ g.payload \in Seq(Byte)
    BY DEF Frame
  <2>2. Len(f.payload) = Len(g.payload)
    <3>1. 8 + Len(f.payload) = 8 + Len(g.payload)
      BY EncodeShape
    <3> QED
      BY <2>1, <3>1
  <2>3. \A i \in 1 .. Len(f.payload) : f.payload[i] = g.payload[i]
    <3>1. \A i \in 1 .. Len(f.payload) : Encode(f)[8 + i] = f.payload[i]
      BY EncodeShape
    <3>2. \A i \in 1 .. Len(g.payload) : Encode(g)[8 + i] = g.payload[i]
      BY EncodeShape
    <3> QED
      BY <2>2, <3>1, <3>2, Zenon
  <2> QED
    BY <2>1, <2>2, <2>3, SeqEqual
<1> QED
  BY <1>1, <1>2, <1>3 DEF Frame

\* While the bytes matched and those to come make up a well-formed frame, every
\* byte is matched, and the last one delivers that very frame.
LEMMA FrameProgress ==
  ASSUME IInv, NEW byte \in Byte, Consume(byte),
         NEW f \in Frame, WellFormed(f), NEW rest \in Seq(Byte),
         Append(Span, byte) \o rest = Encode(f)
  PROVE  /\ rest # <<>> => Span' = Append(Span, byte) /\ out' = <<>>
         /\ rest = <<>> => out' = <<f>> /\ state_' = "MAGIC1"
<1> DEFINE t == Append(Span, byte)
           e == Encode(f)
<1>1. IInv'
  BY ConsumeIInv
<1>2. Framing!Feed(byte)
  BY <1>1, ConsumeIsFeed
<1>3. Span \in Seq(Byte)
  BY SpanShape DEF SpanIsFront
<1>4. /\ t \in Seq(Byte) /\ Len(t) \in Nat /\ Len(t) > 0
      /\ Len(rest) \in Nat
  BY <1>3
<1>5. /\ e \in Seq(Byte) /\ Len(e) = 8 + Len(f.payload)
      /\ e[1] = AUP_MAGIC1 /\ e[2] = AUP_MAGIC2
      /\ e[7] = Msb(f.length) /\ e[8] = Lsb(f.length)
  BY EncodeShape
<1>6. /\ f.length = Len(f.payload) /\ Len(f.payload) \in Nat
      /\ FromBytes(Msb(f.length), Lsb(f.length)) = f.length
  BY WordBytes DEF WellFormed, Frame
<1>7. t \o rest = e
  OBVIOUS
<1> HIDE DEF t, e
<1>8. /\ Len(e) = Len(t) + Len(rest)
      /\ \A i \in 1 .. Len(t) : t[i] = e[i]
  BY <1>4, <1>7, ConcatProperties
<1>9. Framing!StartsLikeFrame(t)
  BY <1>4, <1>5, <1>8 DEF Framing!StartsLikeFrame
<1>10. Len(t) >= 8 => Framing!Declared(t) = Len(f.payload)
  <2> SUFFICES ASSUME Len(t) >= 8 PROVE Framing!Declared(t) = Len(f.payload)
    OBVIOUS
  <2>1. t[7] = e[7] /\ t[8] = e[8]
    BY <1>4, <1>8
  <2> QED
    BY <1>5, <1>6, <2>1 DEF Framing!Declared, Framing!FromBytes, FromBytes
<1>11. ASSUME rest # <<>>
       PROVE  Span' = t /\ out' = <<>>
  <2>1. Len(t) < Len(e)
    <3>1. Len(rest) > 0
      BY <1>11
    <3> QED
      BY <1>4, <1>8, <3>1
  <2>2. Framing!Viable(t) /\ ~ Framing!IsFrame(t)
    BY <1>4, <1>5, <1>6, <1>9, <1>10, <2>1
    DEF Framing!Viable, Framing!IsFrame, Framing!HeaderSize
  <2>3. Framing!SuffixFrom(t, 1) = t
    BY <1>4, SubSeqFull DEF Framing!SuffixFrom
  <2>4. Framing!LongestViable(t) = t
    <3>1. 1 \in 1 .. Len(t) + 1
      BY <1>4
    <3> QED
      BY <1>4, <2>2, <2>3, <3>1, FirstViableIs
  <2>5. Got' = <<>> /\ Span' = t
    BY <1>2, <2>2, <2>4 DEF Framing!Feed, t
  <2>6. out' = <<>>
    <3>1. out' \in Seq(Frame)
      BY <1>1 DEF IInv, TypeOK
    <3>2. Len(Got') = Len(out')
      BY <3>1 DEF Got
    <3> QED
      BY <2>5, <3>1, <3>2
  <2> QED
    BY <2>5, <2>6
<1>12. ASSUME rest = <<>>
       PROVE  out' = <<f>> /\ state_' = "MAGIC1"
  <2>1. Len(t) = Len(e) /\ t = e
    <3>1. Len(rest) = 0
      BY <1>12
    <3> QED
      BY <1>4, <1>5, <1>8, <3>1, SeqEqual
  <2>2. Framing!IsFrame(t)
    BY <1>4, <1>5, <1>6, <1>9, <1>10, <2>1
    DEF Framing!IsFrame, Framing!HeaderSize
  <2>3. Got' = <<e>>
    BY <1>2, <2>1, <2>2 DEF Framing!Feed, t
  <2>4. out' \in Seq(Frame) /\ Len(out') \in Nat
    BY <1>1 DEF IInv, TypeOK
  <2>5. Len(out') = 1 /\ Encode(out'[1]) = e
    <3>1. Len(Got') = Len(out')
      BY <2>4 DEF Got
    <3>2. Len(out') = 1
      BY <2>3, <3>1
    <3>3. Got'[1] = Encode(out'[1])
      BY <3>2 DEF Got
    <3> QED
      BY <2>3, <3>2, <3>3
  <2>6. out'[1] = f
    <3>1. out'[1] \in Frame
      <4>1. 1 \in 1 .. Len(out')
        BY <2>5
      <4> QED
        BY <2>4, <4>1, ElementOfSeq
    <3> QED
      BY <2>5, <3>1, EncodeInjective DEF e
  <2>7. out' = <<f>>
    BY <2>4, <2>5, <2>6
  <2>8. state_' = "MAGIC1"
    BY <1>1, <2>7 DEF IInv, DeliveredWellFormed
  <2> QED
    BY <2>7, <2>8
<1> QED
  BY <1>11, <1>12 DEF t

\* Every byte the decoder consumes, in every reachable state, is one reaction
\* of the framing contract to that very byte.
THEOREM Reaction == Spec => ConsumeFeeds
<1>1. IInv /\ IInv' /\ [Next]_vars
        => [\A byte \in Byte : Consume(byte) => Framing!Feed(byte)]_vars
  BY ConsumeIsFeed
<1>2. Spec => []IInv
  BY IInvariance
<1> QED
  BY <1>1, <1>2, PTL DEF Spec, ConsumeFeeds

\* The decoder implements the framing contract.
THEOREM Refinement == Spec => ImplementsFraming
<1>1. Init => Framing!Init
  BY DEF Init, Framing!Init, Span, Got, Matched
<1>2. IInv /\ IInv' /\ [Next]_vars => [Framing!Next]_(Framing!vars)
  <2> SUFFICES ASSUME IInv, IInv', [Next]_vars
               PROVE  [Framing!Next]_(Framing!vars)
    OBVIOUS
  <2>1. CASE Next
    <3>1. PICK byte \in Byte : Consume(byte)
      BY <2>1 DEF Next, OnTheLine
    <3>2. Framing!Feed(byte)
      BY <3>1, ConsumeIsFeed
    <3> QED
      BY <3>2 DEF Framing!Next, Framing!Byte, Byte
  <2>2. CASE UNCHANGED vars
    <3>1. Span' = Span /\ Got' = Got
      BY <2>2 DEF vars, Span, Got, Matched
    <3> QED
      BY <3>1 DEF Framing!vars
  <2> QED
    BY <2>1, <2>2
<1>3. Spec => []IInv
  BY IInvariance
<1> QED
  BY <1>1, <1>2, <1>3, PTL DEF Spec, ImplementsFraming, Framing!Spec
=============================================================================
