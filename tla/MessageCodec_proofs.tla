------------------------- MODULE MessageCodec_proofs -------------------------
(***************************************************************************)
(* Proofs about the codecs, for every number of byte values, everything    *)
(* that arrives and everything a client composes.                          *)
(***************************************************************************)
EXTENDS MessageCodec, SequenceTheorems, TLAPS

(***************************************************************************)
(* Frames: the two directions of the WMMM codec are inverse to each other, *)
(* for every set of bytes and every length (wmmm.hpp: "the exact inverse").*)
(***************************************************************************)

\* The header is four bytes, the identifier first.
LEMMA HeaderBytes ==
  ASSUME NEW B, NEW a \in B, NEW b \in B, NEW c \in B, NEW e \in B
  PROVE  /\ <<a>> \o <<b, c, e>> \in Seq(B)
         /\ <<a>> \o <<b, c, e>> = <<a, b, c, e>>
  <1> DEFINE s == <<a>>  t == <<b, c, e>>  u == <<a, b, c, e>>
  <1>1. /\ s \in Seq(B) /\ Len(s) = 1 /\ s[1] = a
        /\ t \in Seq(B) /\ Len(t) = 3 /\ t[1] = b /\ t[2] = c /\ t[3] = e
        /\ u \in Seq(B) /\ Len(u) = 4
        /\ u[1] = a /\ u[2] = b /\ u[3] = c /\ u[4] = e
    OBVIOUS
  <1> HIDE DEF s, t, u
  <1>2. /\ s \o t \in Seq(B) /\ Len(s \o t) = 4
        /\ \A i \in 1 .. 4 : (s \o t)[i] = IF i <= 1 THEN s[i] ELSE t[i - 1]
    <2>1. /\ s \o t \in Seq(B) /\ Len(s \o t) = Len(s) + Len(t)
          /\ \A i \in 1 .. Len(s) + Len(t) :
               (s \o t)[i] = IF i <= Len(s) THEN s[i] ELSE t[i - Len(s)]
      BY <1>1, ConcatProperties
    <2>2. Len(s) + Len(t) = 4 /\ Len(s) = 1
      BY <1>1
    <2>3. QED
      BY <2>1, <2>2
  <1>3. \A i \in 1 .. 4 : (s \o t)[i] = u[i]
    BY <1>1, <1>2
  <1>4. s \o t = u
    BY <1>1, <1>2, <1>3, SeqEqual
  <1>5. QED
    BY <1>2, <1>4 DEF s, t, u

\* A frame is four bytes and a payload, and its encoding is these put together.
LEMMA FrameParts ==
  ASSUME NEW B, NEW f \in FrameOver(B)
  PROVE  /\ f.payload \in Seq(B)
         /\ \E b, c, e \in B :
              /\ f.reserved = <<b, c, e>>
              /\ WmmmEncode(f) = <<f.msg_id, b, c, e>> \o f.payload
  <1>1. /\ f.msg_id \in B /\ f.reserved \in B \X B \X B
        /\ f.payload \in Seq(B)
        /\ f = [msg_id |-> f.msg_id, reserved |-> f.reserved,
                payload |-> f.payload]
    BY DEF FrameOver
  <1>2. PICK b, c, e \in B : f.reserved = <<b, c, e>>
    BY <1>1
  <1>3. WmmmEncode(f) = (<<f.msg_id>> \o <<b, c, e>>) \o f.payload
    BY <1>2 DEF WmmmEncode
  <1>4. <<f.msg_id>> \o <<b, c, e>> = <<f.msg_id, b, c, e>>
    BY <1>1, HeaderBytes
  <1>5. QED
    BY <1>1, <1>2, <1>3, <1>4, Zenon

\* Decoding what was encoded gives the frame back: no frame is rejected, cut or
\* extended.
THEOREM DecodeInvertsEncode ==
  ASSUME NEW B, NEW f \in FrameOver(B)
  PROVE  WmmmDecode(WmmmEncode(f)) = <<f>>
  <1> DEFINE a == f.msg_id
  <1>0. /\ a \in B /\ f.payload \in Seq(B)
        /\ f = [msg_id |-> a, reserved |-> f.reserved, payload |-> f.payload]
    BY DEF FrameOver
  <1>1. PICK b, c, e \in B :
          /\ f.reserved = <<b, c, e>>
          /\ WmmmEncode(f) = <<a, b, c, e>> \o f.payload
    BY FrameParts
  <1> HIDE DEF a
  <1> DEFINE h == <<a, b, c, e>>
             d == h \o f.payload
             rest == SubSeq(d, 5, Len(d))
  <1>2. /\ h \in Seq(B) /\ Len(h) = 4
        /\ h[1] = a /\ h[2] = b /\ h[3] = c /\ h[4] = e
    BY <1>0
  <1> HIDE DEF h
  <1>3. Len(f.payload) \in Nat
    BY <1>0
  <1>4. /\ d \in Seq(B) /\ Len(d) = 4 + Len(f.payload)
        /\ \A i \in 1 .. 4 + Len(f.payload) :
             d[i] = IF i <= 4 THEN h[i] ELSE f.payload[i - 4]
    <2>1. /\ d \in Seq(B) /\ Len(d) = Len(h) + Len(f.payload)
          /\ \A i \in 1 .. Len(h) + Len(f.payload) :
               d[i] = IF i <= Len(h) THEN h[i] ELSE f.payload[i - Len(h)]
      BY <1>0, <1>2, ConcatProperties
    <2> HIDE DEF d
    <2>2. QED
      BY <1>2, <1>3, <2>1
  <1> HIDE DEF d
  <1>5. d[1] = a /\ d[2] = b /\ d[3] = c /\ d[4] = e
    BY <1>2, <1>3, <1>4
  <1>6. /\ rest \in Seq(B) /\ Len(rest) = Len(f.payload)
        /\ \A i \in 1 .. Len(rest) : rest[i] = d[4 + i]
    <2>1. \A i \in 5 .. Len(d) : d[i] \in B
      BY <1>3, <1>4, ElementOfSeq
    <2>2. /\ rest \in Seq(B)
          /\ Len(rest) = IF 5 <= Len(d) THEN Len(d) - 5 + 1 ELSE 0
          /\ \A i \in 1 .. Len(d) - 5 + 1 : rest[i] = d[5 + i - 1]
      BY <1>3, <1>4, <2>1, SubSeqProperties
    <2> HIDE DEF rest
    <2>3. QED
      BY <1>3, <1>4, <2>2
  <1> HIDE DEF rest
  <1>7. \A i \in 1 .. Len(rest) : rest[i] = f.payload[i]
    <2> TAKE i \in 1 .. Len(rest)
    <2>1. /\ rest[i] = d[4 + i]
          /\ 4 + i \in 1 .. 4 + Len(f.payload) /\ ~ (4 + i <= 4)
          /\ (4 + i) - 4 = i
      BY <1>3, <1>6
    <2>2. d[4 + i] = f.payload[(4 + i) - 4]
      BY <1>4, <2>1
    <2>3. QED
      BY <2>1, <2>2
  <1>8. rest = f.payload
    BY <1>0, <1>6, <1>7, SeqEqual
  <1>9. WmmmDecode(d) =
          <<[msg_id |-> d[1], reserved |-> <<d[2], d[3], d[4]>>,
             payload |-> rest]>>
    <2>1. ~ (Len(d) < HeaderSize) /\ HeaderSize + 1 = 5
      BY <1>3, <1>4 DEF HeaderSize
    <2>2. QED
      BY <2>1 DEF WmmmDecode, rest
  <1>10. WmmmDecode(d) = <<f>>
    BY <1>0, <1>1, <1>5, <1>8, <1>9, Zenon
  <1>11. QED
    BY <1>1, <1>10 DEF d, h

\* Bytes are decoded whenever they hold a header, and encoding what was decoded
\* gives the bytes back.
THEOREM EncodeInvertsDecode ==
  ASSUME NEW B, NEW d \in Seq(B), Len(d) >= HeaderSize
  PROVE  /\ WmmmDecode(d) # <<>>
         /\ WmmmEncode(WmmmDecode(d)[1]) = d
  <1> DEFINE rest == SubSeq(d, 5, Len(d))
             h == <<d[1], d[2], d[3], d[4]>>
             f == [msg_id |-> d[1], reserved |-> <<d[2], d[3], d[4]>>,
                   payload |-> rest]
  <1>1. /\ Len(d) \in Nat /\ Len(d) >= 4
        /\ d[1] \in B /\ d[2] \in B /\ d[3] \in B /\ d[4] \in B
    BY ElementOfSeq DEF HeaderSize
  <1>2. WmmmDecode(d) = <<f>>
    <2>1. ~ (Len(d) < HeaderSize) /\ HeaderSize + 1 = 5
      BY <1>1 DEF HeaderSize
    <2>2. QED
      BY <2>1 DEF WmmmDecode
  <1>3. WmmmEncode(f) = h \o rest
    <2>1. WmmmEncode(f) = (<<d[1]>> \o <<d[2], d[3], d[4]>>) \o rest
      BY DEF WmmmEncode
    <2>2. <<d[1]>> \o <<d[2], d[3], d[4]>> = h
      BY <1>1, HeaderBytes
    <2>3. QED
      BY <2>1, <2>2, Zenon
  <1>4. h = SubSeq(d, 1, 4)
    <2> DEFINE front == SubSeq(d, 1, 4)
    <2>1. \A i \in 1 .. 4 : d[i] \in B
      BY <1>1, ElementOfSeq
    <2>2. /\ front \in Seq(B) /\ Len(front) = 4
          /\ \A i \in 1 .. 4 : front[i] = d[i]
      <3>1. /\ front \in Seq(B)
            /\ Len(front) = IF 1 <= 4 THEN 4 - 1 + 1 ELSE 0
            /\ \A i \in 1 .. 4 - 1 + 1 : front[i] = d[1 + i - 1]
        BY <2>1, SubSeqProperties
      <3> HIDE DEF front
      <3>2. QED
        BY <3>1
    <2>3. /\ h \in Seq(B) /\ Len(h) = 4
          /\ h[1] = d[1] /\ h[2] = d[2] /\ h[3] = d[3] /\ h[4] = d[4]
      BY <1>1
    <2> HIDE DEF front, h
    <2>4. \A i \in 1 .. 4 : h[i] = front[i]
      BY <2>2, <2>3
    <2>5. h = front
      BY <2>2, <2>3, <2>4, SeqEqual
    <2>6. QED
      BY <2>5 DEF front
  <1>5. SubSeq(d, 1, 4) \o rest = SubSeq(d, 1, Len(d))
    <2>1. /\ 1 \in 1 .. Len(d) + 1 /\ 4 \in 1 - 1 .. Len(d)
          /\ Len(d) \in 4 .. Len(d) /\ 4 + 1 = 5
      BY <1>1
    <2>2. SubSeq(d, 1, 4) \o SubSeq(d, 4 + 1, Len(d)) = SubSeq(d, 1, Len(d))
      BY <2>1, ConcatAdjacentSubSeq
    <2>3. QED
      BY <2>1, <2>2
  <1>6. SubSeq(d, 1, Len(d)) = d
    BY SubSeqFull
  <1>7. WmmmEncode(f) = d
    BY <1>3, <1>4, <1>5, <1>6, Zenon
  <1>8. <<f>> # <<>> /\ <<f>>[1] = f
    OBVIOUS
  <1>9. QED
    BY <1>2, <1>7, <1>8

(***************************************************************************)
(* Numbers.                                                                *)
(***************************************************************************)

\* Quotient and remainder are the only ones.
LEMMA Quotient ==
  ASSUME NEW B \in Nat \ {0}, NEW q \in Int, NEW r \in 0 .. B - 1
  PROVE  (q * B + r) \div B = q /\ (q * B + r) % B = r
OBVIOUS

LEMMA Remainder ==
  ASSUME NEW B \in Nat \ {0}, NEW n \in Int
  PROVE  /\ n \div B \in Int /\ n % B \in 0 .. B - 1
         /\ n = (n \div B) * B + (n % B)
OBVIOUS

LEMMA BaseWord ==
  /\ Base \in Nat \ {0} /\ Base >= 2
  /\ Word \in Nat \ {0} /\ Word >= Base
  /\ Word \div 2 \in Nat /\ Word = 2 * (Word \div 2)
<1>1. Base \in Nat \ {0} /\ Base % 2 = 0 /\ Base >= 2
  BY CodecAssumption
<1>2. PICK k \in Nat : Base = 2 * k /\ k >= 1
  BY <1>1
<1>3. Base * Base = 2 * (k * Base) /\ k * Base \in Nat /\ k * Base >= Base
  BY <1>1, <1>2
<1>4. ASSUME NEW h \in Nat PROVE (2 * h) \div 2 = h
  OBVIOUS
<1>5. Word = 2 * (k * Base) /\ Word \div 2 = k * Base
  BY <1>3, <1>4 DEF Word
<1>6. QED
  BY <1>1, <1>2, <1>3, <1>5

\* A product of a bounded and a natural number, and a digit, is bounded.
LEMMA Digits ==
  ASSUME NEW B \in Nat \ {0}, NEW C \in Nat \ {0}, NEW q \in 0 .. C - 1, NEW r \in 0 .. B - 1
  PROVE  q * B + r \in 0 .. C * B - 1
<1>1. q * B \in Nat /\ q * B <= (C - 1) * B
  OBVIOUS
<1>2. (C - 1) * B = C * B - B /\ C * B \in Nat
  OBVIOUS
<1>3. QED
  BY <1>1, <1>2

\* The quotient of a bounded number is bounded.
LEMMA QuotientBounded ==
  ASSUME NEW B \in Nat \ {0}, NEW C \in Nat \ {0}, NEW n \in 0 .. C * B - 1
  PROVE  n \div B \in 0 .. C - 1
<1>1. C * B \in Nat
  OBVIOUS
<1>2. /\ n \div B \in Int /\ n % B \in 0 .. B - 1
      /\ n = (n \div B) * B + (n % B)
  BY <1>1, Remainder
<1>3. n \div B >= 0
  BY <1>1
<1>4. ASSUME n \div B >= C PROVE FALSE
  <2>1. (n \div B) * B >= C * B
    BY <1>2, <1>4
  <2>2. QED
    BY <1>1, <1>2, <2>1
<1>5. QED
  BY <1>2, <1>3, <1>4

\* Two bytes to and fro.
LEMMA Be16 ==
  /\ \A a, b \in Byte : /\ from_be16(<<a, b>>) \in 0 .. Word - 1
                        /\ to_be16(from_be16(<<a, b>>)) = <<a, b>>
  /\ \A v \in Int : /\ to_be16(v) \in Byte \X Byte
                    /\ to_be16(v) \in Seq(Byte) /\ Len(to_be16(v)) = 2
  /\ \A v \in 0 .. Word - 1 : from_be16(to_be16(v)) = v
<1>1. ASSUME NEW a \in Byte, NEW b \in Byte
      PROVE  /\ from_be16(<<a, b>>) \in 0 .. Word - 1
             /\ to_be16(from_be16(<<a, b>>)) = <<a, b>>
  <2>1. from_be16(<<a, b>>) = a * Base + b
    BY DEF from_be16
  <2>2. a * Base + b \in 0 .. Word - 1
    BY BaseWord, Digits DEF Byte, Word
  <2>3. (a * Base + b) \div Base = a /\ (a * Base + b) % Base = b
    BY BaseWord, Quotient DEF Byte
  <2>4. a % Base = a
    BY BaseWord DEF Byte
  <2>5. QED
    BY <2>1, <2>2, <2>3, <2>4 DEF to_be16
<1>2. ASSUME NEW v \in Int
      PROVE  /\ to_be16(v) \in Byte \X Byte
             /\ to_be16(v) \in Seq(Byte) /\ Len(to_be16(v)) = 2
  <2>1. v \div Base \in Int
    BY BaseWord, Remainder
  <2>2. (v \div Base) % Base \in Byte /\ v % Base \in Byte
    BY <2>1, BaseWord, Remainder DEF Byte
  <2>3. QED
    BY <2>2 DEF to_be16
<1>3. ASSUME NEW v \in 0 .. Word - 1
      PROVE  from_be16(to_be16(v)) = v
  <2>1. v \div Base \in 0 .. Base - 1
    BY BaseWord, QuotientBounded DEF Word
  <2>2. (v \div Base) % Base = v \div Base
    BY <2>1, BaseWord
  <2>3. v = (v \div Base) * Base + (v % Base)
    BY BaseWord, Remainder
  <2>4. QED
    BY <2>2, <2>3 DEF from_be16, to_be16
<1>4. QED
  BY <1>1, <1>2, <1>3

\* Four bytes to and fro.
Horner(a, b, c, d) == ((a * Base + b) * Base + c) * Base + d

LEMMA HornerDigits ==
  ASSUME NEW a \in Byte, NEW b \in Byte, NEW c \in Byte, NEW d \in Byte
  PROVE  /\ Horner(a, b, c, d) \in 0 .. Word * Word - 1
         /\ to_be32(Horner(a, b, c, d)) = <<a, b, c, d>>
<1> DEFINE ab == a * Base + b  abc == ab * Base + c  v == abc * Base + d
<1>1. ab \in 0 .. Base * Base - 1
  BY BaseWord, Digits DEF Byte
<1>2. abc \in 0 .. (Base * Base) * Base - 1
  BY <1>1, BaseWord, Digits DEF Byte, Word
<1>3. v \in 0 .. ((Base * Base) * Base) * Base - 1
  <2>1. (Base * Base) * Base \in Nat \ {0}
    BY BaseWord
  <2>2. QED
    BY <1>2, <2>1, BaseWord, Digits DEF Byte
<1>4. ((Base * Base) * Base) * Base = Word * Word
  BY BaseWord DEF Word
<1>5. v \div Base = abc /\ v % Base = d
  BY <1>2, BaseWord, Quotient DEF Byte
<1>6. abc % Base = c
  BY <1>1, BaseWord, Quotient DEF Byte
<1>7. v \div Word = ab /\ ab % Base = b
  <2>1. c * Base + d \in 0 .. Word - 1
    BY BaseWord, Digits DEF Byte, Word
  <2>2. v = ab * Word + (c * Base + d)
    BY <1>1, BaseWord DEF Word, Byte
  <2>3. ab % Base = b
    BY BaseWord, Quotient DEF Byte
  <2>4. ab \in Int
    BY <1>1
  <2> DEFINE low == c * Base + d
  <2>5. low \in 0 .. Word - 1 /\ v = ab * Word + low
    BY <2>1, <2>2
  <2> HIDE DEF v, ab, low
  <2>6. (ab * Word + low) \div Word = ab
    BY <2>4, <2>5, BaseWord, Quotient
  <2>7. QED
    BY <2>3, <2>5, <2>6
<1>8. v \div (Word * Base) = a /\ a % Base = a
  <2>1. (b * Base + c) * Base + d \in 0 .. Word * Base - 1
    <3>1. b * Base + c \in 0 .. Word - 1
      BY BaseWord, Digits DEF Byte, Word
    <3>2. QED
      BY <3>1, BaseWord, Digits DEF Byte
  <2>2. v = a * (Word * Base) + ((b * Base + c) * Base + d)
    BY BaseWord DEF Word, Byte
  <2>3. Word * Base \in Nat \ {0}
    BY BaseWord
  <2>4. v \div (Word * Base) = a
    BY <2>1, <2>2, <2>3, Quotient DEF Byte
  <2>5. QED
    BY <2>4, BaseWord DEF Byte
<1>9. v = Horner(a, b, c, d)
  BY DEF Horner
<1> HIDE DEF v
<1>10. QED
  BY <1>3, <1>4, <1>5, <1>6, <1>7, <1>8, <1>9 DEF to_be32

LEMMA HornerOf ==
  ASSUME NEW v \in 0 .. Word * Word - 1
  PROVE  \E a, b, c, d \in Byte : v = Horner(a, b, c, d)
<1> DEFINE abc == v \div Base  ab == abc \div Base  a == ab \div Base
<1>1. Word * Word = ((Base * Base) * Base) * Base
  BY BaseWord DEF Word
<1>2. /\ Base \in Nat \ {0} /\ Base * Base \in Nat \ {0} /\ (Base * Base) * Base \in Nat \ {0}
      /\ v \in Int
  BY BaseWord
<1>3. abc \in 0 .. (Base * Base) * Base - 1
  BY <1>1, <1>2, QuotientBounded
<1>4. v % Base \in Byte /\ v = abc * Base + (v % Base)
  BY <1>2, Remainder DEF Byte
<1> HIDE DEF abc
<1>5. ab \in 0 .. Base * Base - 1
  BY <1>2, <1>3, QuotientBounded
<1>6. abc % Base \in Byte /\ abc = ab * Base + (abc % Base)
  BY <1>2, <1>3, Remainder DEF Byte
<1> HIDE DEF ab
<1>7. a \in 0 .. Base - 1
  BY <1>2, <1>5, QuotientBounded
<1>8. ab % Base \in Byte /\ ab = a * Base + (ab % Base)
  BY <1>2, <1>5, Remainder DEF Byte
<1> HIDE DEF a
<1>9. v = Horner(a, ab % Base, abc % Base, v % Base)
  BY <1>4, <1>6, <1>8 DEF Horner
<1>10. QED
  BY <1>4, <1>6, <1>7, <1>8, <1>9 DEF Byte

LEMMA Be32 ==
  /\ \A a, b, c, d \in Byte :
       /\ from_be32(<<a, b, c, d>>) \in 0 .. Word * Word - 1
       /\ to_be32(from_be32(<<a, b, c, d>>)) = <<a, b, c, d>>
  /\ \A v \in 0 .. Word * Word - 1 :
       /\ to_be32(v) \in Seq(Byte) /\ Len(to_be32(v)) = 4
       /\ from_be32(to_be32(v)) = v
<1>1. \A a, b, c, d \in Byte : from_be32(<<a, b, c, d>>) = Horner(a, b, c, d)
  BY DEF from_be32, Horner
<1>2. ASSUME NEW v \in 0 .. Word * Word - 1
      PROVE  /\ to_be32(v) \in Seq(Byte) /\ Len(to_be32(v)) = 4
             /\ from_be32(to_be32(v)) = v
  <2>1. PICK a, b, c, d \in Byte : v = Horner(a, b, c, d)
    BY HornerOf
  <2>2. to_be32(v) = <<a, b, c, d>>
    BY <2>1, HornerDigits
  <2>3. <<a, b, c, d>> \in Seq(Byte) /\ Len(<<a, b, c, d>>) = 4
    OBVIOUS
  <2>4. QED
    BY <1>1, <2>1, <2>2, <2>3
<1>3. QED
  BY <1>1, <1>2, HornerDigits

\* Tenths of a degree to and fro.
LEMMA Tenths ==
  /\ \A v \in Int : ToTenths(v) \in Int
  /\ \A n \in Int : FromTenths(n) \in Int /\ ToTenths(FromTenths(n)) = n
<1>1. Fine \in Nat /\ Fine > 0
  BY CodecAssumption
<1>2. ASSUME NEW v \in Int PROVE ToTenths(v) \in Int
  BY <1>1, Remainder DEF ToTenths
<1>3. ASSUME NEW n \in Int PROVE FromTenths(n) \in Int /\ ToTenths(FromTenths(n)) = n
  <2>1. n * Fine \in Int /\ (n * Fine) \div Fine = n
    BY <1>1
  <2>2. n >= 0 => n * Fine >= 0
    BY <1>1
  <2>3. n < 0 => ~ (n * Fine >= 0)
    BY <1>1
  <2>4. - (n * Fine) = (- n) * Fine /\ ((- n) * Fine) \div Fine = - n
    BY <1>1
  <2>5. - (- n) = n
    OBVIOUS
  <2>6. QED
    BY <2>1, <2>2, <2>3, <2>4, <2>5 DEF ToTenths, FromTenths
<1>4. QED
  BY <1>2, <1>3

\* A word with a sign to and fro.
SignedWord == - (Word \div 2) .. (Word \div 2) - 1

LEMMA Signs ==
  /\ \A w \in 0 .. Word - 1 : Signed(w) \in SignedWord /\ Signed(w) % Word = w
  /\ \A n \in SignedWord : n % Word \in 0 .. Word - 1 /\ Signed(n % Word) = n
<1> DEFINE h == Word \div 2
<1>1. h \in Nat /\ Word = 2 * h /\ Word \in Nat \ {0}
  BY BaseWord
<1> HIDE DEF h
<1>2. \A w \in 0 .. Word - 1 : w % Word = w /\ (w - Word) % Word = w
  <2>1. \A w \in 0 .. Word - 1 : w % Word = w
    BY <1>1
  <2>2. ASSUME NEW w \in 0 .. Word - 1 PROVE (w - Word) % Word = w
    <3>1. w - Word = (-1) * Word + w
      BY <1>1
    <3>2. QED
      BY <1>1, <3>1, Quotient
  <2>3. QED
    BY <2>1, <2>2
<1>3. ASSUME NEW w \in 0 .. Word - 1
      PROVE  Signed(w) \in SignedWord /\ Signed(w) % Word = w
  BY <1>1, <1>2 DEF Signed, SignedWord, h
<1>4. ASSUME NEW n \in SignedWord
      PROVE  n % Word \in 0 .. Word - 1 /\ Signed(n % Word) = n
  <2>1. CASE n >= 0
    BY <1>1, <1>2, <2>1 DEF Signed, SignedWord, h
  <2>2. CASE n < 0
    <3>1. n + Word \in 0 .. Word - 1 /\ n = (n + Word) - Word /\ ~ (n + Word < h)
      BY <1>1, <2>2 DEF SignedWord, h
    <3>2. n % Word = n + Word
      BY <1>2, <3>1
    <3>3. QED
      BY <1>1, <3>1, <3>2 DEF Signed, h
  <2>3. QED
    BY <2>1, <2>2 DEF SignedWord
<1>5. QED
  BY <1>3, <1>4

(***************************************************************************)
(* Strings.                                                                *)
(***************************************************************************)

IsUnitLength(s, n) ==
  /\ n \in 0 .. UNIT_LEN /\ n <= Len(s) /\ \A i \in 1 .. n : s[i] # 0
  /\ n = UNIT_LEN \/ n = Len(s) \/ s[n + 1] = 0

\* There is one length that a string has within its slot.
LEMMA UnitLengthIs ==
  ASSUME NEW s, Len(s) \in Nat
  PROVE  /\ IsUnitLength(s, UnitLength(s))
         /\ \A n : IsUnitLength(s, n) => n = UnitLength(s)
<1> DEFINE ok(n) == n <= Len(s) /\ \A i \in 1 .. n : s[i] # 0
<1>1. \A n \in 0 .. 7 : ok(n) /\ ~ ok(n + 1) => n = Len(s) \/ s[n + 1] = 0
  <2> TAKE n \in 0 .. 7
  <2>1. ASSUME ok(n), n # Len(s), s[n + 1] # 0 PROVE ok(n + 1)
    <3>1. \A i \in 1 .. n + 1 : i \in 1 .. n \/ i = n + 1
      OBVIOUS
    <3>2. QED
      BY <2>1, <3>1
  <2>2. QED
    BY <2>1
<1>2. \E n \in 0 .. 8 : ok(n) /\ (n = 8 \/ ~ ok(n + 1))
  <2>1. ok(0)
    OBVIOUS
  <2> HIDE DEF ok
  <2>2. QED
    BY <2>1
<1>3. \E n \in 0 .. UNIT_LEN : IsUnitLength(s, n)
  <2>1. PICK n \in 0 .. 8 : ok(n) /\ (n = 8 \/ ~ ok(n + 1))
    BY <1>2
  <2>2. n = 8 \/ n = Len(s) \/ s[n + 1] = 0
    <3>1. n = 8 \/ n \in 0 .. 7
      OBVIOUS
    <3> HIDE DEF ok
    <3>2. QED
      BY <1>1, <2>1, <3>1
  <2>3. QED
    BY <2>1, <2>2 DEF IsUnitLength, UNIT_LEN
<1>4. UnitLength(s) = CHOOSE n \in 0 .. UNIT_LEN : IsUnitLength(s, n)
  BY Zenon DEF UnitLength, IsUnitLength
<1>5. IsUnitLength(s, UnitLength(s))
  BY <1>3, <1>4
<1>6. ASSUME NEW n, NEW m, IsUnitLength(s, n), IsUnitLength(s, m) PROVE ~ (n < m)
  <2>1. ASSUME n < m PROVE FALSE
    <3>1. n \in Nat /\ m \in Nat /\ m <= UNIT_LEN /\ UNIT_LEN \in Nat /\ m <= Len(s)
      BY <1>6 DEF IsUnitLength, UNIT_LEN
    <3>2. n # UNIT_LEN /\ n # Len(s) /\ n + 1 \in 1 .. m
      BY <2>1, <3>1
    <3>3. s[n + 1] = 0 /\ s[n + 1] # 0
      BY <1>6, <3>2 DEF IsUnitLength
    <3>4. QED
      BY <3>3
  <2>2. QED
    BY <2>1
<1>7. ASSUME NEW n, IsUnitLength(s, n) PROVE n = UnitLength(s)
  <2>1. n \in Nat /\ UnitLength(s) \in Nat
    BY <1>5, <1>7 DEF IsUnitLength, UNIT_LEN
  <2>2. ~ (n < UnitLength(s)) /\ ~ (UnitLength(s) < n)
    BY <1>5, <1>6, <1>7
  <2>3. QED
    BY <2>1, <2>2
<1>8. QED
  BY <1>5, <1>7

\* The longest prefix without a NUL that fits has that length.
LEMMA LongestPrefix ==
  ASSUME NEW s, Len(s) \in Nat
  PROVE  Max({n \in 0 .. UNIT_LEN : n <= Len(s) /\ \A i \in 1 .. n : s[i] # 0}) = UnitLength(s)
<1> DEFINE S == {n \in 0 .. UNIT_LEN : n <= Len(s) /\ \A i \in 1 .. n : s[i] # 0}
           u == UnitLength(s)
<1>1. /\ u \in 0 .. UNIT_LEN /\ u <= Len(s) /\ \A i \in 1 .. u : s[i] # 0
      /\ u = UNIT_LEN \/ u = Len(s) \/ s[u + 1] = 0
  BY UnitLengthIs DEF IsUnitLength
<1> HIDE DEF u
<1>2. u \in S
  BY <1>1
<1>3. ASSUME NEW y \in S PROVE u >= y
  <2>1. ASSUME y > u PROVE FALSE
    <3>1. u # UNIT_LEN /\ u # Len(s) /\ u + 1 \in 1 .. y
      BY <1>1, <2>1 DEF UNIT_LEN
    <3>2. QED
      BY <1>1, <3>1
  <2>2. QED
    BY <1>1, <2>1 DEF UNIT_LEN
<1>4. \A x \in S : (\A y \in S : x >= y) => x = u
  <2>1. S \subseteq Int /\ u \in Int
    BY <1>2 DEF UNIT_LEN
  <2> HIDE DEF S
  <2>2. QED
    BY <1>2, <1>3, <2>1
<1> HIDE DEF S
<1>5. Max(S) = u
  BY <1>2, <1>3, <1>4 DEF Max
<1>6. QED
  BY <1>5 DEF S, u

\* A string to and fro: what does not fit and what is behind a NUL is lost.
LEMMA UnitStrings ==
  /\ \A b \in Seq(Byte) : /\ read_unit(b) \in Seq(Byte) /\ Len(read_unit(b)) = UnitLength(b)
                          /\ Len(read_unit(b)) <= UNIT_LEN
                          /\ \A i \in DOMAIN read_unit(b) : read_unit(b)[i] # 0
  /\ \A v \in Seq(Byte) : /\ write_unit(v) \in Seq(Byte) /\ Len(write_unit(v)) = UNIT_LEN
                          /\ read_unit(write_unit(v)) = SubSeq(v, 1, UnitLength(v))
  /\ \A v \in Seq(Byte) : write_unit(read_unit(write_unit(v))) = write_unit(v)
                          \/ \E i \in 1 .. UNIT_LEN : i <= Len(v) /\ v[i] = 0
<1>1. ASSUME NEW b \in Seq(Byte)
      PROVE  /\ SubSeq(b, 1, UnitLength(b)) \in Seq(Byte)
             /\ Len(SubSeq(b, 1, UnitLength(b))) = UnitLength(b)
             /\ UnitLength(b) \in 0 .. UNIT_LEN /\ UnitLength(b) <= Len(b)
             /\ \A i \in 1 .. UnitLength(b) :
                  SubSeq(b, 1, UnitLength(b))[i] = b[i] /\ b[i] # 0
  <2>1. Len(b) \in Nat
    OBVIOUS
  <2>2. /\ UnitLength(b) \in 0 .. UNIT_LEN /\ UnitLength(b) <= Len(b)
        /\ \A i \in 1 .. UnitLength(b) : b[i] # 0
    BY <2>1, UnitLengthIs DEF IsUnitLength
  <2> DEFINE u == UnitLength(b)
  <2> HIDE DEF u
  <2>3. u \in Nat /\ \A i \in 1 .. u : b[i] \in Byte
    BY <2>1, <2>2, ElementOfSeq DEF u, UNIT_LEN
  <2>4. /\ SubSeq(b, 1, u) \in Seq(Byte)
        /\ Len(SubSeq(b, 1, u)) = IF 1 <= u THEN u - 1 + 1 ELSE 0
        /\ \A i \in 1 .. u - 1 + 1 : SubSeq(b, 1, u)[i] = b[1 + i - 1]
    BY <2>3, SubSeqProperties
  <2>5. /\ SubSeq(b, 1, u) \in Seq(Byte) /\ Len(SubSeq(b, 1, u)) = u
        /\ \A i \in 1 .. u : SubSeq(b, 1, u)[i] = b[i]
    BY <2>3, <2>4
  <2>6. QED
    BY <2>2, <2>5 DEF u
<1>2. ASSUME NEW b \in Seq(Byte)
      PROVE  /\ read_unit(b) \in Seq(Byte) /\ Len(read_unit(b)) = UnitLength(b)
             /\ Len(read_unit(b)) <= UNIT_LEN
             /\ \A i \in DOMAIN read_unit(b) : read_unit(b)[i] # 0
  <2> DEFINE s == read_unit(b)  u == UnitLength(b)
  <2>1. /\ s \in Seq(Byte) /\ Len(s) = u /\ u \in 0 .. 8
        /\ \A i \in 1 .. u : s[i] # 0
    BY <1>1, Zenon DEF read_unit, UNIT_LEN
  <2> HIDE DEF s, u
  <2>2. DOMAIN s = 1 .. u /\ Len(s) <= 8
    BY <2>1
  <2>3. QED
    BY <2>1, <2>2 DEF s, u, UNIT_LEN
<1>3. ASSUME NEW v \in Seq(Byte)
      PROVE  /\ write_unit(v) \in Seq(Byte) /\ Len(write_unit(v)) = UNIT_LEN
             /\ \A i \in 1 .. UNIT_LEN : write_unit(v)[i] = IF i <= Len(v) THEN v[i] ELSE 0
  <2>1. \A i \in 1 .. UNIT_LEN : (IF i <= Len(v) THEN v[i] ELSE 0) \in Byte
    <3> TAKE i \in 1 .. UNIT_LEN
    <3>1. CASE i <= Len(v)
      <4>1. i \in 1 .. Len(v)
        BY <3>1 DEF UNIT_LEN
      <4>2. QED
        BY <3>1, <4>1, ElementOfSeq
    <3>2. CASE ~ (i <= Len(v))
      BY <3>2, BaseWord DEF Byte
    <3>3. QED
      BY <3>1, <3>2
  <2>2. QED
    BY <2>1 DEF write_unit, UNIT_LEN
<1>4. ASSUME NEW v \in Seq(Byte)
      PROVE  UnitLength(write_unit(v)) = UnitLength(v)
  <2> DEFINE w == write_unit(v)  u == UnitLength(v)
  <2>1. /\ u \in 0 .. UNIT_LEN /\ u <= Len(v) /\ Len(v) \in Nat
        /\ \A i \in 1 .. u : v[i] # 0
        /\ u = UNIT_LEN \/ u = Len(v) \/ v[u + 1] = 0
    BY UnitLengthIs DEF IsUnitLength
  <2>2. Len(w) = UNIT_LEN /\ \A i \in 1 .. UNIT_LEN : w[i] = IF i <= Len(v) THEN v[i] ELSE 0
    BY <1>3
  <2> HIDE DEF w, u
  <2>3. IsUnitLength(w, u)
    <3>1. \A i \in 1 .. u : w[i] # 0
      BY <2>1, <2>2 DEF UNIT_LEN
    <3>2. u = UNIT_LEN \/ w[u + 1] = 0
      BY <2>1, <2>2 DEF UNIT_LEN
    <3>3. QED
      BY <2>1, <2>2, <3>1, <3>2 DEF IsUnitLength
  <2>4. Len(w) \in Nat
    BY <2>2 DEF UNIT_LEN
  <2>5. QED
    BY <2>3, <2>4, UnitLengthIs DEF w, u
<1>5. ASSUME NEW v \in Seq(Byte)
      PROVE  /\ write_unit(v) \in Seq(Byte) /\ Len(write_unit(v)) = UNIT_LEN
             /\ read_unit(write_unit(v)) = SubSeq(v, 1, UnitLength(v))
  <2> DEFINE w == write_unit(v)  u == UnitLength(v)
  <2>1. /\ w \in Seq(Byte) /\ Len(w) = UNIT_LEN /\ UnitLength(w) = u
        /\ \A i \in 1 .. UNIT_LEN : w[i] = IF i <= Len(v) THEN v[i] ELSE 0
    BY <1>3, <1>4
  <2>2. /\ SubSeq(w, 1, u) \in Seq(Byte) /\ Len(SubSeq(w, 1, u)) = u
        /\ SubSeq(v, 1, u) \in Seq(Byte) /\ Len(SubSeq(v, 1, u)) = u
        /\ \A i \in 1 .. u : SubSeq(w, 1, u)[i] = w[i] /\ SubSeq(v, 1, u)[i] = v[i]
        /\ u \in 0 .. UNIT_LEN /\ u <= Len(v) /\ Len(v) \in Nat
    BY <1>1, <2>1
  <2> HIDE DEF w, u
  <2>3. \A i \in 1 .. u : SubSeq(w, 1, u)[i] = SubSeq(v, 1, u)[i]
    BY <2>1, <2>2 DEF UNIT_LEN
  <2>4. SubSeq(w, 1, u) = SubSeq(v, 1, u)
    BY <2>2, <2>3, SeqEqual
  <2>5. QED
    BY <2>1, <2>4 DEF read_unit, w, u
<1>6. ASSUME NEW v \in Seq(Byte), \A i \in 1 .. UNIT_LEN : i <= Len(v) => v[i] # 0
      PROVE  write_unit(read_unit(write_unit(v))) = write_unit(v)
  <2> DEFINE u == UnitLength(v)  s == SubSeq(v, 1, u)
  <2>1. /\ s \in Seq(Byte) /\ Len(s) = u /\ \A i \in 1 .. u : s[i] = v[i]
        /\ u \in 0 .. UNIT_LEN /\ u <= Len(v) /\ Len(v) \in Nat
    BY <1>1
  <2>2. u = UNIT_LEN \/ u = Len(v)
    <3>1. u = UNIT_LEN \/ u = Len(v) \/ v[u + 1] = 0
      BY UnitLengthIs DEF IsUnitLength
    <3> HIDE DEF u
    <3>2. QED
      BY <1>6, <2>1, <3>1 DEF UNIT_LEN
  <2> HIDE DEF u, s
  <2>3. \A i \in 1 .. UNIT_LEN : (IF i <= Len(s) THEN s[i] ELSE 0) = (IF i <= Len(v) THEN v[i] ELSE 0)
    BY <2>1, <2>2 DEF UNIT_LEN
  <2>4. write_unit(s) = write_unit(v)
    BY <2>3 DEF write_unit
  <2>5. read_unit(write_unit(v)) = s
    BY <1>5 DEF s, u
  <2>6. QED
    BY <2>4, <2>5
<1>7. QED
  BY <1>2, <1>5, <1>6

(***************************************************************************)
(* Fields.                                                                 *)
(***************************************************************************)

Kind == {"byte", "flag", "u16", "i16", "i16u", "u32", "unit"}

Builds == {"wraps", "saturates"}

\* The bytes of a field, spelt out.
LEMMA FewBytes ==
  ASSUME NEW b \in Seq(Byte)
  PROVE  /\ Len(b) = 1 => b[1] \in Byte /\ b = <<b[1]>>
         /\ Len(b) = 2 => b[1] \in Byte /\ b[2] \in Byte /\ b = <<b[1], b[2]>>
         /\ Len(b) = 4 => /\ b[1] \in Byte /\ b[2] \in Byte /\ b[3] \in Byte /\ b[4] \in Byte
                          /\ b = <<b[1], b[2], b[3], b[4]>>
<1>1. \A i \in 1 .. Len(b) : b[i] \in Byte
  BY ElementOfSeq
<1>2. ASSUME Len(b) = 1 PROVE b = <<b[1]>>
  <2>1. b[1] \in Byte
    BY <1>1, <1>2
  <2> DEFINE t == <<b[1]>>
  <2>2. t \in Seq(Byte) /\ Len(t) = 1 /\ t[1] = b[1]
    BY <2>1
  <2> HIDE DEF t
  <2>3. b = t
    BY <1>2, <2>2, SeqEqual
  <2>4. QED
    BY <2>3 DEF t
<1>3. ASSUME Len(b) = 2 PROVE b = <<b[1], b[2]>>
  <2>1. b[1] \in Byte /\ b[2] \in Byte
    BY <1>1, <1>3
  <2> DEFINE t == <<b[1], b[2]>>
  <2>2. t \in Seq(Byte) /\ Len(t) = 2 /\ t[1] = b[1] /\ t[2] = b[2]
    BY <2>1
  <2> HIDE DEF t
  <2>3. b = t
    BY <1>3, <2>2, SeqEqual
  <2>4. QED
    BY <2>3 DEF t
<1>4. ASSUME Len(b) = 4 PROVE b = <<b[1], b[2], b[3], b[4]>>
  <2>1. b[1] \in Byte /\ b[2] \in Byte /\ b[3] \in Byte /\ b[4] \in Byte
    BY <1>1, <1>4
  <2> DEFINE t == <<b[1], b[2], b[3], b[4]>>
  <2>2. /\ t \in Seq(Byte) /\ Len(t) = 4
        /\ t[1] = b[1] /\ t[2] = b[2] /\ t[3] = b[3] /\ t[4] = b[4]
    BY <2>1
  <2> HIDE DEF t
  <2>3. b = t
    BY <1>4, <2>2, SeqEqual
  <2>4. QED
    BY <2>3 DEF t
<1>5. QED
  BY <1>1, <1>2, <1>3, <1>4

\* The bytes of a number as decoding sees them.
LEMMA NumberBytes ==
  ASSUME NEW b \in Seq(Byte)
  PROVE  /\ Len(b) = 2 => from_be16(b) \in 0 .. Word - 1 /\ to_be16(from_be16(b)) = b
         /\ Len(b) = 4 => from_be32(b) \in 0 .. Word * Word - 1 /\ to_be32(from_be32(b)) = b
<1>1. ASSUME Len(b) = 2
      PROVE  from_be16(b) \in 0 .. Word - 1 /\ to_be16(from_be16(b)) = b
  <2>1. PICK x, y \in Byte : b = <<x, y>>
    BY <1>1, FewBytes
  <2>2. QED
    BY <2>1, Be16
<1>2. ASSUME Len(b) = 4
      PROVE  from_be32(b) \in 0 .. Word * Word - 1 /\ to_be32(from_be32(b)) = b
  <2>1. PICK x, y, z, u \in Byte : b = <<x, y, z, u>>
    BY <1>2, FewBytes
  <2>2. QED
    BY <2>1, Be32
<1>3. QED
  BY <1>1, <1>2

\* Whatever the bytes of a field are, decoding gives a value of its kind, and one
\* in the range that decoding has.
LEMMA FieldDecoded ==
  ASSUME NEW kind \in Kind, NEW b \in Seq(Byte), Len(b) = Width(kind)
  PROVE  /\ DecodeField(kind, b) \in Value(kind)
         /\ DecodedValue(kind, DecodeField(kind, b))
<1>1. CASE kind = "byte"
  <2>1. b[1] \in Byte
    BY <1>1, FewBytes DEF Width
  <2>2. QED
    BY <1>1, <2>1 DEF DecodeField, Value, DecodedValue, Byte
<1>2. CASE kind = "flag"
  BY <1>2 DEF DecodeField, Value, DecodedValue
<1>3. CASE kind = "u16"
  <2> DEFINE w == from_be16(b)
  <2>1. w \in 0 .. Word - 1 /\ w \in Int
    BY <1>3, NumberBytes, BaseWord DEF Width
  <2> HIDE DEF w
  <2>2. FromTenths(w) \in Int /\ ToTenths(FromTenths(w)) = w
    BY <2>1, Tenths
  <2>3. DecodeField(kind, b) = FromTenths(w)
    BY <1>3 DEF DecodeField, w
  <2>4. QED
    BY <1>3, <2>1, <2>2, <2>3 DEF Value, DecodedValue
<1>4. CASE kind \in {"i16", "i16u"}
  <2> DEFINE w == Signed(from_be16(b))
  <2>1. w \in SignedWord /\ w \in Int
    BY <1>4, NumberBytes, Signs, BaseWord DEF Width, SignedWord
  <2> HIDE DEF w
  <2>2. FromTenths(w) \in Int /\ ToTenths(FromTenths(w)) = w
    BY <2>1, Tenths
  <2>3. DecodeField(kind, b) = FromTenths(w)
    BY <1>4 DEF DecodeField, w
  <2>4. QED
    BY <1>4, <2>1, <2>2, <2>3 DEF Value, DecodedValue, SignedWord
<1>5. CASE kind = "u32"
  <2>1. from_be32(b) \in 0 .. Word * Word - 1
    BY <1>5, NumberBytes DEF Width
  <2>2. QED
    BY <1>5, <2>1 DEF DecodeField, Value, DecodedValue
<1>6. CASE kind = "unit"
  BY <1>6, UnitStrings DEF DecodeField, Value, DecodedValue
<1>7. QED
  BY <1>1, <1>2, <1>3, <1>4, <1>5, <1>6 DEF Kind

\* A cast gives a 16-bit word, the value itself when that is in range.
LEMMA Casts ==
  ASSUME build \in Builds, NEW t \in Int, NEW low \in Int, NEW high \in Int
  PROVE  /\ Cast(t, low, high) \in 0 .. Word - 1
         /\ t \in low .. high => Cast(t, low, high) = t % Word
         /\ build = "wraps" => Cast(t, low, high) = t % Word
         /\ build = "saturates" /\ t < low => Cast(t, low, high) = low % Word
<1> DEFINE n == IF t < low THEN low ELSE IF t > high THEN high ELSE t
<1>1. n \in Int
  OBVIOUS
<1>2. /\ build = "wraps" => Cast(t, low, high) = t % Word
      /\ build = "saturates" => Cast(t, low, high) = n % Word
  BY DEF Cast
<1>3. /\ t \in low .. high => n = t
      /\ t < low => n = low
  OBVIOUS
<1> HIDE DEF n
<1>4. t % Word \in 0 .. Word - 1 /\ n % Word \in 0 .. Word - 1
  BY <1>1, BaseWord, Remainder
<1>5. QED
  BY <1>2, <1>3, <1>4 DEF Builds

\* The word that a temperature is cast to.  The value below zero that one build
\* saturates is the one a field of kind i16u cannot carry.
LEMMA EncodedNumber ==
  ASSUME build \in Builds, NEW kind \in {"u16", "i16", "i16u"}, NEW v \in Int
  PROVE  \E w \in 0 .. Word - 1 :
           /\ EncodeField(kind, v) = to_be16(w)
           /\ kind = "u16" /\ ToTenths(v) \in 0 .. Word - 1 => w = ToTenths(v)
           /\ kind # "u16" /\ ToTenths(v) \in SignedWord =>
                \/ w = ToTenths(v) % Word
                \/ w = 0 /\ kind = "i16u" /\ ToTenths(v) < 0 /\ build # "wraps"
<1> DEFINE t == ToTenths(v)  h == Word \div 2
<1>1. /\ t \in Int /\ 0 \in Int /\ Word - 1 \in Int /\ Word \in Nat \ {0}
      /\ h \in Nat /\ - h \in Int /\ h - 1 \in Int /\ h <= Word
  BY Tenths, BaseWord
<1>2. t \in 0 .. Word - 1 => t % Word = t
  BY <1>1
<1>3. 0 % Word = 0
  BY <1>1
<1>4. CASE kind \in {"u16", "i16u"}
  <2> DEFINE w == Cast(t, 0, Word - 1)
  <2>1. EncodeField(kind, v) = to_be16(w)
    BY <1>4 DEF EncodeField
  <2> HIDE DEF t, h
  <2>2. /\ w \in 0 .. Word - 1
        /\ t \in 0 .. Word - 1 => w = t % Word
        /\ build = "wraps" => w = t % Word
        /\ build = "saturates" /\ t < 0 => w = 0
    BY <1>1, <1>3, Casts
  <2> HIDE DEF w
  <2>3. t \in SignedWord => t < 0 \/ t \in 0 .. Word - 1
    BY <1>1 DEF SignedWord, h
  <2>4. QED
    BY <1>2, <1>4, <2>1, <2>2, <2>3 DEF t, Builds
<1>5. CASE kind = "i16"
  <2> DEFINE w == Cast(t, - h, h - 1)
  <2>1. EncodeField(kind, v) = to_be16(w)
    BY <1>5 DEF EncodeField
  <2>2. t \in SignedWord <=> t \in - h .. h - 1
    BY DEF SignedWord
  <2> HIDE DEF t, h
  <2>3. /\ w \in 0 .. Word - 1
        /\ t \in - h .. h - 1 => w = t % Word
    BY <1>1, Casts
  <2> HIDE DEF w
  <2>4. QED
    BY <1>5, <2>1, <2>2, <2>3 DEF t
<1>6. QED
  BY <1>4, <1>5

\* Every value of a field can be serialised, to as many bytes as the field has.
LEMMA FieldEncoded ==
  ASSUME build \in Builds, NEW kind \in Kind, NEW v \in Value(kind)
  PROVE  /\ EncodeField(kind, v) \in Seq(Byte)
         /\ Len(EncodeField(kind, v)) = Width(kind)
<1>1. CASE kind = "byte"
  BY <1>1 DEF EncodeField, Width, Value
<1>2. CASE kind = "flag"
  <2>1. 0 \in Byte /\ 1 \in Byte
    BY BaseWord DEF Byte
  <2>2. QED
    BY <1>2, <2>1 DEF EncodeField, Width, Value
<1>3. CASE kind \in {"u16", "i16", "i16u"}
  <2>1. PICK w \in 0 .. Word - 1 : EncodeField(kind, v) = to_be16(w)
    BY <1>3, EncodedNumber DEF Value
  <2>2. w \in Int
    BY BaseWord
  <2>3. QED
    BY <1>3, <2>1, <2>2, Be16 DEF Width
<1>5. CASE kind = "u32"
  BY <1>5, Be32 DEF EncodeField, Width, Value
<1>6. CASE kind = "unit"
  BY <1>6, UnitStrings DEF EncodeField, Width, Value
<1>7. QED
  BY <1>1, <1>2, <1>3, <1>5, <1>6 DEF Kind

\* The receiver of a field reads what the sender meant, if the field can carry it.
LEMMA FieldEcho ==
  ASSUME build \in Builds, NEW kind \in Kind, NEW v \in Value(kind), Fits(kind, v)
  PROVE  DecodeField(kind, EncodeField(kind, v)) = Delivered(kind, v)
<1>1. CASE kind = "byte"
  BY <1>1 DEF EncodeField, DecodeField, Delivered
<1>2. CASE kind = "flag"
  BY <1>2 DEF EncodeField, DecodeField, Delivered, Value
<1>3. CASE kind \in {"u16", "i16", "i16u"}
  <2> DEFINE t == ToTenths(v)  e == EncodeField(kind, v)
  <2>1. PICK w \in 0 .. Word - 1 :
          /\ e = to_be16(w)
          /\ kind = "u16" /\ t \in 0 .. Word - 1 => w = t
          /\ kind # "u16" /\ t \in SignedWord =>
               \/ w = t % Word
               \/ w = 0 /\ kind = "i16u" /\ t < 0 /\ build # "wraps"
    BY <1>3, EncodedNumber DEF Value
  <2>2. from_be16(e) = w
    BY <2>1, Be16
  <2>3. Delivered(kind, v) = FromTenths(t)
    BY <1>3 DEF Delivered
  <2>4. /\ kind = "u16" => t \in 0 .. Word - 1
        /\ kind # "u16" => t \in SignedWord
        /\ kind = "i16u" => build = "wraps" \/ t >= 0
    BY <1>3 DEF Fits, SignedWord
  <2>5. /\ kind = "u16" => DecodeField(kind, e) = FromTenths(from_be16(e))
        /\ kind # "u16" => DecodeField(kind, e) = FromTenths(Signed(from_be16(e)))
    BY <1>3 DEF DecodeField
  <2>6. t \in Int
    BY <1>3, Tenths DEF Value
  <2> HIDE DEF t, e
  <2>7. CASE kind = "u16"
    BY <2>1, <2>2, <2>3, <2>4, <2>5, <2>7 DEF e
  <2>8. CASE kind # "u16"
    <3>1. t \in SignedWord /\ ~ (kind = "i16u" /\ t < 0 /\ build # "wraps")
      BY <2>4, <2>6, <2>8
    <3>2. w = t % Word
      BY <2>1, <2>8, <3>1
    <3>3. Signed(w) = t
      BY <3>1, <3>2, Signs
    <3>4. QED
      BY <2>2, <2>3, <2>5, <2>8, <3>3 DEF e
  <2>9. QED
    BY <2>7, <2>8
<1>4. CASE kind = "u32"
  BY <1>4, Be32 DEF EncodeField, DecodeField, Delivered, Value
<1>5. CASE kind = "unit"
  <2>1. v \in Seq(Byte) /\ Len(v) \in Nat
    BY <1>5 DEF Value
  <2>2. DecodeField(kind, EncodeField(kind, v)) = SubSeq(v, 1, UnitLength(v))
    BY <1>5, <2>1, UnitStrings DEF EncodeField, DecodeField
  <2>3. Delivered(kind, v)
          = SubSeq(v, 1, Max({n \in 0 .. UNIT_LEN :
                                n <= Len(v) /\ \A i \in 1 .. n : v[i] # 0}))
    BY <1>5 DEF Delivered
  <2>4. QED
    BY <2>1, <2>2, <2>3, LongestPrefix
<1>6. QED
  BY <1>1, <1>2, <1>3, <1>4, <1>5 DEF Kind

\* A value that decoding gives is serialised to bytes that are serialised the same
\* again after decoding, also where the field cannot carry the value.
LEMMA FieldSettles ==
  ASSUME build \in Builds, NEW kind \in Kind, NEW v \in Value(kind), DecodedValue(kind, v)
  PROVE  EncodeField(kind, DecodeField(kind, EncodeField(kind, v))) = EncodeField(kind, v)
<1>1. CASE kind = "byte"
  BY <1>1 DEF EncodeField, DecodeField
<1>2. CASE kind = "flag"
  BY <1>2 DEF EncodeField, DecodeField, Value
<1>3. CASE kind \in {"u16", "i16", "i16u"}
  <2> DEFINE t == ToTenths(v)  e == EncodeField(kind, v)
  <2>1. PICK w \in 0 .. Word - 1 :
          /\ e = to_be16(w)
          /\ kind = "u16" /\ t \in 0 .. Word - 1 => w = t
          /\ kind # "u16" /\ t \in SignedWord =>
               \/ w = t % Word
               \/ w = 0 /\ kind = "i16u" /\ t < 0 /\ build # "wraps"
    BY <1>3, EncodedNumber DEF Value
  <2>2. from_be16(e) = w /\ w \in Int
    BY <2>1, Be16, BaseWord
  \* What the receiver reads, in tenths.
  <2> DEFINE r == IF kind = "u16" THEN w ELSE Signed(w)
  <2>3. DecodeField(kind, e) = FromTenths(r)
    BY <1>3, <2>2 DEF DecodeField
  <2>4. r \in Int /\ (kind = "u16" => r = w /\ r \in 0 .. Word - 1)
        /\ (kind # "u16" => r = Signed(w) /\ r \in SignedWord /\ r % Word = w)
    BY <2>1, <2>2, Signs, BaseWord DEF SignedWord
  <2> HIDE DEF r
  <2>5. FromTenths(r) \in Int /\ ToTenths(FromTenths(r)) = r
    BY <2>4, Tenths
  <2>6. PICK x \in 0 .. Word - 1 :
          /\ EncodeField(kind, FromTenths(r)) = to_be16(x)
          /\ kind = "u16" /\ r \in 0 .. Word - 1 => x = r
          /\ kind # "u16" /\ r \in SignedWord =>
               \/ x = r % Word
               \/ x = 0 /\ kind = "i16u" /\ r < 0 /\ build # "wraps"
    BY <1>3, <2>5, EncodedNumber
  <2>7. x = w
    <3>1. CASE kind = "u16"
      BY <2>4, <2>6, <3>1
    <3>2. CASE kind # "u16" /\ ~ (r < 0 /\ kind = "i16u" /\ build # "wraps")
      BY <2>4, <2>6, <3>2
    <3>3. CASE kind = "i16u" /\ r < 0 /\ build # "wraps"
      \* Such a word is not sent by this build: the value it would stand for
      \* is negative, and saturates to zero.
      <4>1. t \in SignedWord /\ t \in Int
        BY <1>3, <3>3, Tenths DEF DecodedValue, SignedWord, Value
      <4>2. w = 0 => r = 0
        <5>1. Signed(0) = 0
          BY BaseWord DEF Signed
        <5>2. QED
          BY <2>4, <3>3, <5>1
      <4>3. w = t % Word
        BY <2>1, <3>3, <4>1, <4>2
      <4>4. r = t
        BY <2>4, <3>3, <4>1, <4>3, Signs
      <4>5. t < 0
        BY <3>3, <4>4
      <4>6. EncodeField(kind, FromTenths(r)) = to_be16(Cast(r, 0, Word - 1))
        BY <2>5, <3>3 DEF EncodeField
      <4>7. e = to_be16(Cast(t, 0, Word - 1))
        BY <3>3 DEF EncodeField
      <4>8. to_be16(x) = to_be16(w)
        BY <2>1, <2>6, <4>4, <4>6, <4>7
      <4>9. QED
        BY <4>8, Be16
    <3>4. QED
      BY <1>3, <3>1, <3>2, <3>3
  <2>8. QED
    BY <2>1, <2>3, <2>6, <2>7
<1>4. CASE kind = "u32"
  BY <1>4, Be32 DEF EncodeField, DecodeField, Value
<1>5. CASE kind = "unit"
  <2>1. v \in Seq(Byte) /\ Len(v) <= UNIT_LEN /\ \A i \in DOMAIN v : v[i] # 0
    BY <1>5 DEF Value, DecodedValue
  <2>2. ~ \E i \in 1 .. UNIT_LEN : i <= Len(v) /\ v[i] = 0
    BY <2>1
  <2>3. write_unit(read_unit(write_unit(v))) = write_unit(v)
    BY <2>1, <2>2, UnitStrings
  <2>4. QED
    BY <1>5, <2>3 DEF EncodeField, DecodeField
<1>6. QED
  BY <1>1, <1>2, <1>3, <1>4, <1>5 DEF Kind

\* Counters, enumerations and numbers whose sign is written as it is read give back
\* their bytes.
LEMMA FieldVerbatim ==
  ASSUME build \in Builds, NEW kind \in {"byte", "u16", "i16", "u32"},
         NEW b \in Seq(Byte), Len(b) = Width(kind)
  PROVE  EncodeField(kind, DecodeField(kind, b)) = b
<1>1. CASE kind = "byte"
  <2>1. b = <<b[1]>>
    BY <1>1, FewBytes DEF Width
  <2>2. EncodeField(kind, DecodeField(kind, b)) = <<b[1]>>
    BY <1>1 DEF EncodeField, DecodeField
  <2>3. QED
    BY <2>1, <2>2
<1>2. CASE kind \in {"u16", "i16"}
  <2> DEFINE w == from_be16(b)  r == IF kind = "u16" THEN w ELSE Signed(w)
  <2>1. w \in 0 .. Word - 1 /\ to_be16(w) = b /\ w \in Int
    BY <1>2, NumberBytes, BaseWord DEF Width
  <2>2. DecodeField(kind, b) = FromTenths(r)
    BY <1>2 DEF DecodeField
  <2> HIDE DEF w
  <2>3. /\ r \in Int
        /\ kind = "u16" => r = w
        /\ kind # "u16" => r \in SignedWord /\ r % Word = w
    BY <2>1, Signs, BaseWord DEF SignedWord
  <2> HIDE DEF r
  <2>4. FromTenths(r) \in Int /\ ToTenths(FromTenths(r)) = r
    BY <2>3, Tenths
  <2>5. PICK x \in 0 .. Word - 1 :
          /\ EncodeField(kind, FromTenths(r)) = to_be16(x)
          /\ kind = "u16" /\ r \in 0 .. Word - 1 => x = r
          /\ kind # "u16" /\ r \in SignedWord =>
               \/ x = r % Word
               \/ x = 0 /\ kind = "i16u" /\ r < 0 /\ build # "wraps"
    BY <1>2, <2>4, EncodedNumber
  <2>6. x = w
    BY <1>2, <2>1, <2>3, <2>5
  <2>7. QED
    BY <2>1, <2>2, <2>5, <2>6
<1>3. CASE kind = "u32"
  BY <1>3, NumberBytes DEF EncodeField, DecodeField, Width
<1>4. QED
  BY <1>1, <1>2, <1>3

(***************************************************************************)
(* Layouts.                                                                *)
(***************************************************************************)

\* The fields of a message lie within its payload, one after the other.
IsLayout(fields, size) ==
  /\ size \in Nat
  /\ \A at \in DOMAIN fields : at \in Nat /\ fields[at] \in Kind
  /\ \A at \in DOMAIN fields : at + Width(fields[at]) <= size
  /\ \A at, x \in DOMAIN fields : at < x => at + Width(fields[at]) <= x

LEMMA Widths ==
  /\ \A kind \in Kind : Width(kind) \in Nat \ {0}
  /\ Width("byte") = 1 /\ Width("flag") = 1
  /\ Width("u16") = 2 /\ Width("i16") = 2 /\ Width("i16u") = 2
  /\ Width("u32") = 4 /\ Width("unit") = 8
BY DEF Kind, Width, UNIT_LEN

LEMMA SmallLayouts ==
  /\ IsLayout(TwoTemperatures, 4)
  /\ IsLayout(SignedTemperature, 4)
  /\ IsLayout(EnumByte, 4)
  /\ IsLayout(Power, 4)
BY Widths DEF IsLayout, TwoTemperatures, SignedTemperature, EnumByte, Power, Kind

LEMMA AllConfigLayout == IsLayout(AllConfig, 61)
<1> DEFINE D == {0, 8, 12, 14, 16, 20, 28, 32, 46, 48, 50} \cup (2 .. 7) \cup {10, 11}
                  \cup (40 .. 45) \cup (52 .. 60)
           two == {0, 8, 12, 14, 46, 48, 50}
<1>1. DOMAIN AllConfig = D /\ \A at \in D : AllConfig[at] = AllConfigKind(at)
  BY DEF AllConfig, TRAILING_LEN
<1>2. \A at \in D : /\ at \in two => AllConfigKind(at) = "i16u"
                    /\ at \in {16, 28} => AllConfigKind(at) = "u32"
                    /\ at \in {20, 32} => AllConfigKind(at) = "unit"
                    /\ at \notin two \cup {16, 28, 20, 32} => AllConfigKind(at) = "byte"
  BY DEF AllConfigKind
<1>3. \A at \in D : /\ AllConfig[at] \in Kind
                    /\ at \in two => Width(AllConfig[at]) = 2
                    /\ at \in {16, 28} => Width(AllConfig[at]) = 4
                    /\ at \in {20, 32} => Width(AllConfig[at]) = 8
                    /\ at \notin two \cup {16, 28, 20, 32} => Width(AllConfig[at]) = 1
  BY <1>1, <1>2, Widths DEF Kind
<1>4. ASSUME NEW at \in D
      PROVE  /\ at \in Nat /\ AllConfig[at] \in Kind /\ at + Width(AllConfig[at]) <= 61
             /\ \A x \in D : at < x => at + Width(AllConfig[at]) <= x
  <2> DEFINE w == Width(AllConfig[at])
  <2>1. /\ at \in two => w = 2
        /\ at \in {16, 28} => w = 4
        /\ at \in {20, 32} => w = 8
        /\ at \notin two \cup {16, 28, 20, 32} => w = 1
    BY <1>3
  <2> HIDE DEF w
  <2>2. at \in Nat /\ at <= 60
    OBVIOUS
  <2>3. at + w <= 61 /\ \A x \in D : at < x => at + w <= x
    <3>1. CASE at \notin two \cup {16, 28, 20, 32}
      BY <2>1, <2>2, <3>1
    <3>2. CASE at \in two
      BY <2>1, <3>2
    <3>3. CASE at \in {16, 28}
      BY <2>1, <3>3
    <3>4. CASE at \in {20, 32}
      BY <2>1, <3>4
    <3>5. QED
      BY <3>1, <3>2, <3>3, <3>4
  <2>4. QED
    BY <1>3, <2>2, <2>3 DEF w
<1> HIDE DEF D
<1>5. QED
  BY <1>1, <1>4 DEF IsLayout

LEMMA ScheduleLayout ==
  /\ IsLayout(Schedule, 116)
  /\ \A at : at \in DOMAIN Schedule <=>
       \/ at \in 0 .. 3
       \/ at \in 4 .. 115 /\ at % 4 # 3
  /\ \A at \in DOMAIN Schedule :
       Schedule[at] = IF at >= 4 /\ at % 4 = 2 THEN "i16u" ELSE "byte"
<1>1. \A at : at \in Entry <=> at \in 4 .. 115 /\ at % 4 = 0
  <2>1. \A at : at \in Entry <=> \E n \in 0 .. 27 : at = 4 + n * 4
    BY DEF Entry, ENTRY_SIZE, DAYS, ENTRIES_PER_DAY
  <2>2. \A at \in 4 .. 115 : at % 4 = 0 => \E n \in 0 .. 27 : at = 4 + n * 4
    <3> TAKE at \in 4 .. 115
    <3>1. at = (at \div 4) * 4 + (at % 4)
      OBVIOUS
    <3>2. (at \div 4) - 1 \in 0 .. 27
      OBVIOUS
    <3>3. at % 4 = 0 => at = 4 + ((at \div 4) - 1) * 4
      BY <3>1, <3>2
    <3>4. QED
      BY <3>2, <3>3
  <2>3. QED
    BY <2>1, <2>2
<1>2. /\ DOMAIN Schedule = (0 .. 3) \cup UNION {{n, n + 1, n + 2} : n \in Entry}
      /\ \A at \in DOMAIN Schedule :
           Schedule[at] = IF at - 2 \in Entry THEN "i16u" ELSE "byte"
  BY DEF Schedule
<1>3. \A at : at \in DOMAIN Schedule <=>
        at \in 0 .. 3 \/ \E n \in Entry : at \in {n, n + 1, n + 2}
  BY <1>2
<1>4. \A at : (\E n \in Entry : at \in {n, n + 1, n + 2}) <=>
        at \in 4 .. 115 /\ at % 4 # 3
  <2>1. ASSUME NEW at, NEW n \in Entry, at \in {n, n + 1, n + 2}
        PROVE  at \in 4 .. 115 /\ at % 4 # 3
    BY <1>1, <2>1
  <2>2. ASSUME NEW at \in 4 .. 115, at % 4 # 3
        PROVE  \E n \in Entry : at \in {n, n + 1, n + 2}
    <3> DEFINE n == at - (at % 4)
    <3>1. at % 4 \in 0 .. 2
      BY <2>2
    <3>2. n \in 4 .. 115 /\ n % 4 = 0 /\ at \in {n, n + 1, n + 2}
      BY <3>1
    <3> HIDE DEF n
    <3>3. n \in Entry
      BY <1>1, <3>2
    <3>4. QED
      BY <3>2, <3>3
  <2>3. QED
    BY <2>1, <2>2
<1>5. \A at : at \in DOMAIN Schedule <=>
        at \in 0 .. 3 \/ (at \in 4 .. 115 /\ at % 4 # 3)
  BY <1>3, <1>4
<1>6. \A at \in DOMAIN Schedule : at \in 0 .. 115
  BY <1>5
<1>7. \A at \in DOMAIN Schedule : at - 2 \in Entry <=> at >= 4 /\ at % 4 = 2
  BY <1>1, <1>6
<1>8. \A at \in DOMAIN Schedule :
        Schedule[at] = IF at >= 4 /\ at % 4 = 2 THEN "i16u" ELSE "byte"
  BY <1>2, <1>7
<1>9. \A at \in DOMAIN Schedule :
        /\ Schedule[at] \in Kind
        /\ Width(Schedule[at]) = IF at >= 4 /\ at % 4 = 2 THEN 2 ELSE 1
  BY <1>8, Widths DEF Kind
<1>10. ASSUME NEW at \in DOMAIN Schedule
       PROVE  /\ at + Width(Schedule[at]) <= 116
              /\ \A x \in DOMAIN Schedule : at < x => at + Width(Schedule[at]) <= x
  <2>1. CASE at >= 4 /\ at % 4 = 2
    <3>1. Width(Schedule[at]) = 2 /\ at \in 4 .. 114
      BY <1>6, <1>9, <2>1
    <3>2. \A x \in DOMAIN Schedule : at < x => at + 2 <= x
      <4>1. (at + 1) % 4 = 3 /\ at + 1 >= 4 /\ at + 1 \in Int
        BY <2>1, <3>1
      <4>2. at + 1 \notin DOMAIN Schedule
        BY <1>5, <4>1
      <4>3. QED
        BY <1>6, <4>2, <3>1
    <3>3. QED
      BY <3>1, <3>2
  <2>2. CASE ~ (at >= 4 /\ at % 4 = 2)
    <3>1. Width(Schedule[at]) = 1 /\ at \in 0 .. 115
      BY <1>6, <1>9, <2>2
    <3>2. QED
      BY <1>6, <3>1
  <2>3. QED
    BY <2>1, <2>2
<1>11. IsLayout(Schedule, 116)
  BY <1>6, <1>9, <1>10 DEF IsLayout
<1>12. QED
  BY <1>5, <1>8, <1>11

MessageTypes ==
  {"Temperature", "TargetTemperature", "Mode", "Power", "FanSpeed", "AllConfig", "Schedule",
   "TemperatureOffset", "SwitchingDiffHeat", "SwitchingDiffCool", "ChangeoverHeat",
   "ChangeoverCool", "SystemMode", "DisplayUnit"}

LEMMA FieldsOf ==
  /\ AnyMessage = MessageTypes
  /\ \A m \in {"Temperature", "TargetTemperature"} :
       Fields[m] = TwoTemperatures /\ PAYLOAD_SIZE[m] = 4
  /\ \A m \in {"Mode", "FanSpeed", "SystemMode", "DisplayUnit"} :
       Fields[m] = EnumByte /\ PAYLOAD_SIZE[m] = 4
  /\ Fields["Power"] = Power /\ PAYLOAD_SIZE["Power"] = 4
  /\ \A m \in {"TemperatureOffset", "SwitchingDiffHeat", "SwitchingDiffCool",
                "ChangeoverHeat", "ChangeoverCool"} :
       Fields[m] = SignedTemperature /\ PAYLOAD_SIZE[m] = 4
  /\ Fields["AllConfig"] = AllConfig /\ PAYLOAD_SIZE["AllConfig"] = 61
  /\ Fields["Schedule"] = Schedule /\ PAYLOAD_SIZE["Schedule"] = 116
<1>1. AnyMessage = MessageTypes
  BY DEF AnyMessage, Fields, MessageTypes
<1>2. \A m \in {"Temperature", "TargetTemperature"} : Fields[m] = TwoTemperatures
  BY DEF Fields, Temperature, TargetTemperature
<1>3. \A m \in {"Mode", "FanSpeed", "SystemMode", "DisplayUnit"} : Fields[m] = EnumByte
  BY DEF Fields, Mode, FanSpeed, SystemMode, DisplayUnit
<1>4. Fields["Power"] = Power
  BY DEF Fields
<1>5. \A m \in {"TemperatureOffset", "SwitchingDiffHeat", "SwitchingDiffCool",
                "ChangeoverHeat", "ChangeoverCool"} : Fields[m] = SignedTemperature
  BY DEF Fields, TemperatureOffset, SwitchingDiffHeat, SwitchingDiffCool,
         ChangeoverHeat, ChangeoverCool
<1>6. Fields["AllConfig"] = AllConfig /\ Fields["Schedule"] = Schedule
  BY DEF Fields
<1>7. \A m \in MessageTypes :
        PAYLOAD_SIZE[m] = IF m = "AllConfig" THEN 61 ELSE IF m = "Schedule" THEN 116 ELSE 4
  BY <1>1 DEF PAYLOAD_SIZE, DAYS, ENTRIES_PER_DAY, ENTRY_SIZE
<1>8. QED
  BY <1>1, <1>2, <1>3, <1>4, <1>5, <1>6, <1>7 DEF MessageTypes

LEMMA Layouts == \A m \in AnyMessage : IsLayout(Fields[m], PAYLOAD_SIZE[m])
BY FieldsOf, SmallLayouts, AllConfigLayout, ScheduleLayout DEF MessageTypes

\* The bytes of a field belong to it alone.
LEMMA Owners ==
  ASSUME NEW m \in AnyMessage
  PROVE  /\ \A at \in DOMAIN Fields[m] : \A j \in 1 .. Width(Fields[m][at]) :
              /\ at + j \in 1 .. PAYLOAD_SIZE[m]
              /\ Owner[m][at + j] = {at}
         /\ \A i \in 1 .. PAYLOAD_SIZE[m] : \A at \in Owner[m][i] :
              at \in DOMAIN Fields[m] /\ i - at \in 1 .. Width(Fields[m][at])
<1> DEFINE F == Fields[m]  n == PAYLOAD_SIZE[m]
<1>1. \A i \in 1 .. n : Owner[m][i] = {at \in DOMAIN F : at < i /\ i <= at + Width(F[at])}
  BY DEF Owner
<1>2. IsLayout(F, n)
  BY Layouts
<1> HIDE DEF F, n
<1>3. \A at \in DOMAIN F : at \in Nat /\ F[at] \in Kind /\ Width(F[at]) \in Nat \ {0}
  BY <1>2, Widths DEF IsLayout
<1>4. ASSUME NEW at \in DOMAIN F, NEW j \in 1 .. Width(F[at])
      PROVE  at + j \in 1 .. n /\ Owner[m][at + j] = {at}
  <2>1. at + j \in 1 .. n
    BY <1>2, <1>3 DEF IsLayout
  <2>2. at < at + j /\ at + j <= at + Width(F[at])
    BY <1>3
  <2>3. ASSUME NEW x \in DOMAIN F, x < at + j, at + j <= x + Width(F[x])
        PROVE  x = at
    <3>1. ~ (x < at)
      <4>1. x < at => x + Width(F[x]) <= at
        BY <1>2 DEF IsLayout
      <4>2. QED
        BY <1>3, <2>3, <4>1
    <3>2. ~ (at < x)
      <4>1. at < x => at + Width(F[at]) <= x
        BY <1>2 DEF IsLayout
      <4>2. QED
        BY <1>3, <2>3, <4>1
    <3>3. QED
      BY <1>3, <3>1, <3>2
  <2>4. QED
    BY <1>1, <2>1, <2>2, <2>3
<1>5. ASSUME NEW i \in 1 .. n, NEW at \in Owner[m][i]
      PROVE  at \in DOMAIN F /\ i - at \in 1 .. Width(F[at])
  <2>1. at \in DOMAIN F /\ at < i /\ i <= at + Width(F[at])
    BY <1>1
  <2>2. at \in Nat /\ Width(F[at]) \in Nat /\ i \in Int
    BY <1>3, <2>1
  <2>3. QED
    BY <2>1, <2>2
<1>6. QED
  BY <1>4, <1>5 DEF F, n

(***************************************************************************)
(* Whole messages.                                                         *)
(***************************************************************************)

\* The bytes of a field are bytes of the payload.
LEMMA Slots ==
  ASSUME NEW m \in AnyMessage, NEW p \in Seq(Byte), Len(p) = PAYLOAD_SIZE[m],
         NEW at \in DOMAIN Fields[m]
  PROVE  LET kind == Fields[m][at]
             s == Slot(p, at, kind)
         IN  /\ kind \in Kind /\ at \in Nat
             /\ s \in Seq(Byte) /\ Len(s) = Width(kind)
             /\ \A j \in 1 .. Width(kind) : at + j \in 1 .. Len(p) /\ s[j] = p[at + j]
<1> DEFINE kind == Fields[m][at]  w == Width(kind)  s == SubSeq(p, at + 1, at + w)
<1>1. /\ at \in Nat /\ kind \in Kind /\ w \in Nat \ {0} /\ at + w <= Len(p) /\ Len(p) \in Nat
  BY Layouts, Widths DEF IsLayout
<1>2. s = Slot(p, at, kind)
  BY DEF Slot
<1> HIDE DEF kind, w
<1>3. \A i \in at + 1 .. at + w : p[i] \in Byte
  BY <1>1, ElementOfSeq
<1>4. /\ s \in Seq(Byte)
      /\ Len(s) = IF at + 1 <= at + w THEN at + w - (at + 1) + 1 ELSE 0
      /\ \A i \in 1 .. at + w - (at + 1) + 1 : s[i] = p[at + 1 + i - 1]
  BY <1>1, <1>3, SubSeqProperties
<1> HIDE DEF s
<1>5. Len(s) = w /\ \A j \in 1 .. w : at + j \in 1 .. Len(p) /\ s[j] = p[at + j]
  BY <1>1, <1>4
<1>6. QED
  BY <1>1, <1>2, <1>4, <1>5 DEF kind, w

\* What is decoded from a payload of the right size is a message, its values in the
\* range of their fields.
LEMMA Decoded ==
  ASSUME NEW m \in AnyMessage, NEW p \in Seq(Byte), Len(p) = PAYLOAD_SIZE[m]
  PROVE  /\ Decode(m, p).id = m
         /\ Decode(m, p).value = [at \in DOMAIN Fields[m] |->
                DecodeField(Fields[m][at], Slot(p, at, Fields[m][at]))]
         /\ IsMessage(Decode(m, p)) /\ InRange(Decode(m, p))
<1> DEFINE F == Fields[m]  d == Decode(m, p)
           v == [at \in DOMAIN F |-> DecodeField(F[at], Slot(p, at, F[at]))]
<1>1. d = [id |-> m, value |-> v]
  BY DEF Decode
<1>2. \A at \in DOMAIN F : /\ DecodeField(F[at], Slot(p, at, F[at])) \in Value(F[at])
                           /\ DecodedValue(F[at], DecodeField(F[at], Slot(p, at, F[at])))
  BY Slots, FieldDecoded
<1>3. \A at \in DOMAIN F : v[at] \in Value(F[at]) /\ DecodedValue(F[at], v[at])
  BY <1>2
<1>4. v = [at \in DOMAIN F |-> v[at]]
  OBVIOUS
<1> HIDE DEF v, d
<1>5. d.id = m /\ d.value = v
  BY <1>1
<1>6. IsMessage(d)
  BY <1>1, <1>3, <1>4, <1>5 DEF IsMessage
<1>7. InRange(d)
  BY <1>3, <1>5 DEF InRange
<1>8. QED
  BY <1>5, <1>6, <1>7 DEF v, d

\* The frame with the given bytes in the slots of the fields.
Filled(m, slot) ==
  [msg_id   |-> m,
   reserved |-> <<0, 0, 0>>,
   payload  |-> [i \in 1 .. PAYLOAD_SIZE[m] |->
                   IF Owner[m][i] = {} THEN 0
                   ELSE LET at == CHOOSE x \in Owner[m][i] : TRUE
                        IN  slot[at][i - at]]]

EncodedSlots(msg) ==
  [at \in DOMAIN Fields[msg.id] |-> EncodeField(Fields[msg.id][at], msg.value[at])]

LEMMA EncodeFills == \A msg : encode(msg) = Filled(msg.id, EncodedSlots(msg))
BY Zenon DEF encode, Filled, EncodedSlots

SlotsFit(m, slot) ==
  \A at \in DOMAIN Fields[m] :
    slot[at] \in Seq(Byte) /\ Len(slot[at]) = Width(Fields[m][at])

\* A frame of type m with these bytes in the slots of its fields.
HoldsSlots(frame, m, slot) ==
  /\ frame.payload \in Seq(Byte) /\ Len(frame.payload) = PAYLOAD_SIZE[m]
  /\ frame.msg_id = m
  /\ frame \in FrameOver({m} \cup Byte)
  /\ \A at \in DOMAIN Fields[m] :
       /\ Slot(frame.payload, at, Fields[m][at]) = slot[at]
       /\ \A j \in 1 .. Width(Fields[m][at]) : frame.payload[at + j] = slot[at][j]

\* The slots of a frame that was filled hold what they were filled with.
LEMMA FilledSlots ==
  ASSUME NEW m \in AnyMessage, NEW slot, SlotsFit(m, slot)
  PROVE  HoldsSlots(Filled(m, slot), m, slot)
<1> DEFINE F == Fields[m]  n == PAYLOAD_SIZE[m]  f == Filled(m, slot)
           p == [i \in 1 .. n |-> IF Owner[m][i] = {} THEN 0
                                  ELSE LET at == CHOOSE x \in Owner[m][i] : TRUE
                                       IN  slot[at][i - at]]
<1>0. \A at \in DOMAIN F : slot[at] \in Seq(Byte) /\ Len(slot[at]) = Width(F[at])
  BY DEF SlotsFit
<1>1. f = [msg_id |-> m, reserved |-> <<0, 0, 0>>, payload |-> p]
  BY Zenon DEF Filled
<1>2. n \in Nat /\ \A at \in DOMAIN F : at \in Nat /\ F[at] \in Kind /\ Width(F[at]) \in Nat
  BY Layouts, Widths DEF IsLayout
<1>3. \A i \in 1 .. n :
        /\ Owner[m][i] = {} => p[i] = 0
        /\ \A at : Owner[m][i] = {at} => p[i] = slot[at][i - at]
  <2> TAKE i \in 1 .. n
  <2> DEFINE x == CHOOSE x \in Owner[m][i] : TRUE
  <2>1. p[i] = IF Owner[m][i] = {} THEN 0 ELSE slot[x][i - x]
    OBVIOUS
  <2>2. \A at : Owner[m][i] = {at} => x = at
    OBVIOUS
  <2> HIDE DEF x, p
  <2>3. QED
    BY <2>1, <2>2
<1>4. p = [i \in 1 .. n |-> p[i]]
  OBVIOUS
<1> HIDE DEF p, f
<1>5. \A at \in DOMAIN F : \A j \in 1 .. Width(F[at]) :
        at + j \in 1 .. n /\ p[at + j] = slot[at][j]
  <2> TAKE at \in DOMAIN F
  <2> TAKE j \in 1 .. Width(F[at])
  <2>1. at + j \in 1 .. n /\ Owner[m][at + j] = {at}
    BY Owners
  <2>2. (at + j) - at = j
    BY <1>2
  <2>3. p[at + j] = slot[at][(at + j) - at]
    BY <1>3, <2>1
  <2>4. QED
    BY <2>1, <2>2, <2>3
<1>6. \A i \in 1 .. n : p[i] \in Byte
  <2> TAKE i \in 1 .. n
  <2>1. CASE Owner[m][i] = {}
    BY <1>3, <2>1, BaseWord DEF Byte
  <2>2. CASE Owner[m][i] # {}
    <3>1. PICK at \in Owner[m][i] : TRUE
      BY <2>2
    <3> DEFINE j == i - at
    <3>2. at \in DOMAIN F /\ j \in 1 .. Width(F[at])
      BY Owners
    <3>3. at + j = i
      BY <1>2, <3>2
    <3> HIDE DEF j
    <3>4. p[i] = slot[at][j]
      BY <1>5, <3>2, <3>3
    <3>5. slot[at] \in Seq(Byte) /\ j \in 1 .. Len(slot[at])
      BY <1>0, <3>2
    <3>6. QED
      BY <3>4, <3>5, ElementOfSeq
  <2>3. QED
    BY <2>1, <2>2
<1>7. p \in Seq(Byte) /\ Len(p) = n
  <2>1. p \in [1 .. n -> Byte]
    BY <1>4, <1>6
  <2>2. n \in Nat
    BY <1>2
  <2>3. QED
    BY <2>1, <2>2
<1>8. \A at \in DOMAIN F : Slot(p, at, F[at]) = slot[at]
  <2> TAKE at \in DOMAIN F
  <2> DEFINE s == Slot(p, at, F[at])  w == Width(F[at])
  <2>1. s \in Seq(Byte) /\ Len(s) = w /\ \A j \in 1 .. w : s[j] = p[at + j]
    BY <1>7, Slots
  <2>2. slot[at] \in Seq(Byte) /\ Len(slot[at]) = w
    BY <1>0
  <2>3. \A j \in 1 .. w : s[j] = slot[at][j]
    BY <1>5, <2>1
  <2> HIDE DEF s, w
  <2>4. s = slot[at]
    BY <2>1, <2>2, <2>3, SeqEqual
  <2>5. QED
    BY <2>4 DEF s
<1>9. f \in FrameOver({m} \cup Byte)
  <2>1. 0 \in {m} \cup Byte /\ m \in {m} \cup Byte
    BY BaseWord DEF Byte
  <2>2. p \in Seq({m} \cup Byte)
    BY <1>7
  <2>3. QED
    BY <1>1, <2>1, <2>2 DEF FrameOver
<1>10. f.payload = p /\ f.msg_id = m
  BY <1>1
<1>11. QED
  BY <1>5, <1>7, <1>8, <1>9, <1>10 DEF HoldsSlots, f

\* A message is serialised to a frame of its type whose slots hold the encoded values.
LEMMA Encoded ==
  ASSUME build \in Builds, NEW msg, IsMessage(msg)
  PROVE  LET m == msg.id
             p == encode(msg).payload
         IN  /\ m \in AnyMessage
             /\ p \in Seq(Byte) /\ Len(p) = PAYLOAD_SIZE[m]
             /\ encode(msg).msg_id = m
             /\ encode(msg) \in FrameOver({m} \cup Byte)
             /\ \A at \in DOMAIN Fields[m] :
                  /\ Slot(p, at, Fields[m][at]) = EncodeField(Fields[m][at], msg.value[at])
                  /\ \A j \in 1 .. Width(Fields[m][at]) :
                       p[at + j] = EncodeField(Fields[m][at], msg.value[at])[j]
<1> DEFINE m == msg.id  F == Fields[m]  slot == EncodedSlots(msg)
<1>1. m \in AnyMessage /\ \A at \in DOMAIN F : F[at] \in Kind /\ msg.value[at] \in Value(F[at])
  BY Layouts DEF IsMessage, IsLayout
<1>2. \A at \in DOMAIN F : slot[at] = EncodeField(F[at], msg.value[at])
  BY DEF EncodedSlots
<1>3. SlotsFit(m, slot)
  <2>1. \A at \in DOMAIN F : slot[at] \in Seq(Byte) /\ Len(slot[at]) = Width(F[at])
    BY <1>1, <1>2, FieldEncoded
  <2>2. QED
    BY <2>1 DEF SlotsFit
<1>4. encode(msg) = Filled(m, slot)
  BY EncodeFills
<1> HIDE DEF slot, m
<1>5. HoldsSlots(encode(msg), m, slot)
  BY <1>1, <1>3, <1>4, FilledSlots
<1>6. QED
  BY <1>1, <1>2, <1>5 DEF HoldsSlots, m

\* What has the same encoded fields is serialised to the same frame.
LEMMA EncodeEqual ==
  ASSUME NEW x, NEW y, x.id = y.id,
         \A at \in DOMAIN Fields[x.id] :
            EncodeField(Fields[x.id][at], x.value[at]) = EncodeField(Fields[x.id][at], y.value[at])
  PROVE  encode(x) = encode(y)
<1>1. EncodedSlots(x) = EncodedSlots(y)
  BY DEF EncodedSlots
<1>2. QED
  BY <1>1, EncodeFills

\* What is parsed is a message of the type that the first byte names, decoded from the
\* bytes behind the header.
LEMMA Parsed ==
  ASSUME NEW d, IsData(d), Parse(d) # <<>>
  PROVE  LET m == d[1]
             p == SubSeq(d, 5, Len(d))
         IN  /\ m \in AnyMessage /\ p \in Seq(Byte) /\ Len(p) = PAYLOAD_SIZE[m]
             /\ Parse(d) = <<Decode(m, p)>>
             /\ \A i \in 1 .. Len(p) : p[i] = d[4 + i]
<1> DEFINE m == d[1]  p == SubSeq(d, 5, Len(d))  t == Tail(d)
           f == [msg_id |-> m, reserved |-> <<d[2], d[3], d[4]>>, payload |-> p]
<1>1. d # <<>>
  BY DEF Parse, WmmmDecode, HeaderSize
<1>2. d = <<m>> \o t /\ t \in Seq(Byte)
  BY <1>1 DEF IsData
<1>3. d \in Seq({m} \cup Byte) /\ Len(d) = 1 + Len(t) /\ Len(t) \in Nat
      /\ \A i \in 2 .. Len(d) : d[i] = t[i - 1]
  <2> DEFINE B == {m} \cup Byte  h == <<m>>
  <2>1. h \in Seq(B) /\ t \in Seq(B) /\ Len(h) = 1 /\ Len(t) \in Nat
    BY <1>2
  <2> HIDE DEF h, t, B
  <2>2. /\ h \o t \in Seq(B) /\ Len(h \o t) = Len(h) + Len(t)
        /\ \A i \in 1 .. Len(h) + Len(t) :
             (h \o t)[i] = IF i <= Len(h) THEN h[i] ELSE t[i - Len(h)]
    BY <2>1, ConcatProperties
  <2>3. d = h \o t
    BY <1>2 DEF h
  <2>4. QED
    BY <2>1, <2>2, <2>3 DEF B
<1>4. WmmmDecode(d) = <<f>> /\ Len(d) >= 4
  <2>1. ~ (Len(d) < HeaderSize) /\ HeaderSize + 1 = 5
    BY <1>3 DEF Parse, WmmmDecode, HeaderSize
  <2>2. WmmmDecode(d) = <<f>>
    BY <2>1 DEF WmmmDecode
  <2>3. Len(d) \in Nat
    BY <1>3
  <2>4. QED
    BY <2>1, <2>2, <2>3 DEF HeaderSize
<1>5. Parse(d) = decode_message(f)
  BY <1>4 DEF Parse
<1>6. /\ f.msg_id = m /\ f.payload = p
  OBVIOUS
<1> HIDE DEF f, m
<1>7. m \in AnyMessage /\ Len(p) = PAYLOAD_SIZE[m] /\ Parse(d) = <<Decode(m, p)>>
  BY <1>5, <1>6 DEF decode_message
<1>8. p \in Seq(Byte) /\ \A i \in 1 .. Len(p) : p[i] = d[4 + i]
  <2>1. \A i \in 5 .. Len(d) : d[i] \in Byte
    BY <1>2, <1>3, ElementOfSeq
  <2>2. Len(d) \in Nat
    BY <1>3
  <2>3. /\ p \in Seq(Byte)
        /\ Len(p) = IF 5 <= Len(d) THEN Len(d) - 5 + 1 ELSE 0
        /\ \A i \in 1 .. Len(d) - 5 + 1 : p[i] = d[5 + i - 1]
    BY <2>1, <2>2, SubSeqProperties
  <2> HIDE DEF p
  <2>4. QED
    BY <1>4, <2>2, <2>3
<1>9. QED
  BY <1>7, <1>8 DEF m

\* Every message that is serialised comes back as what its own type decodes.
LEMMA Echoed ==
  ASSUME build \in Builds, NEW msg, IsMessage(msg)
  PROVE  /\ Parse(WmmmEncode(encode(msg))) = <<Decode(msg.id, encode(msg).payload)>>
         /\ IsData(WmmmEncode(encode(msg))) /\ WmmmEncode(encode(msg)) # <<>>
         /\ \A i \in 1 .. PAYLOAD_SIZE[msg.id] :
              WmmmEncode(encode(msg))[4 + i] = encode(msg).payload[i]
<1> DEFINE f == encode(msg)  m == msg.id  p == f.payload  d == WmmmEncode(f)
           B == {m} \cup Byte
<1>1. /\ m \in AnyMessage /\ p \in Seq(Byte) /\ Len(p) = PAYLOAD_SIZE[m]
      /\ f.msg_id = m /\ f \in FrameOver(B)
  BY Encoded
<1> HIDE DEF f, m
<1>2. WmmmDecode(d) = <<f>>
  BY <1>1, DecodeInvertsEncode
<1>3. Parse(d) = <<Decode(m, p)>>
  BY <1>1, <1>2 DEF Parse, decode_message
<1>4. f.reserved = <<0, 0, 0>> /\ 0 \in Byte
  <2>1. f.reserved = <<0, 0, 0>>
    BY EncodeFills DEF Filled, f
  <2>2. QED
    BY <2>1, BaseWord DEF Byte
<1>5. d = <<m, 0, 0, 0>> \o p
  <2>1. d = (<<m>> \o <<0, 0, 0>>) \o p
    BY <1>1, <1>4 DEF WmmmEncode
  <2>2. m \in B /\ 0 \in B
    BY <1>4
  <2> HIDE DEF B
  <2>3. <<m>> \o <<0, 0, 0>> = <<m, 0, 0, 0>>
    BY <2>2, HeaderBytes
  <2>4. QED
    BY <2>1, <2>3, Zenon
<1> DEFINE h == <<m, 0, 0, 0>>
<1>6. h \in Seq(B) /\ Len(h) = 4 /\ p \in Seq(B) /\ h[1] = m /\ h[2] = 0 /\ h[3] = 0 /\ h[4] = 0
  BY <1>1, <1>4
<1>7. d = h \o p
  BY <1>5
<1> HIDE DEF h, p, B
<1>8. /\ d \in Seq(B) /\ Len(d) = 4 + Len(p) /\ Len(p) \in Nat
      /\ \A i \in 1 .. 4 + Len(p) : d[i] = IF i <= 4 THEN h[i] ELSE p[i - 4]
  <2>1. /\ h \o p \in Seq(B) /\ Len(h \o p) = Len(h) + Len(p)
        /\ \A i \in 1 .. Len(h) + Len(p) :
             (h \o p)[i] = IF i <= Len(h) THEN h[i] ELSE p[i - Len(h)]
    BY <1>6, ConcatProperties
  <2>2. QED
    BY <1>6, <1>7, <2>1
<1> HIDE DEF d
<1>9. d # <<>>
  BY <1>8
<1>10. \A i \in 1 .. Len(p) : d[4 + i] = p[i]
  <2> TAKE i \in 1 .. Len(p)
  <2>1. 4 + i \in 1 .. 4 + Len(p) /\ ~ (4 + i <= 4) /\ (4 + i) - 4 = i
    BY <1>8
  <2>2. QED
    BY <1>8, <2>1
<1>11. d = <<d[1]>> \o Tail(d) /\ Tail(d) \in Seq(Byte)
  <2> DEFINE t == Tail(d)  g == <<d[1]>>
  <2>1. d[1] = m /\ m \in B
    BY <1>6, <1>8 DEF B
  <2>2. t \in Seq(B) /\ Len(t) = Len(d) - 1 /\ \A i \in 1 .. Len(t) : t[i] = d[i + 1]
    BY <1>8, <1>9, HeadTailProperties
  <2>3. g \in Seq(B) /\ Len(g) = 1 /\ g[1] = d[1]
    BY <2>1
  <2> HIDE DEF t, g
  <2>4. /\ g \o t \in Seq(B) /\ Len(g \o t) = 1 + Len(t)
        /\ \A i \in 1 .. 1 + Len(t) : (g \o t)[i] = IF i <= 1 THEN g[i] ELSE t[i - 1]
    <3>1. g \in Seq(B) /\ t \in Seq(B)
      BY <2>2, <2>3
    <3>2. /\ g \o t \in Seq(B) /\ Len(g \o t) = Len(g) + Len(t)
          /\ \A i \in 1 .. Len(g) + Len(t) :
               (g \o t)[i] = IF i <= Len(g) THEN g[i] ELSE t[i - Len(g)]
      BY <3>1, ConcatProperties
    <3>3. QED
      BY <2>3, <3>2
  <2>5. \A i \in 1 .. Len(d) : (g \o t)[i] = d[i]
    <3> TAKE i \in 1 .. Len(d)
    <3>1. CASE i = 1
      BY <1>8, <2>2, <2>3, <2>4, <3>1
    <3>2. CASE i > 1
      <4>1. i - 1 \in 1 .. Len(t) /\ i \in 1 .. 1 + Len(t) /\ ~ (i <= 1) /\ (i - 1) + 1 = i
        BY <1>8, <2>2, <3>2
      <4>2. QED
        BY <2>2, <2>4, <4>1
    <3>3. i = 1 \/ i > 1
      BY <1>8
    <3>4. QED
      BY <3>1, <3>2, <3>3
  <2>6. Len(g \o t) = Len(d)
    BY <1>8, <2>2, <2>4
  <2>7. g \o t = d
    BY <1>8, <2>4, <2>5, <2>6, SeqEqual
  <2>8. \A i \in 1 .. Len(t) : t[i] \in Byte
    <3> TAKE i \in 1 .. Len(t)
    <3>1. /\ i + 1 \in 1 .. 4 + Len(p) /\ t[i] = d[i + 1]
          /\ i + 1 <= 4 => i + 1 \in {2, 3, 4}
          /\ ~ (i + 1 <= 4) => (i + 1) - 4 \in 1 .. Len(p)
      BY <1>8, <2>2
    <3>2. CASE i + 1 <= 4
      BY <1>4, <1>6, <1>8, <3>1, <3>2
    <3>3. CASE ~ (i + 1 <= 4)
      <4>1. d[i + 1] = p[(i + 1) - 4]
        BY <1>8, <3>1, <3>3
      <4>2. p \in Seq(Byte)
        BY <1>1 DEF p
      <4>3. QED
        BY <3>1, <3>3, <4>1, <4>2, ElementOfSeq
    <3>4. QED
      BY <3>2, <3>3
  <2>9. t \in Seq(Byte)
    <3>1. t = [i \in 1 .. Len(t) |-> t[i]] /\ Len(t) \in Nat
      BY <2>2
    <3>2. t \in [1 .. Len(t) -> Byte]
      BY <2>8, <3>1
    <3>3. QED
      BY <3>1, <3>2
  <2>10. QED
    BY <2>7, <2>9 DEF t, g
<1>12. QED
  BY <1>1, <1>3, <1>9, <1>10, <1>11 DEF IsData, d, f, m, p

\* The receiver of a message reads what the sender meant.
LEMMA MessageEcho ==
  ASSUME build \in Builds, NEW msg, IsMessage(msg),
         \A at \in DOMAIN Fields[msg.id] : Fits(Fields[msg.id][at], msg.value[at])
  PROVE  Parse(WmmmEncode(encode(msg))) =
           <<[id |-> msg.id,
              value |-> [at \in DOMAIN Fields[msg.id] |->
                           Delivered(Fields[msg.id][at], msg.value[at])]]>>
<1> DEFINE m == msg.id  F == Fields[m]  p == encode(msg).payload
           v == [at \in DOMAIN F |-> DecodeField(F[at], Slot(p, at, F[at]))]
           x == [at \in DOMAIN F |-> Delivered(F[at], msg.value[at])]
<1>1. /\ m \in AnyMessage
      /\ \A at \in DOMAIN F : Slot(p, at, F[at]) = EncodeField(F[at], msg.value[at])
  BY Encoded
<1>2. \A at \in DOMAIN F : F[at] \in Kind /\ msg.value[at] \in Value(F[at])
  BY <1>1, Layouts DEF IsMessage, IsLayout
<1>3. \A at \in DOMAIN F :
        DecodeField(F[at], Slot(p, at, F[at])) = Delivered(F[at], msg.value[at])
  BY <1>1, <1>2, FieldEcho
<1>4. v = x
  BY <1>3
<1>5. Parse(WmmmEncode(encode(msg))) = <<Decode(m, p)>>
  BY Echoed
<1>6. Decode(m, p) = [id |-> m, value |-> v]
  BY DEF Decode
<1> HIDE DEF v, x
<1>7. Parse(WmmmEncode(encode(msg))) = <<[id |-> m, value |-> x]>>
  BY <1>4, <1>5, <1>6
<1>8. QED
  BY <1>7, Zenon DEF x

\* A message in range is serialised to bytes that come back as a message in range
\* with the same serialisation.
LEMMA MessageSettles ==
  ASSUME build \in Builds, NEW msg, IsMessage(msg), InRange(msg)
  PROVE  LET back == Decode(msg.id, encode(msg).payload)
         IN  IsMessage(back) /\ InRange(back) /\ encode(back) = encode(msg)
<1> DEFINE m == msg.id  F == Fields[m]  p == encode(msg).payload  back == Decode(m, p)
<1>1. /\ m \in AnyMessage /\ p \in Seq(Byte) /\ Len(p) = PAYLOAD_SIZE[m]
      /\ \A at \in DOMAIN F : Slot(p, at, F[at]) = EncodeField(F[at], msg.value[at])
  BY Encoded
<1>2. /\ IsMessage(back) /\ InRange(back) /\ back.id = m
      /\ back.value = [at \in DOMAIN F |-> DecodeField(F[at], Slot(p, at, F[at]))]
  BY <1>1, Decoded
<1>3. \A at \in DOMAIN F : /\ F[at] \in Kind /\ msg.value[at] \in Value(F[at])
                           /\ DecodedValue(F[at], msg.value[at])
  BY <1>1, Layouts DEF IsMessage, IsLayout, InRange
<1> HIDE DEF back
<1>4. \A at \in DOMAIN F : back.value[at] = DecodeField(F[at], EncodeField(F[at], msg.value[at]))
  BY <1>1, <1>2
<1>5. \A at \in DOMAIN F : EncodeField(F[at], back.value[at]) = EncodeField(F[at], msg.value[at])
  BY <1>3, <1>4, FieldSettles
<1>6. encode(back) = encode(msg)
  BY <1>2, <1>5, EncodeEqual
<1>7. QED
  BY <1>2, <1>6 DEF back

\* The offsets whose bytes only stand for themselves belong to fields that give them
\* back.
LEMMA CarriedFields ==
  ASSUME NEW m \in AnyMessage, NEW c \in Carried[m]
  PROVE  /\ c \in Nat
         /\ \E at \in DOMAIN Fields[m] :
              /\ at \in Nat
              /\ Fields[m][at] \in {"byte", "u16", "i16", "u32"}
              /\ (c + 1) - at \in 1 .. Width(Fields[m][at])
<1>1. CASE m \in {"Temperature", "TargetTemperature"}
  <2>1. c \in 0 .. 3
    BY <1>1 DEF Carried
  <2>2. DOMAIN Fields[m] = {0, 2} /\ Fields[m][0] = "u16" /\ Fields[m][2] = "u16"
    BY <1>1, FieldsOf DEF TwoTemperatures
  <2>3. Width(Fields[m][0]) = 2 /\ Width(Fields[m][2]) = 2
    BY <2>2, Widths
  <2>4. CASE c <= 1
    BY <2>1, <2>2, <2>3, <2>4
  <2>5. CASE c >= 2
    BY <2>1, <2>2, <2>3, <2>5
  <2>6. QED
    BY <2>1, <2>4, <2>5
<1>2. CASE m \in {"Mode", "FanSpeed", "SystemMode", "DisplayUnit"}
  <2>1. c = 0
    BY <1>2 DEF Carried
  <2>2. DOMAIN Fields[m] = {0} /\ Fields[m][0] = "byte"
    BY <1>2, FieldsOf DEF EnumByte
  <2>3. QED
    BY <2>1, <2>2, Widths
<1>3. CASE m = "Power"
  BY <1>3 DEF Carried
<1>4. CASE m \in {"TemperatureOffset", "SwitchingDiffHeat", "SwitchingDiffCool",
                  "ChangeoverHeat", "ChangeoverCool"}
  <2>1. c \in {0, 1}
    BY <1>4 DEF Carried
  <2>2. DOMAIN Fields[m] = {0} /\ Fields[m][0] = "i16"
    BY <1>4, FieldsOf DEF SignedTemperature
  <2>3. QED
    BY <2>1, <2>2, Widths
<1>5. CASE m = "AllConfig"
  <2>1. c \in (0 .. 60) \ ((20 .. 27) \cup (32 .. 39) \cup
                           {0, 1, 8, 9, 12, 13, 14, 15} \cup (46 .. 51))
    BY <1>5 DEF Carried
  <2>2. /\ DOMAIN Fields[m] = {0, 8, 12, 14, 16, 20, 28, 32, 46, 48, 50} \cup (2 .. 7)
               \cup {10, 11} \cup (40 .. 45) \cup (52 .. 60)
        /\ \A at \in DOMAIN Fields[m] : Fields[m][at] = AllConfigKind(at)
    BY <1>5, FieldsOf DEF AllConfig, TRAILING_LEN
  <2>3. CASE c \in (16 .. 19) \cup (28 .. 31)
    <3>1. PICK at \in {16, 28} : c \in at .. at + 3
      BY <2>3
    <3>2. at \in DOMAIN Fields[m] /\ AllConfigKind(at) = "u32"
      BY <2>2 DEF AllConfigKind
    <3>3. Fields[m][at] = "u32" /\ Width(Fields[m][at]) = 4
      BY <2>2, <3>2, Widths
    <3>4. c \in Nat /\ (c + 1) - at \in 1 .. 4 /\ at \in Nat
      BY <3>1
    <3>5. QED
      BY <3>2, <3>3, <3>4
  <2>4. CASE c \notin (16 .. 19) \cup (28 .. 31)
    <3>1. c \in (2 .. 7) \cup {10, 11} \cup (40 .. 45) \cup (52 .. 60)
      BY <2>1, <2>4
    <3>2. AllConfigKind(c) = "byte"
      BY <3>1 DEF AllConfigKind
    <3>3. c \in DOMAIN Fields[m]
      BY <2>2, <3>1
    <3>4. Fields[m][c] = "byte" /\ Width(Fields[m][c]) = 1
      BY <2>2, <3>2, <3>3, Widths
    <3>5. c \in Nat /\ (c + 1) - c = 1
      BY <3>1
    <3>6. QED
      BY <3>3, <3>4, <3>5
  <2>5. QED
    BY <2>3, <2>4
<1>6. CASE m = "Schedule"
  <2>1. c \in 0 .. 115 /\ (c < 4 \/ c % 4 < 2)
    BY <1>6 DEF Carried
  <2>2. c \in 0 .. 3 \/ (c \in 4 .. 115 /\ c % 4 # 3)
    BY <2>1
  <2>3. c \in DOMAIN Fields[m] /\ Fields[m][c] = "byte"
    <3>1. Fields[m] = Schedule
      BY <1>6, FieldsOf
    <3>2. c \in DOMAIN Schedule
      BY <2>2, ScheduleLayout
    <3>3. ~ (c >= 4 /\ c % 4 = 2)
      BY <2>1
    <3>4. QED
      BY <3>1, <3>2, <3>3, ScheduleLayout
  <2>4. c \in Nat /\ (c + 1) - c = 1
    BY <2>1
  <2>5. QED
    BY <2>3, <2>4, Widths
<1>7. QED
  BY <1>1, <1>2, <1>3, <1>4, <1>5, <1>6, FieldsOf DEF MessageTypes

\* Such bytes are serialised as they were decoded.
LEMMA MessageVerbatim ==
  ASSUME build \in Builds, NEW m \in AnyMessage, NEW p \in Seq(Byte),
         Len(p) = PAYLOAD_SIZE[m], NEW c \in Carried[m]
  PROVE  /\ c + 1 \in 1 .. PAYLOAD_SIZE[m]
         /\ encode(Decode(m, p)).payload[c + 1] = p[c + 1]
<1> DEFINE F == Fields[m]  d == Decode(m, p)  q == encode(d).payload
<1>1. c \in Nat
  BY CarriedFields
<1>2. PICK at \in DOMAIN F :
        /\ at \in Nat
        /\ F[at] \in {"byte", "u16", "i16", "u32"}
        /\ (c + 1) - at \in 1 .. Width(F[at])
  BY CarriedFields
<1> DEFINE s == Slot(p, at, F[at])  j == (c + 1) - at
<1>3. /\ IsMessage(d) /\ d.id = m
      /\ d.value = [y \in DOMAIN F |-> DecodeField(F[y], Slot(p, y, F[y]))]
  BY Decoded
<1>4. d.value[at] = DecodeField(F[at], s)
  BY <1>3
<1> HIDE DEF d
<1>5. /\ s \in Seq(Byte) /\ Len(s) = Width(F[at])
      /\ \A i \in 1 .. Width(F[at]) : at + i \in 1 .. Len(p) /\ s[i] = p[at + i]
  BY Slots
<1>6. \A i \in 1 .. Width(F[at]) : q[at + i] = EncodeField(F[at], d.value[at])[i]
  BY <1>3, Encoded
<1> HIDE DEF s, q
<1>7. EncodeField(F[at], DecodeField(F[at], s)) = s
  BY <1>2, <1>5, FieldVerbatim
<1>8. j \in 1 .. Width(F[at]) /\ at + j = c + 1
  BY <1>1, <1>2
<1> HIDE DEF j
<1>9. /\ q[at + j] = s[j] /\ s[j] = p[at + j] /\ at + j \in 1 .. Len(p)
  BY <1>4, <1>5, <1>6, <1>7, <1>8
<1>10. QED
  BY <1>8, <1>9 DEF q, d

(***************************************************************************)
(* The client.                                                             *)
(***************************************************************************)

\* Serialisation depends on the build and the message only.
LEMMA CastStable ==
  ASSUME build' = build
  PROVE  \A t, low, high : Cast(t, low, high)' = Cast(t, low, high)
BY DEF Cast

LEMMA EncodeFieldStable ==
  ASSUME build' = build
  PROVE  \A kind, v : EncodeField(kind, v)' = EncodeField(kind, v)
BY CastStable DEF EncodeField

LEMMA EncodeStable ==
  ASSUME build' = build
  PROVE  \A msg : encode(msg)' = encode(msg)
<1> TAKE msg
<1>1. EncodedSlots(msg)' = EncodedSlots(msg)
  BY EncodeFieldStable DEF EncodedSlots
<1>2. encode(msg)' = Filled(msg.id, EncodedSlots(msg)')
  BY Zenon DEF encode, Filled, EncodedSlots
<1>3. QED
  BY <1>1, <1>2, EncodeFills

\* The invariant holds before anything has arrived.
LEMMA InitIInv == Init => IInv
BY DEF Init, IInv, TypeOK

\* What arrives decodes to values in range.
LEMMA ReceiveIInv ==
  ASSUME IInv, NEW bytes \in Received, Receive(bytes)
  PROVE  IInv'
<1>1. /\ data' = bytes /\ message' = Parse(bytes) /\ phase' = "holding"
      /\ build' = build /\ sends' = 0
  BY DEF Receive, IInv
<1>2. IsData(bytes)
  BY ReceivedAssumption
<1>3. ASSUME Parse(bytes) # <<>>
      PROVE  /\ message' = <<message'[1]>>
             /\ IsMessage(message'[1]) /\ InRange(message'[1])
  <2> DEFINE m == bytes[1]  p == SubSeq(bytes, 5, Len(bytes))
  <2>1. m \in AnyMessage /\ p \in Seq(Byte) /\ Len(p) = PAYLOAD_SIZE[m]
        /\ message' = <<Decode(m, p)>>
    BY <1>1, <1>2, <1>3, Parsed
  <2> HIDE DEF m, p
  <2>2. IsMessage(Decode(m, p)) /\ InRange(Decode(m, p))
    BY <2>1, Decoded
  <2>3. QED
    BY <2>1, <2>2
<1>4. TypeOK'
  BY <1>1, <1>3 DEF TypeOK, IInv
<1>5. QED
  BY <1>1, <1>2, <1>3, <1>4 DEF IInv

\* A composed message has values of the right kinds, in range or not.
LEMMA ComposeIInv ==
  ASSUME IInv, NEW msg \in Composed, Compose(msg)
  PROVE  IInv'
<1>1. /\ data' = <<>> /\ message' = <<msg>> /\ phase' = "holding"
      /\ build' = build /\ sends' = 0
  BY DEF Compose, IInv
<1>2. IsMessage(msg)
  BY ComposedAssumption
<1>3. message' # <<>> /\ message'[1] = msg
  BY <1>1
<1>4. TypeOK'
  BY <1>1, <1>2, <1>3 DEF TypeOK, IInv
<1>5. QED
  BY <1>1, <1>4 DEF IInv

\* What is sent is the message held; one that was decoded has its values in range.
LEMMA SendIInv ==
  ASSUME IInv, Send
  PROVE  IInv'
<1>1. /\ phase = "holding" /\ message # <<>> /\ sends < 2
      /\ data' = WmmmEncode(encode(message[1]))
      /\ sends' = (IF data = <<>> THEN sends ELSE sends + 1)
      /\ phase' = "sent" /\ build' = build /\ message' = message
  BY DEF Send
<1>2. encode(message[1])' = encode(message[1])
  BY <1>1, EncodeStable
<1>3. TypeOK'
  BY <1>1 DEF IInv, TypeOK
<1>4. data' = WmmmEncode(encode(message[1])')
  BY <1>1, <1>2
<1>5. sends' > 0 => InRange(message'[1])
  BY <1>1 DEF IInv, TypeOK
<1>6. QED
  BY <1>1, <1>3, <1>4, <1>5 DEF IInv

\* What comes back is in range, and is serialised to the same bytes if the message
\* had been decoded before.
LEMMA EchoIInv ==
  ASSUME IInv, Echo
  PROVE  IInv'
<1> DEFINE msg == message[1]  back == Decode(msg.id, encode(msg).payload)
<1>1. /\ phase = "sent" /\ message' = Parse(data) /\ phase' = "holding"
      /\ build' = build /\ data' = data /\ sends' = sends
  BY DEF Echo
<1>2. /\ build \in Builds /\ message # <<>> /\ IsMessage(msg)
      /\ data = WmmmEncode(encode(msg))
      /\ sends > 0 => InRange(msg)
  BY <1>1 DEF IInv, TypeOK, Builds
<1> HIDE DEF msg
<1>3. /\ Parse(data) = <<back>> /\ IsData(data) /\ data # <<>>
  BY <1>2, Echoed
<1>4. IsMessage(back) /\ InRange(back)
  <2>1. /\ msg.id \in AnyMessage /\ encode(msg).payload \in Seq(Byte)
        /\ Len(encode(msg).payload) = PAYLOAD_SIZE[msg.id]
    BY <1>2, Encoded
  <2>2. QED
    BY <2>1, Decoded
<1>5. sends > 0 => encode(back) = encode(msg)
  BY <1>2, MessageSettles
<1> HIDE DEF back
<1>6. message' # <<>> /\ message'[1] = back /\ message' = <<message'[1]>>
  BY <1>1, <1>3
<1>7. encode(message[1])' = encode(back)
  BY <1>1, <1>6, EncodeStable
<1>8. TypeOK'
  BY <1>1, <1>4, <1>6 DEF TypeOK, IInv
<1>9. sends' > 0 => WmmmEncode(encode(message[1])') = data'
  BY <1>1, <1>2, <1>5, <1>7
<1>10. QED
  BY <1>1, <1>3, <1>4, <1>6, <1>8, <1>9 DEF IInv

LEMMA DropIInv ==
  ASSUME IInv, Drop
  PROVE  IInv'
BY DEF Drop, IInv, TypeOK

LEMMA StutterIInv ==
  ASSUME IInv, UNCHANGED vars
  PROVE  IInv'
<1>1. /\ build' = build /\ phase' = phase /\ data' = data /\ message' = message
      /\ sends' = sends
  BY DEF vars
<1>2. encode(message[1])' = encode(message[1])
  BY <1>1, EncodeStable
<1>3. QED
  BY <1>1, <1>2 DEF IInv, TypeOK

LEMMA NextIInv == IInv /\ [Next]_vars => IInv'
BY ReceiveIInv, ComposeIInv, SendIInv, EchoIInv, DropIInv, StutterIInv DEF Next

\* Types, ranges and the bytes a client's message was read from or written to, for
\* every number of byte values and of steps to a tenth, every input and every build.
THEOREM IInvariance == Spec => []IInv
<1>1. Init => IInv
  BY InitIInv
<1>2. IInv /\ [Next]_vars => IInv'
  BY NextIInv
<1>3. QED
  BY <1>1, <1>2, PTL DEF Spec

\* The receiver reads what the sender meant: no field is misplaced, overlaps another
\* or has its bytes swapped, in any message a client can compose.
THEOREM EchoesExactly == Spec => []EchoExact
<1>1. IInv => EchoExact
  <2> SUFFICES ASSUME IInv, phase = "sent",
                      \A at \in DOMAIN Fields[message[1].id] :
                         Fits(Fields[message[1].id][at], message[1].value[at])
               PROVE  Parse(data) =
                        <<[id |-> message[1].id,
                           value |-> [at \in DOMAIN Fields[message[1].id] |->
                              Delivered(Fields[message[1].id][at], message[1].value[at])]]>>
    BY Zenon DEF EchoExact
  <2>1. /\ build \in Builds /\ IsMessage(message[1])
        /\ data = WmmmEncode(encode(message[1]))
    BY DEF IInv, TypeOK, Builds
  <2>2. QED
    BY <2>1, MessageEcho
<1>2. QED
  BY <1>1, IInvariance, PTL

\* A message that has been decoded changes at most the first time it is passed on,
\* also where a temperature does not survive the cast.
THEOREM MessagesSettle == Spec => Settles
<1>1. IInv /\ [Next]_vars => [Send /\ sends > 0 => data' = data]_vars
  BY DEF IInv, Send
<1>2. QED
  BY <1>1, IInvariance, PTL DEF Spec, Settles

\* Bytes the library does not interpret survive decoding and encoding, whatever they
\* are, in messages of every type.
THEOREM BytesCarriedVerbatim == Spec => CarriedVerbatim
<1>1. ASSUME IInv, Send, data # <<>>, NEW c \in Carried[message[1].id]
      PROVE  data'[HeaderSize + 1 + c] = data[HeaderSize + 1 + c]
  <2> DEFINE m == data[1]  p == SubSeq(data, 5, Len(data))  msg == message[1]
  <2>1. /\ build \in Builds /\ IsData(data) /\ message = Parse(data) /\ message # <<>>
        /\ data' = WmmmEncode(encode(msg)) /\ IsMessage(msg)
    BY <1>1 DEF IInv, TypeOK, Send, Builds
  <2>2. /\ m \in AnyMessage /\ p \in Seq(Byte) /\ Len(p) = PAYLOAD_SIZE[m]
        /\ message = <<Decode(m, p)>>
        /\ \A i \in 1 .. Len(p) : p[i] = data[4 + i]
    BY <2>1, Parsed
  <2> HIDE DEF m, p
  <2>3. msg = Decode(m, p) /\ msg.id = m
    <3>1. msg = Decode(m, p)
      BY <2>2
    <3>2. QED
      BY <2>2, <3>1, Decoded
  <2>4. c + 1 \in 1 .. PAYLOAD_SIZE[m] /\ encode(msg).payload[c + 1] = p[c + 1]
    BY <1>1, <2>1, <2>2, <2>3, MessageVerbatim
  <2>5. data'[4 + (c + 1)] = encode(msg).payload[c + 1]
    BY <2>1, <2>3, <2>4, Echoed
  <2>6. data[4 + (c + 1)] = p[c + 1]
    BY <2>2, <2>4
  <2>7. c \in Nat
    BY <1>1, <2>2, <2>3, CarriedFields
  <2>8. HeaderSize + 1 + c = 4 + (c + 1)
    BY <2>7 DEF HeaderSize
  <2>9. QED
    BY <2>4, <2>5, <2>6, <2>8
<1>2. IInv /\ [Next]_vars =>
        [Send /\ data # <<>> =>
           \A at \in Carried[message[1].id] :
              data'[HeaderSize + 1 + at] = data[HeaderSize + 1 + at]]_vars
  BY <1>1
<1>3. QED
  BY <1>2, IInvariance, PTL DEF Spec, CarriedVerbatim
=============================================================================
