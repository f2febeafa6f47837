--------------------------- MODULE MCMessageCodec ---------------------------
(* Inputs for MessageCodec.                                                *)
EXTENDS MessageCodec

\* Two adjacent bytes of any value on a background of zeros or ones: every byte
\* of every field, and every pair across the border of two fields.
Window(n, background) ==
  {[i \in 1 .. n |-> CASE i = p -> a [] i = p + 1 -> b [] OTHER -> background] :
     p \in 1 .. n - 1, a, b \in Byte}

Flat(n) == [i \in 1 .. n |-> 1]

Data(m, background, payload) ==
  <<m, background, background, background>> \o payload

\* Payloads of the right size, payloads a byte too short or too long, an unknown
\* id, and data that are no WMMM message.
MCReceived ==
  UNION {{Data(m, bg, p) : p \in Window(PAYLOAD_SIZE[m], bg)} :
           m \in AnyMessage, bg \in {0, 1}}
  \cup {Data(m, 0, Flat(PAYLOAD_SIZE[m] + d)) : m \in AnyMessage, d \in {-1, 1}}
  \cup {Data("Unknown", 0, Flat(4)), <<"Mode", 0, 0>>, <<>>}

Zero(kind) ==
  CASE kind = "flag" -> FALSE
    [] kind = "unit" -> <<>>
    [] OTHER -> 0

\* Temperatures at the limits of the kinds and between tenths, strings that do
\* not fit and one with a NUL inside.
Sample(kind) ==
  CASE kind = "byte" -> {Base - 1}
    [] kind = "flag" -> {TRUE}
    [] kind = "u32"  -> {Word * Word - 1}
    [] kind = "unit" -> {<<1, 0, 2>>, Flat(UNIT_LEN), Flat(UNIT_LEN + 1)}
    [] OTHER -> {- Fine * (Word \div 2), -3, -1, 3, Fine * (Word \div 2) - 1,
                 Fine * Word}

MCComposed ==
  UNION {UNION {{[id |-> m,
                  value |-> [at \in DOMAIN Fields[m] |->
                               IF at = x THEN v ELSE Zero(Fields[m][at])]] :
                   v \in Sample(Fields[m][x])} : x \in DOMAIN Fields[m]} :
           m \in AnyMessage}
=============================================================================
