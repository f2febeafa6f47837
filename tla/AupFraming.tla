----------------------------- MODULE AupFraming -----------------------------
(***************************************************************************)
(* What AUP framing promises, with no parser in sight.                     *)
(*                                                                         *)
(* The receiver remembers the bytes it has matched so far.  Every new byte *)
(* either completes a frame, which is handed over byte for byte, or leaves *)
(* the longest suffix of what was matched that may still become a frame.   *)
(* Nothing a frame could begin in is ever thrown away, and nothing is kept *)
(* that cannot become a frame.                                             *)
(***************************************************************************)
EXTENDS AupFrame

VARIABLES
  span,   \* the bytes matched so far
  got     \* <<bytes of the frame the last byte completed>>, or <<>>

vars == <<span, got>>

\* The payload length that the header at the front of s declares.
Declared(s) == FromBytes(s[7], s[8])

StartsLikeFrame(s) ==
  /\ Len(s) >= 1 => s[1] = AUP_MAGIC1
  /\ Len(s) >= 2 => s[2] = AUP_MAGIC2

\* s is a proper prefix of some frame.
Viable(s) ==
  /\ StartsLikeFrame(s)
  /\ Len(s) >= HeaderSize => Len(s) < HeaderSize + Declared(s)

\* s is exactly one frame.
IsFrame(s) ==
  /\ StartsLikeFrame(s)
  /\ Len(s) >= HeaderSize
  /\ Len(s) = HeaderSize + Declared(s)

SuffixFrom(s, k) == SubSeq(s, k, Len(s))

\* The first position from which the rest of s may still become a frame.
FirstViable(s) ==
  CHOOSE k \in 1 .. Len(s) + 1 :
    /\ Viable(SuffixFrom(s, k))
    /\ \A j \in 1 .. k - 1 : ~ Viable(SuffixFrom(s, j))

LongestViable(s) == SuffixFrom(s, FirstViable(s))

Init == span = <<>> /\ got = <<>>

Feed(b) ==
  LET t == Append(span, b) IN
    \/ /\ IsFrame(t)
       /\ got' = <<t>>
       /\ span' = <<>>
    \/ /\ ~ IsFrame(t)
       /\ got' = <<>>
       /\ span' = LongestViable(t)

Next == \E b \in Byte : Feed(b)

Spec == Init /\ [][Next]_vars
=============================================================================
