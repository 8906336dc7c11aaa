------------------------------- MODULE Base64 -------------------------------
(***************************************************************************)
(* base64_enc.c, and how the standard says that a text is decoded.         *)
(***************************************************************************)
EXTENDS Integers, Sequences

Bit6toAscii(a) ==
  CASE a <= 25 -> a + 65 [] a \in 26..51 -> a - 26 + 97 [] a \in 52..61 -> a - 52 + 48
    [] a = 62 -> 43 [] a = 63 -> 47

\* The six bits of character j of the four that three bytes are.
SixBits(x, y, z, j) ==
  CASE j = 0 -> x \div 4
    [] j = 1 -> (x * 16 + y \div 16) % 64
    [] j = 2 -> (y * 4 + z \div 64) % 64
    [] j = 3 -> z % 64

\* '=' (61) stands for what the last group lacks, and zero bits for a part of it.
Char(src, g, j) ==
  LET At(i) == IF i <= Len(src) THEN src[i] ELSE 0
  IN  IF j > 1 /\ 3 * g + j > Len(src) THEN 61
      ELSE Bit6toAscii(SixBits(At(3 * g + 1), At(3 * g + 2), At(3 * g + 3), j))

Base64enc(src) ==
  [k \in 1..(4 * ((Len(src) + 2) \div 3)) |-> Char(src, (k - 1) \div 4, (k - 1) % 4)]
-----------------------------------------------------------------------------
\* RFC 4648: the alphabet stands for the numbers of six bits,
Six(c) ==
  CASE c \in 65..90 -> c - 65 [] c \in 97..122 -> c - 71 [] c \in 48..57 -> c + 4
    [] c = 43 -> 62 [] c = 47 -> 63 [] c = 61 -> 0

\* four of them for the 24 bits of three bytes, and an '=' takes a byte away.
Bits(text, g) ==
  ((Six(text[4 * g + 1]) * 64 + Six(text[4 * g + 2])) * 64
     + Six(text[4 * g + 3])) * 64 + Six(text[4 * g + 4])
Pads(text) ==
  IF text[Len(text) - 1] = 61 THEN 2 ELSE IF text[Len(text)] = 61 THEN 1 ELSE 0

Decoded(text) ==
  [i \in 1..(3 * (Len(text) \div 4) - Pads(text)) |->
     LET b == Bits(text, (i - 1) \div 3)
     IN  CASE i % 3 = 1 -> b \div 65536 [] i % 3 = 2 -> (b \div 256) % 256
           [] i % 3 = 0 -> b % 256]
=============================================================================
