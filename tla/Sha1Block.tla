----------------------------- MODULE Sha1Block -----------------------------
(***************************************************************************)
(* What sha1_nextBlock makes of the hash and a block: the 80 rounds on     *)
(* words of 32 bits.  A word is its bits, the highest first.               *)
(***************************************************************************)
EXTENDS Integers, Sequences

Powers == <<32768, 16384, 8192, 4096, 2048, 1024, 512, 256, 128, 64, 32, 16, 8, 4, 2, 1>>

\* The word of two halves: 16 bits of each, as uint32_t drops the others.
Word(high, low) ==
  [i \in 1..32 |-> ((IF i <= 16 THEN high ELSE low) \div Powers[1 + ((i - 1) % 16)]) % 2]

\* The byte behind the first b bits, and two of them.
ByteAt(w, b) ==
  128 * w[b + 1] + 64 * w[b + 2] + 32 * w[b + 3] + 16 * w[b + 4]
    + 8 * w[b + 5] + 4 * w[b + 6] + 2 * w[b + 7] + w[b + 8]
HalfAt(w, b) == 256 * ByteAt(w, b) + ByteAt(w, b + 8)

Plus(v, w) ==
  LET low == HalfAt(v, 16) + HalfAt(w, 16)
  IN  Word(HalfAt(v, 0) + HalfAt(w, 0) + (low \div 65536), low)

Rotl(w, n) == [i \in 1..32 |-> w[1 + ((i - 1 + n) % 32)]]
XorWord(v, w) == [i \in 1..32 |-> (v[i] + w[i]) % 2]
AndWord(v, w) == [i \in 1..32 |-> v[i] * w[i]]
Inverted(w) == [i \in 1..32 |-> 1 - w[i]]

Ch(x, y, z) == XorWord(AndWord(x, y), AndWord(Inverted(x), z))
\* Mutant of Maj: without the third pair.
MajTwo(x, y, z) == XorWord(AndWord(x, y), AndWord(x, z))
Maj(x, y, z) == XorWord(XorWord(AndWord(x, y), AndWord(x, z)), AndWord(y, z))
Parity(x, y, z) == XorWord(XorWord(x, y), z)

Mix(fi, x, y, z) ==
  CASE fi = 1 -> Ch(x, y, z) [] fi = 3 -> Maj(x, y, z) [] fi \in {2, 4} -> Parity(x, y, z)
Constants ==
  <<Word(\h5a82, \h7999), Word(\h6ed9, \heba1), Word(\h8f1b, \hbcdc), Word(\hca62, \hc1d6)>>

\* Round s of 0..79, on the 16 words that are replaced one by one.
Round(p, s) ==
  LET At(n) == 1 + ((s + n) % 16)
      fi    == 1 + (s \div 20)
      w     == IF s < 16 THEN p.w
               ELSE [p.w EXCEPT ![At(0)] =
                       Rotl(XorWord(XorWord(p.w[At(13)], p.w[At(8)]), XorWord(p.w[At(2)], @)), 1)]
      temp  == Plus(Rotl(p.a[1], 5),
                 Plus(Mix(fi, p.a[2], p.a[3], p.a[4]),
                   Plus(p.a[5], Plus(Constants[fi], w[At(0)]))))
  IN  [a |-> <<temp, p.a[1], Rotl(p.a[2], 30), p.a[3], p.a[4]>>, w |-> w]

\* The set and r = r make TLC evaluate a round before the next one.
Rounds(h, w) ==
  LET after[t \in 0..80] ==
        IF t = 0 THEN [a |-> h, w |-> w]
        ELSE CHOOSE r \in {Round(p, t - 1) : p \in {after[t - 1]}} : r = r
  IN  after[80].a

Compress(h, block) ==
  LET w == [t \in 1..16 |-> Word(256 * block[4 * t - 3] + block[4 * t - 2],
                                 256 * block[4 * t - 1] + block[4 * t])]
      a == Rounds(h, w)
  IN  [i \in 1..5 |-> Plus(h[i], a[i])]
=============================================================================
