----------------------------- MODULE BlockHash -----------------------------
(***************************************************************************)
(* How sha1.c cuts a message into blocks and ends it, and how the standard *)
(* says that it is padded.  Neither depends on what Compress does.         *)
(*                                                                         *)
(* Messages are sequences of bytes, shorter than 8192: of the 64-bit       *)
(* length only two bytes can then be other than 0.                         *)
(***************************************************************************)
EXTENDS Sha1Block

Start ==
  [h |-> <<Word(\h6745, \h2301), Word(\hefcd, \hab89), Word(\h98ba, \hdcfe),
           Word(\h1032, \h5476), Word(\hc3d2, \he1f0)>>,
   length |-> 0]

NextBlock(state, block) ==
  [h |-> Compress(state.h, block), length |-> state.length + 512]

\* The first n blocks of a message.
After(msg, n) ==
  LET state[k \in 0..n] ==
        IF k = 0 THEN Start ELSE NextBlock(state[k - 1], SubSeq(msg, 64 * k - 63, 64 * k))
  IN  state[n]

\* Mutant of Crowded: a rest of exactly 448 bits.
CrowdedLate(length) == length > 512 - 64

\* Not enough space for the length.
Crowded(length) == length > 512 - 64 - 1

\* The rest of the message, shorter than a block: the final one bit, zeros,
\* and the length.
LocalBlock(rest) ==
  [i \in 1..64 |-> IF i <= Len(rest) THEN rest[i] ELSE IF i = Len(rest) + 1 THEN 128 ELSE 0]
Sized(block, total) == [block EXCEPT ![63] = total \div 256, ![64] = total % 256]
Zeros == [i \in 1..64 |-> 0]

LastBlock(state, rest) ==
  LET length == 8 * Len(rest)
      total  == state.length + length
  IN  IF Crowded(length)
        THEN NextBlock(NextBlock(state, LocalBlock(rest)), Sized(Zeros, total))
        ELSE NextBlock(state, Sized(LocalBlock(rest), total))

\* sha1_ctx2hash: four bytes of each word.
Hash(h) == [i \in 1..20 |-> ByteAt(h[(i + 3) \div 4], 8 * ((i - 1) % 4))]

Sha1(msg) ==
  LET blocks == Len(msg) \div 64
  IN  Hash(LastBlock(After(msg, blocks), SubSeq(msg, 64 * blocks + 1, Len(msg))).h)
-----------------------------------------------------------------------------
\* FIPS 180: a one bit, zeros up to 448 bits modulo 512, the length; the digest
\* is what all blocks of that make of the hash.
Padded(msg) ==
  LET zeros == (119 - (Len(msg) % 64)) % 64
  IN  msg \o <<128>> \o [i \in 1..(zeros + 6) |-> 0]
        \o <<(8 * Len(msg)) \div 256, (8 * Len(msg)) % 256>>

Digest(msg) ==
  LET padded == Padded(msg)
  IN  Hash(After(padded, Len(padded) \div 64).h)
=============================================================================
