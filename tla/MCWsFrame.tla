---------------------------- MODULE MCWsFrame ----------------------------
(* Values of WsFrame's constants for TLC.                                *)
EXTENDS WsFrame

Plain(opcode, length) == [fin |-> TRUE, rsv |-> FALSE, opcode |-> opcode, length |-> length]

\* Every opcode, the shortest and longest short frames, and long ones: the
\* first and one that is its own byte swap, of less than a byte when misread,
\* and one with a 64-bit length.
AllFrames ==
  {Plain(TEXT, n) : n \in {0, 1, 125, 126, 256, 257, 65536}}
    \cup {Plain(8, 0), Plain(8, 2), Plain(9, 0), Plain(2, 2), Plain(2, 126), Plain(10, 1)}
    \cup {Plain(0, 1), [Plain(TEXT, 1) EXCEPT !.fin = FALSE], [Plain(TEXT, 1) EXCEPT !.rsv = TRUE]}
LongFrames == {Plain(TEXT, n) : n \in {126, 257}}

\* Bytes from a payload may look like any header.
AnyHeader ==
  [fin : {TRUE}, rsv : {FALSE}, masked : {TRUE}, opcode : {1, 8},
   code : {0, 1, 126, 127}, field : {3}, high : BOOLEAN]

\* One byte to a header with its key, two frames, the sizes at which long
\* frames end, and a full buffer.
Sizes       == 1..12 \cup 130..134 \cup {262, 264, 265, 266, 300}
Starts      == {0, 1, 3}
LongSizes   == {1, 134, 265}
LineLengths == {0, 1, 124, 125, 126, 127, 255, 256, 257, 2055, 65534, 65535}

\* What the parser sees does not say how far into a frame it begins; a line is
\* sent in one state for each place of the stream.
Near == off <= 24 /\ made.length = 0
=============================================================================
