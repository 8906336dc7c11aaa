------------------------------ MODULE WsFrame ------------------------------
(***************************************************************************)
(* The WebSocket frame codec at the level of bytes: wsMakeFrame, and       *)
(* wsParseInputFrame on what a recv() returned, wherever in the client's   *)
(* stream that recv() began and ended.                                     *)
(*                                                                         *)
(* Data abstraction.  A byte of the client's stream is its place in the    *)
(* frame it belongs to; of its value only the header's fields are kept.    *)
(* The stream never ends: `frame' is the frame the next byte belongs to    *)
(* and `off' that byte's place in it.                                      *)
(***************************************************************************)
EXTENDS Integers, Frames

CONSTANTS
  ClientFrames,  \* the frames a client may send
  Inside,        \* headers that a recv() from the middle of a frame may show
  RecvSizes,     \* bound: how many bytes a recv() may return
  Places,        \* bound: how far into a later frame it may end
  DataLengths,   \* lengths of the lines the session sends
  BUF_LEN        \* bytes the buffer holds

TEXT  == 1
CLOSE == 8
Opcodes == {1, 2, 8, 9, 10}  \* the opcodes of wsFrameType

\* What the parser reads of a frame: the bits of its first two bytes, the
\* number in its extended length field as a little-endian machine reads it,
\* and whether byte 3 has its high bit set.
Headers == [fin : BOOLEAN, rsv : BOOLEAN, masked : BOOLEAN, opcode : 0..15,
            code : 0..127, field : Nat, high : BOOLEAN]

\* A client's frame is masked; a control frame has at most 125 bytes.
ASSUME FramesAssumption ==
  /\ ClientFrames \subseteq
       [fin : BOOLEAN, rsv : BOOLEAN, opcode : 0..15, length : Nat]
  /\ \A f \in ClientFrames : f.opcode \in {CLOSE, 9, 10} => f.length <= 125
ASSUME BufferAssumption == BUF_LEN \in Nat /\ BUF_LEN >= 10 /\ BUF_LEN <= 65535
ASSUME BoundsAssumption ==
  /\ \A h \in Inside : h \in Headers
  /\ \A n \in RecvSizes : n \in 1..BUF_LEN
  /\ \A place \in Places : place \in Nat
  /\ \A length \in DataLengths : length \in Nat /\ length <= 65535
-----------------------------------------------------------------------------
(* The client's side of the protocol (RFC 6455). *)

Code(length)  == IF length <= 125 THEN length ELSE IF length <= 65535 THEN 126 ELSE 127
Extra(code)   == IF code = 126 THEN 2 ELSE IF code = 127 THEN 8 ELSE 0
Size(f)       == 6 + Extra(Code(f.length)) + f.length

\* The two bytes of a 16-bit number in the other order.
Swapped(n) == (n % 256) * 256 + n \div 256

\* Eight bytes in the other order are a number far beyond any buffer.
Misread(length) == IF length <= 65535 THEN Swapped(length) ELSE BUF_LEN + 1

Header(f) ==
  [fin |-> f.fin, rsv |-> f.rsv, masked |-> TRUE, opcode |-> f.opcode,
   code |-> Code(f.length), field |-> Misread(f.length), high |-> FALSE]

Kind(f) ==
  IF f.rsv \/ ~f.fin \/ f.opcode \notin Opcodes THEN "bad"
  ELSE IF f.length > 125 THEN "long"
  ELSE IF f.opcode = CLOSE THEN "close"
  ELSE IF f.opcode # TEXT THEN "other"
  ELSE IF f.length = 0 THEN "empty" ELSE "text"
-----------------------------------------------------------------------------
(* getPayloadLength and wsParseInputFrame on the first n bytes from off.   *)

\* Mutant of Surplus: the masking key is not counted.
SurplusKeyless(h, n, p) == n - 2 - Extra(h.code) - p

\* Bytes beyond the payload that the header announces.
Surplus(h, n, p) == n - 6 - Extra(h.code) - p

\* The line is what lies behind the sixth byte; it is the frame's payload if
\* it is all of it, and unmasked.
LineIsPayload(off, h, n, p, f) ==
  LET got == IF n > 6 THEN n - 6 ELSE 0
  IN  off = 0 /\ Extra(h.code) = 0 /\ got = f.length /\ p = f.length

\* The unsigned difference is huge while the header and key are not all there.
ParsePayload(off, h, n, f) ==
  LET p == IF h.code <= 125 THEN h.code ELSE h.field
      surplus == Surplus(h, n, p)
  IN  IF (h.code = 126 /\ n < 4) \/ (h.code = 127 /\ n < 10) THEN "incomplete"
      ELSE IF h.code = 127 /\ h.high THEN "error"
      ELSE IF p > 0 /\ (surplus > 0 \/ n < 6 + Extra(h.code)) THEN "incomplete"
      ELSE IF p > 0 /\ surplus # 0 THEN "abort"
      ELSE IF h.opcode = CLOSE THEN "close"
      ELSE IF h.opcode # TEXT THEN "skip"
      ELSE IF LineIsPayload(off, h, n, p, f) THEN "text" ELSE "garbage"

Type(off, h, n, f) ==
  IF n < 2 THEN "incomplete"
  ELSE IF h.rsv \/ ~h.fin \/ ~h.masked \/ h.opcode \notin Opcodes THEN "error"
  ELSE ParsePayload(off, h, n, f)

\* What SOCKET_FromClient_Event does with it.
Answer(off, h, n, f) ==
  LET type == Type(off, h, n, f)
  IN  IF type # "incomplete" THEN type ELSE IF n = BUF_LEN THEN "error" ELSE "skip"

Shape(off, n, f) ==
  IF off > 0 THEN "mid"
  ELSE IF n < Size(f) THEN "cut" ELSE IF n = Size(f) THEN "whole" ELSE "more"
-----------------------------------------------------------------------------
(* wsMakeFrame and the browser that reads its frame. *)

\* Mutant of MakeFrame: the length field is written in the machine's order.
MakeFrameHostOrder(length) ==
  [code |-> Code(length), field |-> IF length <= 125 THEN 0 ELSE Swapped(length)]

\* A line is shorter than BUF_LEN, so the 64-bit field is never made.  field is
\* the number that the protocol's byte order gives the extended field.
MakeFrame(length) ==
  [code |-> Code(length), field |-> IF length <= 125 THEN 0 ELSE length]

BrowserReads(h) == IF h.code <= 125 THEN h.code ELSE h.field
-----------------------------------------------------------------------------
VARIABLES
  frame, off,  \* where in the client's stream the next recv() begins
  last,        \* what the last recv() returned and what became of it
  made         \* the length of the line last sent, and the frame's header

vars == <<frame, off, last, made>>

Nothing == [kind |-> "text", shape |-> "whole", outcome |-> "text"]

TypeOK ==
  /\ frame \in ClientFrames /\ off \in 0..(Size(frame) - 1)
  /\ last \in [kind : Kinds, shape : Shapes, outcome : Outcomes]
  /\ made.length \in DataLengths \cup {0}

Init ==
  /\ frame \in ClientFrames /\ off = 0
  /\ last = Nothing
  /\ made = [length |-> 0, header |-> MakeFrame(0)]

\* The recv() ends in this frame, or somewhere in a later one.
Advance(n) ==
  \/ off + n < Size(frame) /\ off' = off + n /\ UNCHANGED frame
  \/ /\ off + n >= Size(frame)
     /\ frame' \in ClientFrames /\ off' \in Places
     /\ off' <= off + n - Size(frame) /\ off' < Size(frame')

Recv(n) ==
  /\ last.outcome # "abort"
  /\ Advance(n)
  /\ \E h \in IF off = 0 THEN {Header(frame)} ELSE Inside :
       last' = [kind |-> Kind(frame), shape |-> Shape(off, n, frame),
                outcome |-> Answer(off, h, n, frame)]
  /\ UNCHANGED made

SendLine(length) ==
  /\ last.outcome # "abort"
  /\ made' = [length |-> length, header |-> MakeFrame(length)]
  /\ UNCHANGED <<frame, off, last>>

Next == \/ \E n \in RecvSizes : Recv(n)
        \/ \E length \in DataLengths : SendLine(length)

Spec == Init /\ [][Next]_vars
-----------------------------------------------------------------------------
\* Wherever recv() cuts the stream, the parser does what Session allows it to:
\* in particular a line is a frame's payload only if the recv() held the whole
\* of a short text frame, or the beginning of an empty one, and nothing else.
ParseSound == last.outcome \in Parse(last.kind, last.shape)

\* A browser reads from the header of every frame the length of its line.
LineReadable == BrowserReads(made.header) = made.length

\* What the repository says of wsParseInputFrame and it does not do: the
\* extracted data of a text frame that came whole is the frame's payload.
LongDelivered ==
  (\A f \in ClientFrames : f.opcode = TEXT) /\ last.kind = "long" /\ last.shape = "whole"
    => last.outcome = "text"
=============================================================================
