--------------------------- MODULE WsFrameProofs ---------------------------
(***************************************************************************)
(* The parser's answers for frames of every length, cut anywhere, and the  *)
(* frames made for lines of every length.                                  *)
(***************************************************************************)
EXTENDS WsFrame, TLAPS

USE DEF TEXT, CLOSE, Opcodes

\* What the constants are.
LEMMA BoundTypes ==
  /\ BUF_LEN \in Nat /\ BUF_LEN >= 10
  /\ \A n \in 1..BUF_LEN : n \in Nat /\ n >= 1
  /\ \A n \in RecvSizes : n \in 1..BUF_LEN
  /\ \A h \in Inside : h \in Headers
  /\ \A length \in DataLengths : length \in Nat
  /\ \A place \in Places : place \in Nat
<1>1. BUF_LEN \in Nat /\ BUF_LEN >= 10
  BY BufferAssumption
<1>2. \A n \in 1..BUF_LEN : n \in Nat /\ n >= 1
  BY <1>1
<1>. QED  BY <1>1, <1>2, BoundsAssumption

\* Swapping bytes yields a number.
LEMMA SwappedType ==
  ASSUME NEW n \in Nat
  PROVE  Swapped(n) \in Nat
<1>1. n % 256 \in Nat /\ n \div 256 \in Nat
  OBVIOUS
<1>. QED  BY <1>1 DEF Swapped

\* The frames of the constants, and what the parser sees of their headers.
LEMMA FrameType ==
  ASSUME NEW f \in ClientFrames
  PROVE  /\ f.fin \in BOOLEAN /\ f.rsv \in BOOLEAN /\ f.opcode \in 0..15 /\ f.length \in Nat
         /\ f.opcode \in {CLOSE, 9, 10} => f.length <= 125
         /\ Header(f) \in Headers
         /\ Header(f).fin = f.fin /\ Header(f).rsv = f.rsv /\ Header(f).opcode = f.opcode
         /\ Header(f).masked /\ ~Header(f).high /\ Header(f).code = Code(f.length)
<1>1. /\ f.fin \in BOOLEAN /\ f.rsv \in BOOLEAN /\ f.opcode \in 0..15 /\ f.length \in Nat
      /\ f.opcode \in {CLOSE, 9, 10} => f.length <= 125
  BY FramesAssumption
<1>2. Code(f.length) \in 0..127
  BY <1>1 DEF Code
<1>3. Misread(f.length) \in Nat
  BY <1>1, SwappedType, BoundTypes DEF Misread
<1>4. Header(f) \in Headers
  BY <1>1, <1>2, <1>3 DEF Header, Headers
<1>. QED  BY <1>1, <1>4 DEF Header

\* Every answer is one of the outcomes.
LEMMA AnswerType ==
  ASSUME NEW place \in Nat, NEW h \in Headers, NEW n \in Nat, NEW f
  PROVE  /\ Answer(place, h, n, f) \in Outcomes
         /\ Answer(place, h, n, f) = "text" => n >= 2 /\ LineIsPayload(place, h, n,
                IF h.code <= 125 THEN h.code ELSE h.field, f)
<1>1. Type(place, h, n, f) \in Outcomes \cup {"incomplete"}
  BY DEF Type, ParsePayload, Outcomes
<1>2. Type(place, h, n, f) = "text" => n >= 2 /\ LineIsPayload(place, h, n,
                IF h.code <= 125 THEN h.code ELSE h.field, f)
  BY DEF Type, ParsePayload
<1>. QED  BY <1>1, <1>2 DEF Answer, Outcomes

\* The answer to a recv() that begins with a frame's header.
LEMMA AnswerFromHeader ==
  ASSUME NEW f \in ClientFrames, NEW n \in 1..BUF_LEN
  PROVE  Answer(0, Header(f), n, f) \in Parse(Kind(f), Shape(0, n, f))
<1> DEFINE h == Header(f)
           type == Type(0, h, n, f)
           shape == Shape(0, n, f)
<1>1. n \in Nat /\ n >= 1 /\ BUF_LEN \in Nat /\ f.length \in Nat
  BY FrameType, BoundTypes
<1>2. /\ h \in Headers /\ h.fin = f.fin /\ h.rsv = f.rsv /\ h.opcode = f.opcode
      /\ h.masked /\ ~h.high /\ h.code = Code(f.length)
  BY FrameType
<1>3. shape = IF n < Size(f) THEN "cut" ELSE IF n = Size(f) THEN "whole" ELSE "more"
  BY DEF Shape
<1>4. Answer(0, h, n, f) = IF type # "incomplete" THEN type
                           ELSE IF n = BUF_LEN THEN "error" ELSE "skip"
  BY DEF Answer
<1> HIDE DEF h, shape
<1>5. CASE Kind(f) = "bad"
  <2>1. f.rsv \/ ~f.fin \/ f.opcode \notin Opcodes
    BY <1>5 DEF Kind
  <2>2. type = IF n < 2 THEN "incomplete" ELSE "error"
    BY <2>1, <1>2 DEF Type
  <2>3. n < 2 => shape = "cut"
    BY <1>1, <1>3 DEF Size, Extra, Code
  <2>. QED  BY <1>4, <1>5, <2>2, <2>3, <1>3 DEF Parse, h, shape
<1>6. CASE Kind(f) = "long"
  <2>1. f.length > 125 /\ f.opcode # CLOSE
    BY <1>6, FrameType DEF Kind
  <2>2. h.code \in {126, 127}
    BY <2>1, <1>1, <1>2 DEF Code
  <2>3. Answer(0, h, n, f) \in Outcomes /\ Answer(0, h, n, f) # "text"
    <3>1. Extra(h.code) # 0
      BY <2>2 DEF Extra
    <3>2. ~LineIsPayload(0, h, n, IF h.code <= 125 THEN h.code ELSE h.field, f)
      BY <3>1 DEF LineIsPayload
    <3>. QED  BY <1>1, <1>2, <3>2, AnswerType
  <2>4. Answer(0, h, n, f) # "close"
    BY <1>2, <1>4, <2>1 DEF Type, ParsePayload
  <2>5. shape # "mid"
    BY <1>3
  <2>. QED  BY <1>6, <2>3, <2>4, <2>5 DEF Outcomes, Parse, h, shape
<1>7. CASE Kind(f) \notin {"bad", "long"}
  <2>1. /\ f.fin /\ ~f.rsv /\ f.opcode \in Opcodes /\ f.length <= 125
        /\ Kind(f) = IF f.opcode = CLOSE THEN "close" ELSE IF f.opcode # TEXT THEN "other"
                     ELSE IF f.length = 0 THEN "empty" ELSE "text"
    BY <1>1, <1>7 DEF Kind
  <2>2. h.code = f.length /\ Extra(h.code) = 0 /\ Size(f) = 6 + f.length
    BY <1>1, <1>2, <2>1 DEF Code, Extra, Size
  <2>3. type = IF n < 2 THEN "incomplete" ELSE ParsePayload(0, h, n, f)
    BY <1>2, <2>1 DEF Type
  <2>4. ParsePayload(0, h, n, f) =
          IF f.length > 0 /\ (n - 6 - f.length > 0 \/ n < 6) THEN "incomplete"
          ELSE IF f.length > 0 /\ n - 6 - f.length # 0 THEN "abort"
          ELSE IF f.opcode = CLOSE THEN "close"
          ELSE IF f.opcode # TEXT THEN "skip"
          ELSE IF LineIsPayload(0, h, n, f.length, f) THEN "text" ELSE "garbage"
    BY <1>1, <1>2, <2>1, <2>2 DEF ParsePayload, Surplus
  <2>5. LineIsPayload(0, h, n, f.length, f) <=> (IF n > 6 THEN n - 6 ELSE 0) = f.length
    BY <2>2 DEF LineIsPayload
  <2>6. CASE f.length = 0
    <3>1. shape = IF n < 6 THEN "cut" ELSE IF n = 6 THEN "whole" ELSE "more"
      BY <1>3, <2>2, <2>6, <1>1
    <3>2. Answer(0, h, n, f) = IF n < 2 THEN (IF n = BUF_LEN THEN "error" ELSE "skip")
             ELSE IF f.opcode = CLOSE THEN "close"
             ELSE IF f.opcode # TEXT THEN "skip"
             ELSE IF n <= 6 THEN "text" ELSE "garbage"
      BY <1>1, <1>4, <2>3, <2>4, <2>5, <2>6
    <3>3. n < 2 => n # BUF_LEN /\ shape = "cut"
      BY <3>1, <1>1, BoundTypes
    <3>4. CASE n < 2
      <4>1. Answer(0, h, n, f) = "skip" /\ shape = "cut"
        BY <3>2, <3>3, <3>4
      <4>. QED  BY <2>1, <2>6, <4>1 DEF Parse, h, shape
    <3>5. CASE n >= 2 /\ f.opcode = CLOSE
      <4>1. Answer(0, h, n, f) = "close" /\ Kind(f) = "close"
        BY <1>1, <2>1, <3>2, <3>5
      <4>. QED  BY <3>1, <4>1 DEF Parse, h, shape
    <3>6. CASE n >= 2 /\ f.opcode \notin {CLOSE, TEXT}
      <4>1. Answer(0, h, n, f) = "skip" /\ Kind(f) = "other"
        BY <1>1, <2>1, <3>2, <3>6
      <4>. QED  BY <3>1, <4>1 DEF Parse, h, shape
    <3>7. CASE n >= 2 /\ f.opcode = TEXT
      <4>1. Answer(0, h, n, f) = (IF n <= 6 THEN "text" ELSE "garbage") /\ Kind(f) = "empty"
        BY <1>1, <2>1, <2>6, <3>2, <3>7
      <4>2. n > 6 => shape = "more"
        BY <1>1, <3>1
      <4>. QED  BY <3>1, <4>1, <4>2 DEF Parse, h, shape
    <3>. QED  BY <1>1, <3>4, <3>5, <3>6, <3>7
  <2>7. CASE f.length > 0
    <3>1. shape = IF n < 6 + f.length THEN "cut" ELSE IF n = 6 + f.length THEN "whole" ELSE "more"
      BY <1>3, <2>2
    <3>2. CASE shape = "whole"
      <4>1. n = 6 + f.length
        BY <3>1, <3>2
      <4>2. type = IF f.opcode = CLOSE THEN "close" ELSE IF f.opcode # TEXT THEN "skip" ELSE "text"
        BY <1>1, <2>3, <2>4, <2>5, <2>7, <4>1
      <4>. QED  BY <1>4, <2>1, <2>7, <3>2, <4>2 DEF Parse, h, shape
    <3>3. CASE shape = "more"
      <4>1. n > 6 + f.length
        BY <1>1, <3>1, <3>3
      <4>2. type = "incomplete"
        BY <1>1, <2>3, <2>4, <2>7, <4>1
      <4>. QED  BY <1>4, <2>1, <2>7, <3>3, <4>2 DEF Parse, h, shape
    <3>4. CASE shape = "cut"
      <4>1. n < 6 + f.length
        BY <3>1, <3>4
      <4>2. type = IF n < 6 THEN "incomplete" ELSE "abort"
        BY <1>1, <2>3, <2>4, <2>7, <4>1
      <4>3. n < 6 => n # BUF_LEN
        BY BoundTypes, <1>1
      <4>. QED  BY <1>4, <2>1, <2>7, <3>4, <4>2, <4>3 DEF Parse, h, shape
    <3>. QED  BY <3>1, <3>2, <3>3, <3>4
  <2>. QED  BY <1>1, <2>6, <2>7
<1>. QED  BY <1>5, <1>6, <1>7

\* The answer to any recv().
LEMMA AnswerSound ==
  ASSUME NEW f \in ClientFrames, NEW n \in 1..BUF_LEN, NEW place \in Nat,
         NEW h \in IF place = 0 THEN {Header(f)} ELSE Inside
  PROVE  Answer(place, h, n, f) \in Parse(Kind(f), Shape(place, n, f))
<1>1. CASE place = 0
  BY <1>1, AnswerFromHeader
<1>2. CASE place > 0
  <2>1. h \in Headers /\ n \in Nat
    BY <1>2, BoundTypes
  <2>2. Answer(place, h, n, f) \in Outcomes /\ Answer(place, h, n, f) # "text"
    BY <1>2, <2>1, AnswerType DEF LineIsPayload
  <2>3. Shape(place, n, f) = "mid"
    BY <1>2 DEF Shape
  <2>. QED  BY <2>2, <2>3 DEF Parse, Outcomes
<1>. QED  BY <1>1, <1>2
-----------------------------------------------------------------------------
FrameInv == TypeOK /\ ParseSound /\ LineReadable

\* A browser reads the length of every line short enough for the buffer.
LEMMA MadeReadable ==
  ASSUME NEW length \in Nat
  PROVE  BrowserReads(MakeFrame(length)) = length
  BY DEF BrowserReads, MakeFrame, Code

\* The codec's types and answers are kept by every recv() and every line.
THEOREM Inductive == Spec => []FrameInv
<1>1. Init => FrameInv
  <2> SUFFICES ASSUME Init PROVE FrameInv
    OBVIOUS
  <2>1. TypeOK
    <3>1. frame.length \in Nat
      BY FrameType DEF Init
    <3>2. 0 \in 0..(Size(frame) - 1)
      BY <3>1 DEF Size, Extra, Code
    <3>. QED  BY <3>2 DEF Init, TypeOK, Nothing, Kinds, Shapes, Outcomes
  <2>2. ParseSound
    BY DEF Init, ParseSound, Nothing, Parse
  <2>3. LineReadable
    BY MadeReadable DEF Init, LineReadable
  <2>. QED  BY <2>1, <2>2, <2>3 DEF FrameInv
<1>2. FrameInv /\ [Next]_vars => FrameInv'
  <2> SUFFICES ASSUME FrameInv, [Next]_vars PROVE FrameInv'
    OBVIOUS
  <2>1. ASSUME NEW n \in RecvSizes, Recv(n) PROVE FrameInv'
    <3>1. /\ n \in 1..BUF_LEN /\ frame \in ClientFrames /\ off \in Nat
          /\ Size(frame) \in Nat
      <4>1. frame.length \in Nat
        BY FrameType DEF FrameInv, TypeOK
      <4>. QED  BY <4>1, BoundTypes DEF FrameInv, TypeOK, Size, Extra, Code
    <3>2. PICK h \in IF off = 0 THEN {Header(frame)} ELSE Inside :
            last' = [kind |-> Kind(frame), shape |-> Shape(off, n, frame),
                     outcome |-> Answer(off, h, n, frame)]
      BY <2>1 DEF Recv
    <3>3. ParseSound'
      BY <3>1, <3>2, AnswerSound DEF ParseSound
    <3>4. last' \in [kind : Kinds, shape : Shapes, outcome : Outcomes]
      <4>1. h \in Headers
        BY <3>1, <3>2, FrameType, BoundTypes
      <4>2. Answer(off, h, n, frame) \in Outcomes
        BY <3>1, <4>1, AnswerType
      <4>3. Kind(frame) \in Kinds /\ Shape(off, n, frame) \in Shapes
        BY DEF Kind, Kinds, Shape, Shapes
      <4>. QED  BY <3>2, <4>2, <4>3
    <3>5. frame' \in ClientFrames /\ off' \in 0..(Size(frame') - 1)
      <4>1. CASE off + n < Size(frame) /\ off' = off + n /\ UNCHANGED frame
        BY <3>1, <4>1
      <4>2. CASE frame' \in ClientFrames /\ off' \in Places /\ off' < Size(frame')
        <5>1. Size(frame') \in Nat /\ off' \in Nat
          BY <4>2, FrameType, BoundTypes DEF Size, Extra, Code
        <5>. QED  BY <3>1, <4>2, <5>1
      <4>. QED  BY <2>1, <4>1, <4>2 DEF Recv, Advance
    <3>. QED
      BY <2>1, <3>3, <3>4, <3>5 DEF Recv, FrameInv, TypeOK, LineReadable
  <2>2. ASSUME NEW length \in DataLengths, SendLine(length) PROVE FrameInv'
    <3>1. length \in Nat
      BY BoundTypes
    <3>2. LineReadable'
      BY <2>2, <3>1, MadeReadable DEF SendLine, LineReadable
    <3>. QED  BY <2>2, <3>2 DEF SendLine, FrameInv, TypeOK, ParseSound
  <2>3. CASE UNCHANGED vars
    BY <2>3 DEF vars, FrameInv, TypeOK, ParseSound, LineReadable
  <2>. QED  BY <2>1, <2>2, <2>3 DEF Next
<1>. QED  BY <1>1, <1>2, PTL DEF Spec

\* The place in the client's stream stays inside a frame.
THEOREM TypeCorrect == Spec => []TypeOK
  BY Inductive, PTL DEF FrameInv

\* Wherever recv() cuts the client's stream, whatever the frames' lengths and
\* whatever the buffer's, the parser answers as Frames says.
THEOREM CodecSound == Spec => []ParseSound
  BY Inductive, PTL DEF FrameInv

\* Every frame the session makes announces the length of its line.
THEOREM FramesAreReadable == Spec => []LineReadable
  BY Inductive, PTL DEF FrameInv
=============================================================================
