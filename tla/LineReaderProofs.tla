------------------------- MODULE LineReaderProofs -------------------------
(***************************************************************************)
(* The line reader keeps its buffers consistent and implements LineRelay,  *)
(* for every size of the buffers and of the lines that fit them.           *)
(***************************************************************************)
EXTENDS LineReader, TLAPS

\* No line the application wrote, ended or not, is longer than MaxLine.
LinesFit ==
  \A from \in 1..Len(log), to \in 1..Len(log) :
    from <= to /\ (\A i \in from..to : ~log[i]) => to - from + 1 < MaxLine

\* The buffer hands out the next characters of the stream.
BufferRight ==
  STDOUT_cnt > 0 =>
    /\ STDOUT_ptr > 0 /\ STDOUT_ptr + STDOUT_cnt - 1 = Len(STDOUT_buf)
    /\ \A i \in 1..STDOUT_cnt : STDOUT_buf[STDOUT_ptr + i - 1] = Taken + i

\* The line is the characters last taken, without a newline before its end.
LineRight ==
  /\ Len(line) <= Taken
  /\ \A i \in 1..Len(line) : line[i] = Taken - Len(line) + i
  /\ \A i \in 1..Len(line) : log[line[i]] => i = Len(line) /\ pc = "send"
  /\ pc = "send" => Len(line) > 0

IInv == TypeOK /\ LinesFit /\ BufferRight /\ LineRight /\ NothingHeld

\* What a read() returns.
LEMMA ReadSize ==
  ASSUME NEW a \in Nat \ {0}, NEW b \in Nat \ {0}
  PROVE  Min({a, b}) \in Nat \ {0} /\ Min({a, b}) <= a /\ Min({a, b}) <= b
<1>1. \E x \in {a, b} : \A y \in {a, b} : x <= y
  OBVIOUS
<1>2. Min({a, b}) \in {a, b} /\ \A y \in {a, b} : Min({a, b}) <= y
  BY <1>1 DEF Min
<1>. QED  BY <1>2

\* Appending to a sequence keeps its type and its entries.
LEMMA AppendType ==
  ASSUME NEW S, NEW q \in Seq(S), NEW e \in S
  PROVE  /\ Append(q, e) \in Seq(S) /\ Len(Append(q, e)) = Len(q) + 1
         /\ \A i \in 1..Len(q) : Append(q, e)[i] = q[i]
         /\ Append(q, e)[Len(q) + 1] = e
         /\ Len(q) \in Nat /\ DOMAIN q = 1..Len(q)
  OBVIOUS

\* The numbers of a state that has its type.
LEMMA Numbers ==
  ASSUME TypeOK
  PROVE  /\ BUFFSIZE \in Nat \ {0} /\ Prefix \in Nat /\ MaxLine \in Nat \ {0}
         /\ Prefix + MaxLine < BUFFSIZE
         /\ Len(log) \in Nat /\ received \in Nat /\ received <= Len(log)
         /\ STDOUT_cnt \in Int /\ STDOUT_cnt >= -1 /\ STDOUT_cnt <= BUFFSIZE
         /\ STDOUT_ptr \in Nat /\ Len(line) \in Nat /\ Len(STDOUT_buf) \in Nat
         /\ Buffered \in Nat /\ Taken \in Int
<1>1. BUFFSIZE \in Nat \ {0} /\ Prefix \in Nat /\ MaxLine \in Nat \ {0} /\ Prefix + MaxLine < BUFFSIZE
  BY BufferAssumption
<1>2. Len(log) \in Nat /\ Len(line) \in Nat /\ Len(STDOUT_buf) \in Nat
  BY DEF TypeOK
<1>. QED  BY <1>1, <1>2 DEF TypeOK, Buffered, Taken

\* Storing the next character of the stream makes the line one longer.
LEMMA StoreKeeps ==
  ASSUME IInv, pc = "get", Store(Taken + 1), Taken' = Taken + 1,
         Taken \in Nat, Taken < Len(log), UNCHANGED log
  PROVE  LineRight' /\ line' \in Seq(Nat) /\ pc' \in {"get", "send"}
<1>1. /\ line \in Seq(Nat) /\ Len(line) \in Nat /\ Taken + 1 \in Nat
      /\ log \in Seq(BOOLEAN)
  BY DEF IInv, TypeOK
<1>2. line' = Append(line, Taken + 1) /\ pc' = IF log[Taken + 1] THEN "send" ELSE "get"
  BY DEF Store
<1>3. /\ line' \in Seq(Nat) /\ Len(line') = Len(line) + 1
      /\ \A i \in 1..Len(line) : line'[i] = line[i]
      /\ line'[Len(line) + 1] = Taken + 1
  BY <1>1, <1>2, AppendType
<1>4. /\ Len(line) <= Taken
      /\ \A i \in 1..Len(line) : line[i] = Taken - Len(line) + i /\ ~log[line[i]]
  BY DEF IInv, LineRight
<1>5. Len(line') <= Taken' /\ \A i \in 1..Len(line') : line'[i] = Taken' - Len(line') + i
  <2>1. Taken' - Len(line') = Taken - Len(line) /\ Len(line') <= Taken'
    BY <1>1, <1>3, <1>4
  <2>2. ASSUME NEW i \in 1..Len(line') PROVE line'[i] = Taken' - Len(line') + i
    <3>1. CASE i = Len(line) + 1
      BY <1>1, <1>3, <2>1, <3>1
    <3>2. CASE i \in 1..Len(line)
      BY <1>1, <1>3, <1>4, <2>1, <3>2
    <3>. QED  BY <1>1, <1>3, <3>1, <3>2
  <2>. QED  BY <2>1, <2>2
<1>6. \A i \in 1..Len(line') : log[line'[i]] => i = Len(line') /\ pc' = "send"
  BY <1>1, <1>2, <1>3, <1>4
<1>. QED  BY <1>1, <1>2, <1>3, <1>5, <1>6 DEF LineRight

\* Every step keeps the invariant.
LEMMA Keeps ==
  ASSUME IInv, [Next]_vars
  PROVE  IInv'
<1>0. /\ BUFFSIZE \in Nat \ {0} /\ Len(log) \in Nat /\ received \in Nat /\ received <= Len(log)
      /\ STDOUT_cnt \in Int /\ STDOUT_cnt >= -1 /\ STDOUT_cnt <= BUFFSIZE
      /\ STDOUT_ptr \in Nat /\ Len(line) \in Nat /\ Len(STDOUT_buf) \in Nat
      /\ MaxLine \in Nat \ {0} /\ log \in Seq(BOOLEAN) /\ TypeOK
  BY Numbers DEF IInv, TypeOK
<1>1. ASSUME NEW newline \in BOOLEAN, Write(newline) PROVE IInv'
  <2>1. /\ log' = Append(log, newline) /\ UNCHANGED <<open, reader>>
        /\ newline \/ Room
    BY <1>1 DEF Write
  <2>2. /\ log' \in Seq(BOOLEAN) /\ Len(log') = Len(log) + 1
        /\ \A i \in 1..Len(log) : log'[i] = log[i]
        /\ log'[Len(log) + 1] = newline
    BY <1>0, <2>1, AppendType
  <2>3. TypeOK'
    BY <1>0, <2>1, <2>2 DEF TypeOK, reader
  <2>4. LinesFit'
    <3> SUFFICES ASSUME NEW from \in 1..(Len(log) + 1), NEW to \in 1..(Len(log) + 1),
                        from <= to, \A i \in from..to : ~log'[i]
                 PROVE  to - from + 1 < MaxLine
      BY <2>2 DEF LinesFit
    <3>1. CASE to <= Len(log)
      <4>1. \A i \in from..to : ~log[i]
        BY <1>0, <2>2, <3>1
      <4>. QED  BY <1>0, <3>1, <4>1 DEF IInv, LinesFit
    <3>2. CASE to = Len(log) + 1
      <4>1. ~newline
        BY <1>0, <2>2, <3>2
      <4>2. PICK i \in (Len(log) + 2 - MaxLine)..Len(log) : i > 0 => log[i]
        BY <2>1, <4>1 DEF Room
      <4>3. i < from
        BY <1>0, <2>2, <3>2, <4>2
      <4>. QED  BY <1>0, <3>2, <4>2, <4>3
    <3>. QED  BY <1>0, <3>1, <3>2
  <2>5. Taken' = Taken /\ Buffered' = Buffered /\ Taken \in Int
    BY <1>0, <2>1 DEF reader, Taken, Buffered
  <2>6. Taken <= Len(log)
    BY <1>0 DEF Taken, Buffered
  <2>7. LineRight'
    BY <1>0, <2>1, <2>2, <2>5, <2>6 DEF IInv, LineRight, reader
  <2>8. BufferRight' /\ NothingHeld'
    BY <2>1, <2>5 DEF IInv, BufferRight, NothingHeld, reader
  <2>. QED  BY <2>3, <2>4, <2>7, <2>8 DEF IInv
<1>2. CASE Close
  BY <1>2 DEF Close, reader, IInv, TypeOK, LinesFit, BufferRight, LineRight, NothingHeld,
     Taken, Buffered
<1>3. CASE Invoke
  <2>1. Buffered = 0 /\ Taken = received
    BY <1>0, <1>3 DEF Invoke, IInv, NothingHeld, Taken
  <2>2. /\ line' = << >> /\ pc' = "get"
        /\ UNCHANGED <<log, open, received, STDOUT_cnt, STDOUT_ptr, STDOUT_buf, frames>>
    BY <1>3 DEF Invoke
  <2>. QED
    BY <1>0, <2>1, <2>2 DEF IInv, TypeOK, LinesFit, BufferRight, LineRight, NothingHeld,
       Taken, Buffered
<1>4. CASE Refill
  <2> DEFINE n == Min({BUFFSIZE, InPipe})
  <2>1. InPipe \in Nat \ {0} /\ n \in Nat \ {0} /\ n <= BUFFSIZE /\ n <= Len(log) - received
    BY <1>0, <1>4, ReadSize DEF Refill, InPipe
  <2>2. /\ STDOUT_buf' = [i \in 1..n |-> received + i] /\ STDOUT_ptr' = 2
        /\ STDOUT_cnt' = n - 1 /\ received' = received + n
        /\ Store(received + 1) /\ pc = "get" /\ STDOUT_cnt <= 0
        /\ UNCHANGED <<log, open, frames>>
    BY <1>4 DEF Refill
  <2> HIDE DEF n
  <2>3. Taken = received /\ Taken' = received + 1
    BY <1>0, <2>1, <2>2 DEF Taken, Buffered
  <2>4. LineRight' /\ line' \in Seq(Nat) /\ pc' \in {"get", "send"}
    BY <1>0, <2>1, <2>2, <2>3, StoreKeeps
  <2>5. STDOUT_buf' \in Seq(Nat) /\ Len(STDOUT_buf') = n
    BY <1>0, <2>1, <2>2
  <2>6. BufferRight'
    BY <1>0, <2>1, <2>2, <2>3, <2>5 DEF BufferRight
  <2>7. TypeOK'
    BY <1>0, <2>1, <2>2, <2>4, <2>5 DEF TypeOK
  <2>8. LinesFit' /\ NothingHeld'
    BY <2>2, <2>4 DEF IInv, LinesFit, NothingHeld
  <2>. QED  BY <2>4, <2>6, <2>7, <2>8 DEF IInv
<1>5. CASE NextCharacter
  <2>1. /\ pc = "get" /\ STDOUT_cnt > 0
        /\ STDOUT_cnt' = STDOUT_cnt - 1 /\ STDOUT_ptr' = STDOUT_ptr + 1
        /\ Store(STDOUT_buf[STDOUT_ptr])
        /\ UNCHANGED <<log, open, received, STDOUT_buf, frames>>
    BY <1>5 DEF NextCharacter
  <2>2. /\ STDOUT_ptr > 0 /\ STDOUT_ptr + STDOUT_cnt - 1 = Len(STDOUT_buf)
        /\ \A i \in 1..STDOUT_cnt : STDOUT_buf[STDOUT_ptr + i - 1] = Taken + i
    BY <2>1 DEF IInv, BufferRight
  <2>3. STDOUT_buf[STDOUT_ptr] = Taken + 1
    <3>1. 1 \in 1..STDOUT_cnt /\ STDOUT_ptr + 1 - 1 = STDOUT_ptr
      BY <1>0, <2>1
    <3>. QED  BY <2>2, <3>1
  <2>4. Taken' = Taken + 1 /\ Taken \in Int /\ Taken < Len(log)
    BY <1>0, <2>1 DEF Taken, Buffered
  <2>5. Taken \in Nat
    BY <1>0, <2>4 DEF IInv, LineRight
  <2>6. LineRight' /\ line' \in Seq(Nat) /\ pc' \in {"get", "send"}
    BY <2>1, <2>3, <2>4, <2>5, StoreKeeps
  <2>7. BufferRight'
    <3> SUFFICES ASSUME STDOUT_cnt' > 0
                 PROVE  /\ STDOUT_ptr' > 0 /\ STDOUT_ptr' + STDOUT_cnt' - 1 = Len(STDOUT_buf')
                        /\ \A i \in 1..STDOUT_cnt' : STDOUT_buf'[STDOUT_ptr' + i - 1] = Taken' + i
      BY DEF BufferRight
    <3>1. ASSUME NEW i \in 1..STDOUT_cnt'
          PROVE  STDOUT_buf[STDOUT_ptr + (i + 1) - 1] = Taken + (i + 1)
      BY <1>0, <2>1, <2>2, <3>1
    <3>2. \A i \in 1..STDOUT_cnt' : STDOUT_ptr' + i - 1 = STDOUT_ptr + (i + 1) - 1
                                    /\ Taken' + i = Taken + (i + 1)
      BY <1>0, <2>1, <2>4
    <3>3. STDOUT_ptr' > 0 /\ STDOUT_ptr' + STDOUT_cnt' - 1 = Len(STDOUT_buf')
      BY <1>0, <2>1, <2>2
    <3>4. ASSUME NEW i \in 1..STDOUT_cnt' PROVE STDOUT_buf'[STDOUT_ptr' + i - 1] = Taken' + i
      <4>1. STDOUT_buf'[STDOUT_ptr' + i - 1] = STDOUT_buf[STDOUT_ptr + (i + 1) - 1]
        BY <2>1, <3>2
      <4>. QED  BY <3>1, <3>2, <4>1
    <3>. QED  BY <3>3, <3>4
  <2>8. TypeOK'
    BY <1>0, <2>1, <2>6 DEF TypeOK
  <2>9. LinesFit' /\ NothingHeld'
    BY <2>1, <2>6 DEF IInv, LinesFit, NothingHeld
  <2>. QED  BY <2>6, <2>7, <2>8, <2>9 DEF IInv
<1>6. CASE Block
  <2>1. /\ pc' = "loop" /\ line' = << >> /\ STDOUT_cnt <= 0 /\ STDOUT_cnt' = -1
        /\ UNCHANGED <<log, open, received, STDOUT_ptr, STDOUT_buf, frames>>
    BY <1>6 DEF Block
  <2>2. Buffered = 0 /\ Buffered' = 0
    BY <1>0, <2>1 DEF Buffered
  <2>3. Taken' = Taken /\ Taken \in Int /\ Taken >= 0
    BY <1>0, <2>1, <2>2 DEF Taken, IInv, LineRight
  <2>4. TypeOK'
    BY <1>0, <2>1 DEF TypeOK
  <2>5. LineRight'
    BY <2>1, <2>3 DEF LineRight
  <2>6. LinesFit' /\ NothingHeld' /\ BufferRight'
    BY <2>1, <2>2 DEF IInv, LinesFit, NothingHeld, BufferRight
  <2>. QED  BY <2>4, <2>5, <2>6 DEF IInv
<1>7. CASE EndOfFile
  <2>1. /\ pc' = (IF line = << >> THEN "stopped" ELSE "send")
        /\ STDOUT_cnt <= 0 /\ STDOUT_cnt' = 0 /\ line' = line /\ pc = "get"
        /\ UNCHANGED <<log, open, received, STDOUT_ptr, STDOUT_buf, frames>>
    BY <1>7 DEF EndOfFile
  <2>2. Buffered = 0 /\ Buffered' = 0
    BY <1>0, <2>1 DEF Buffered
  <2>3. Taken' = Taken
    BY <2>1, <2>2 DEF Taken
  <2>4. TypeOK'
    BY <1>0, <2>1 DEF TypeOK
  <2>5. \A i \in 1..Len(line) : ~log[line[i]]
    BY <2>1 DEF IInv, LineRight
  <2>6. pc' = "send" => Len(line) > 0
    BY <1>0, <2>1 DEF TypeOK
  <2>7. /\ Len(line) <= Taken
        /\ \A i \in 1..Len(line) : line[i] = Taken - Len(line) + i
    BY DEF IInv, LineRight
  <2>8. LineRight'
    BY <2>1, <2>3, <2>5, <2>6, <2>7 DEF LineRight
  <2>9. LinesFit' /\ NothingHeld' /\ BufferRight'
    BY <2>1, <2>2 DEF IInv, LinesFit, NothingHeld, BufferRight
  <2>. QED  BY <2>4, <2>8, <2>9 DEF IInv
<1>8. CASE Send
  <2>1. /\ pc' = "get" /\ frames' = Append(frames, line) /\ line' = << >>
        /\ UNCHANGED <<log, open, received, STDOUT_cnt, STDOUT_ptr, STDOUT_buf>>
    BY <1>8 DEF Send
  <2>2. frames' \in Seq(Seq(Nat))
    BY <1>0, <2>1 DEF TypeOK
  <2>3. Taken' = Taken /\ Taken \in Int /\ Taken >= 0
    BY <1>0, <2>1 DEF Taken, Buffered, IInv, LineRight
  <2>4. TypeOK'
    BY <1>0, <2>1, <2>2 DEF TypeOK
  <2>5. LineRight'
    BY <2>1, <2>3 DEF LineRight
  <2>6. LinesFit' /\ NothingHeld' /\ BufferRight'
    BY <2>1, <2>3 DEF IInv, LinesFit, NothingHeld, BufferRight
  <2>. QED  BY <2>4, <2>5, <2>6 DEF IInv
<1>9. CASE UNCHANGED vars
  BY <1>9 DEF vars, reader, IInv, TypeOK, LinesFit, BufferRight, LineRight, NothingHeld,
     Taken, Buffered
<1>. QED
  BY <1>1, <1>2, <1>3, <1>4, <1>5, <1>6, <1>7, <1>8, <1>9 DEF Next, Reader

\* The invariant holds of every reader.
THEOREM Inductive == Spec => []IInv
<1>1. Init => IInv
  <2> SUFFICES ASSUME Init PROVE IInv
    OBVIOUS
  <2>1. /\ log = << >> /\ open = TRUE /\ received = 0 /\ STDOUT_cnt = 0 /\ STDOUT_ptr = 1
        /\ STDOUT_buf = << >> /\ pc = "loop" /\ line = << >> /\ frames = << >>
    BY DEF Init
  <2>2. BUFFSIZE \in Nat
    BY BufferAssumption
  <2>3. TypeOK
    BY <2>1, <2>2 DEF TypeOK
  <2>. QED
    BY <2>1, <2>3 DEF IInv, LinesFit, BufferRight, LineRight, NothingHeld, Taken, Buffered
<1>. QED  BY <1>1, Keeps, PTL DEF Spec

\* Type correctness: the buffer never holds more than BUFFSIZE characters.
THEOREM TypeCorrect == Spec => []TypeOK
  BY Inductive, PTL DEF IInv

\* No character waits in the static buffer while the loop waits for the pipe.
THEOREM NothingIsHeld == Spec => []NothingHeld
  BY Inductive, PTL DEF IInv

\* Buffer and line hold consecutive characters, and the line fits its buffer.
THEOREM CharactersInOrder == Spec => []Consecutive
<1>1. IInv => Consecutive
  <2> SUFFICES ASSUME IInv PROVE Consecutive
    OBVIOUS
  <2>0. /\ MaxLine \in Nat \ {0} /\ Prefix \in Nat /\ BUFFSIZE \in Nat
        /\ Prefix + MaxLine < BUFFSIZE
        /\ Len(line) \in Nat /\ Len(log) \in Nat /\ Taken \in Int /\ Taken <= Len(log)
        /\ line \in Seq(Nat) /\ STDOUT_cnt \in Int
    BY Numbers DEF IInv, TypeOK, Taken
  <2>1. Buffered > 0 => STDOUT_cnt > 0 /\ Buffered = STDOUT_cnt
    BY <2>0 DEF Buffered
  <2>2. /\ Len(line) <= Taken
        /\ \A i \in 1..Len(line) : line[i] = Taken - Len(line) + i
        /\ \A i \in 1..Len(line) : log[line[i]] => i = Len(line)
    BY DEF IInv, LineRight
  <2>3. Len(line) <= MaxLine
    <3>1. CASE Len(line) <= 1
      BY <2>0, <3>1
    <3>2. CASE Len(line) > 1
      <4> DEFINE from == Taken - Len(line) + 1
                 to   == Taken - 1
      <4>1. from \in 1..Len(log) /\ to \in 1..Len(log) /\ from <= to
        BY <2>0, <2>2, <3>2
      <4>2. ASSUME NEW j \in from..to PROVE ~log[j]
        <5>1. /\ j - (Taken - Len(line)) \in 1..Len(line)
              /\ j - (Taken - Len(line)) # Len(line)
          BY <2>0, <3>2
        <5>2. line[j - (Taken - Len(line))] = j
          BY <2>0, <2>2, <5>1
        <5>. QED  BY <2>2, <5>1, <5>2
      <4>3. to - from + 1 < MaxLine
        BY <4>1, <4>2 DEF IInv, LinesFit
      <4>. QED  BY <2>0, <4>3
    <3>. QED  BY <2>0, <3>1, <3>2
  <2>4. Prefix + Len(line) < BUFFSIZE
    BY <2>0, <2>3
  <2>5. DOMAIN line = 1..Len(line)
    BY <2>0
  <2>. QED  BY <2>1, <2>2, <2>4, <2>5 DEF Consecutive, IInv, BufferRight
<1>. QED  BY <1>1, Inductive, PTL
-----------------------------------------------------------------------------
\* The frames that LineRelay sees.
LEMMA SpanOf ==
  ASSUME IInv, Len(line) > 0
  PROVE  Span(line) = [from |-> Taken - Len(line) + 1, to |-> Taken]
<1>1. Len(line) \in Nat /\ Taken \in Int /\ 1 \in 1..Len(line) /\ Len(line) \in 1..Len(line)
  BY Numbers DEF IInv
<1>. QED  BY <1>1 DEF IInv, LineRight, Span

\* Refill and NextCharacter store the next character of the stream.
LEMMA NextTaken ==
  ASSUME IInv, Refill \/ NextCharacter
  PROVE  /\ pc = "get" /\ Taken' = Taken + 1 /\ Taken < Len(log)
         /\ line' = Append(line, Taken + 1)
         /\ pc' = IF log[Taken + 1] THEN "send" ELSE "get"
         /\ UNCHANGED <<log, open, frames>>
<1>0. /\ BUFFSIZE \in Nat \ {0} /\ Len(log) \in Nat /\ received \in Nat /\ received <= Len(log)
      /\ STDOUT_cnt \in Int /\ STDOUT_ptr \in Nat
  BY Numbers DEF IInv
<1>1. CASE Refill
  <2> DEFINE n == Min({BUFFSIZE, InPipe})
  <2>1. InPipe \in Nat \ {0} /\ n \in Nat \ {0}
    BY <1>0, <1>1, ReadSize DEF Refill, InPipe
  <2>2. /\ STDOUT_cnt' = n - 1 /\ received' = received + n /\ STDOUT_cnt <= 0
        /\ Store(received + 1) /\ pc = "get" /\ UNCHANGED <<log, open, frames>>
    BY <1>1 DEF Refill
  <2> HIDE DEF n
  <2>3. Taken = received /\ Taken' = received + 1 /\ Taken < Len(log)
    BY <1>0, <2>1, <2>2 DEF Taken, Buffered, InPipe
  <2>. QED  BY <2>2, <2>3 DEF Store
<1>2. CASE NextCharacter
  <2>1. /\ pc = "get" /\ STDOUT_cnt > 0 /\ STDOUT_cnt' = STDOUT_cnt - 1
        /\ Store(STDOUT_buf[STDOUT_ptr]) /\ UNCHANGED <<log, open, received, frames>>
    BY <1>2 DEF NextCharacter
  <2>2. STDOUT_buf[STDOUT_ptr] = Taken + 1
    <3>1. 1 \in 1..STDOUT_cnt /\ STDOUT_ptr + 1 - 1 = STDOUT_ptr
      BY <1>0, <2>1
    <3>. QED  BY <2>1, <3>1 DEF IInv, BufferRight
  <2>3. Taken' = Taken + 1 /\ Taken < Len(log)
    BY <1>0, <2>1 DEF Taken, Buffered
  <2>. QED  BY <2>1, <2>2, <2>3 DEF Store
<1>. QED  BY <1>1, <1>2

\* Every step of the reader is a step of LineRelay or none.
LEMMA StepRelays ==
  ASSUME IInv, IInv', [Next]_vars
  PROVE  [Relay!Next]_(Relay!vars)
<1>0. /\ Len(log) \in Nat /\ received \in Nat /\ received <= Len(log) /\ Len(line) \in Nat
      /\ STDOUT_cnt \in Int /\ Taken \in Int /\ Buffered \in Nat /\ log \in Seq(BOOLEAN)
      /\ line \in Seq(Nat) /\ frames \in Seq(Seq(Nat)) /\ open \in BOOLEAN
  BY Numbers DEF IInv, TypeOK
<1>a. ASSUME UNCHANGED <<log, open, Taken, Shown>>,
             (IF pc = "get" THEN Taken - Len(line) ELSE Taken)'
               = (IF pc = "get" THEN Taken - Len(line) ELSE Taken)
      PROVE  [Relay!Next]_(Relay!vars)
  BY <1>a DEF Relay!vars
<1>1. ASSUME NEW newline \in BOOLEAN, Write(newline) PROVE [Relay!Next]_(Relay!vars)
  <2>1. open /\ log' = Append(log, newline) /\ UNCHANGED <<open, reader>>
    BY <1>1 DEF Write
  <2>2. UNCHANGED <<Taken, Shown, pc, line>>
    BY <2>1 DEF reader, Taken, Buffered, Shown
  <2>. QED  BY <2>1, <2>2 DEF Relay!Next, Relay!Write
<1>2. CASE Close
  <2>1. open' = FALSE /\ UNCHANGED <<log, reader>>
    BY <1>2 DEF Close
  <2>2. UNCHANGED <<Taken, Shown, pc, line>>
    BY <2>1 DEF reader, Taken, Buffered, Shown
  <2>. QED  BY <2>1, <2>2 DEF Relay!Next, Relay!Close
<1>3. CASE Invoke
  <2>1. /\ pc = "loop" /\ pc' = "get" /\ line' = << >> /\ Len(line') = 0
        /\ UNCHANGED <<log, open, received, STDOUT_cnt, frames>>
    BY <1>3 DEF Invoke
  <2>2. Taken' = Taken /\ Shown' = Shown
    BY <2>1 DEF Taken, Buffered, Shown
  <2>. QED  BY <1>0, <1>a, <2>1, <2>2
<1>4. CASE Refill \/ NextCharacter
  <2>1. /\ pc = "get" /\ Taken' = Taken + 1 /\ Taken < Len(log)
        /\ line' = Append(line, Taken + 1)
        /\ pc' = IF log[Taken + 1] THEN "send" ELSE "get"
        /\ UNCHANGED <<log, open, frames>>
    BY <1>4, NextTaken
  <2>2. Len(line') = Len(line) + 1 /\ Len(line') > 0
    BY <1>0, <2>1, AppendType
  <2>3. Span(line)' = [from |-> Taken - Len(line) + 1, to |-> Taken + 1]
    <3>1. /\ Taken' - Len(line') = Taken - Len(line)
          /\ 1 \in 1..Len(line') /\ Len(line') \in 1..Len(line') /\ Taken' \in Int
      BY <1>0, <2>1, <2>2
    <3>2. \A i \in 1..Len(line') : line'[i] = Taken' - Len(line') + i
      BY DEF IInv, LineRight
    <3>3. line'[1] = Taken - Len(line) + 1 /\ line'[Len(line')] = Taken + 1
      BY <1>0, <2>1, <2>2, <3>1, <3>2
    <3>. QED  BY <3>3 DEF Span
  <2>4. CASE log[Taken + 1]
    <3>1. Shown' = Shown \cup {[from |-> Taken - Len(line) + 1, to |-> Taken + 1]}
      BY <2>1, <2>3, <2>4 DEF Shown
    <3>. QED  BY <2>1, <2>4, <3>1 DEF Relay!Next, Relay!Take, Relay!Show
  <2>5. CASE ~log[Taken + 1]
    <3>1. Shown' = Shown
      BY <2>1, <2>5 DEF Shown
    <3>2. Taken' - Len(line') = Taken - Len(line)
      BY <1>0, <2>1, <2>2
    <3>. QED  BY <2>1, <2>5, <3>1, <3>2 DEF Relay!Next, Relay!Take
  <2>. QED  BY <2>4, <2>5
<1>5. CASE Block
  <2>1. /\ pc = "get" /\ pc' = "loop" /\ STDOUT_cnt <= 0 /\ received = Len(log) /\ open
        /\ STDOUT_cnt' = -1 /\ UNCHANGED <<log, open, received, frames>>
    BY <1>0, <1>5 DEF Block, InPipe
  <2>2. Taken = Len(log) /\ Taken' = Taken /\ Shown' = Shown
    BY <1>0, <2>1 DEF Taken, Buffered, Shown
  <2>. QED  BY <2>1, <2>2 DEF Relay!Next, Relay!Forget
<1>6. CASE EndOfFile
  <2>1. /\ pc = "get" /\ STDOUT_cnt <= 0 /\ received = Len(log) /\ ~open
        /\ pc' = (IF line = << >> THEN "stopped" ELSE "send")
        /\ STDOUT_cnt' = 0 /\ UNCHANGED <<log, open, received, line, frames>>
    BY <1>0, <1>6 DEF EndOfFile, InPipe
  <2>2. Taken = Len(log) /\ Taken' = Taken
    BY <1>0, <2>1 DEF Taken, Buffered
  <2>3. CASE line = << >>
    <3>1. Len(line) = 0 /\ Shown' = Shown
      BY <2>1, <2>3 DEF Shown
    <3>. QED  BY <1>0, <1>a, <2>1, <2>2, <2>3, <3>1
  <2>4. CASE line # << >>
    <3>1. Len(line) > 0
      BY <1>0, <2>4
    <3>2. Shown' = Shown \cup {[from |-> Taken - Len(line) + 1, to |-> Taken]}
      BY <2>1, <2>4, <3>1, SpanOf DEF Shown, Span
    <3>. QED  BY <1>0, <2>1, <2>2, <2>4, <3>1, <3>2 DEF Relay!Next, Relay!Rest, Relay!Show
  <2>. QED  BY <2>3, <2>4
<1>7. CASE Send
  <2>1. /\ pc = "send" /\ pc' = "get" /\ frames' = Append(frames, line) /\ line' = << >>
        /\ Len(line') = 0 /\ UNCHANGED <<log, open, received, STDOUT_cnt>>
    BY <1>7 DEF Send
  <2>2. /\ DOMAIN frames = 1..Len(frames) /\ DOMAIN frames' = 1..(Len(frames) + 1)
        /\ Len(frames) \in Nat /\ frames'[Len(frames) + 1] = line
        /\ \A i \in 1..Len(frames) : frames'[i] = frames[i]
    BY <1>0, <2>1, AppendType
  <2>3. {Span(frames'[i]) : i \in DOMAIN frames'} = {Span(frames[i]) : i \in DOMAIN frames} \cup {Span(line)}
    BY <2>2
  <2>4. Shown' = Shown
    BY <2>1, <2>3 DEF Shown
  <2>5. Taken' = Taken
    BY <2>1 DEF Taken, Buffered
  <2>. QED  BY <1>0, <1>a, <2>1, <2>4, <2>5
<1>8. CASE UNCHANGED vars
  BY <1>8, <1>a DEF vars, reader, Taken, Buffered, Shown
<1>. QED
  BY <1>1, <1>2, <1>3, <1>4, <1>5, <1>6, <1>7, <1>8 DEF Next, Reader

\* The reader relays lines as LineRelay promises.
THEOREM LinesAreRelayed == Spec => RelaysLines
<1>1. Init => Relay!Init
  <2> SUFFICES ASSUME Init PROVE Relay!Init
    OBVIOUS
  <2>. QED  BY DEF Init, Relay!Init, Taken, Buffered, Shown
<1>. QED
  BY <1>1, StepRelays, Inductive, PTL DEF Spec, RelaysLines, Relay!Spec
=============================================================================
