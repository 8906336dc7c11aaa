---------------------------- MODULE LineReader ----------------------------
(***************************************************************************)
(* The line reader of STDOUT_FromChild_Event: STDOUT_Actual_Read hands out *)
(* single characters from a static buffer that a read() fills with         *)
(* whatever the pipe holds, STDOUT_GetNextLine puts lines together from    *)
(* them, and the callback goes on until a read() would block or the stream *)
(* has ended.  The readers of stderr are the same code over other names.   *)
(*                                                                         *)
(* Data abstraction.  A character is its place in the stream; of its value *)
(* only whether it is a newline is kept, in `log'.  Every send succeeds:   *)
(* Session has the ones that fail.                                         *)
(***************************************************************************)
EXTENDS Integers, Sequences, FiniteSetsExt

CONSTANTS
  BUFFSIZE,   \* characters of every buffer
  Prefix,     \* characters of "STDOUT:"
  MaxLine,    \* characters of the longest line the application writes
  Characters  \* bound: characters the application writes

\* Lines, the application's and the unended rest of one, fit the buffer that
\* sprintf() writes to; they are shorter than maxlen.
ASSUME BufferAssumption ==
  /\ {BUFFSIZE, Prefix, Characters} \subseteq Nat /\ MaxLine \in Nat \ {0}
  /\ Prefix + MaxLine < BUFFSIZE

VARIABLES
  log,        \* the characters written: is it a newline?
  open,       \* the application holds its end of the pipe
  received,   \* characters that left the pipe
  STDOUT_cnt, STDOUT_ptr, STDOUT_buf,
  pc,         \* "loop", in the callback ("get"), about to send ("send"), "stopped"
  line,       \* the characters in the callback's buffer
  frames      \* what was sent: lines

reader == <<received, STDOUT_cnt, STDOUT_ptr, STDOUT_buf, pc, line, frames>>
vars == <<log, open, reader>>

TypeOK ==
  /\ log \in Seq(BOOLEAN) /\ open \in BOOLEAN
  /\ received \in 0..Len(log)
  /\ STDOUT_cnt \in -1..BUFFSIZE /\ STDOUT_ptr \in Nat
  /\ STDOUT_buf \in Seq(Nat)
  /\ pc \in {"loop", "get", "send", "stopped"}
  /\ line \in Seq(Nat) /\ frames \in Seq(Seq(Nat))

Init ==
  /\ log = << >> /\ open = TRUE /\ received = 0
  /\ STDOUT_cnt = 0 /\ STDOUT_ptr = 1 /\ STDOUT_buf = << >>
  /\ pc = "loop" /\ line = << >> /\ frames = << >>
-----------------------------------------------------------------------------
\* The application.  A character that does not end the line leaves room for
\* one that does.
Room == \E i \in (Len(log) + 2 - MaxLine)..Len(log) : i > 0 => log[i]

Write(newline) ==
  /\ open /\ Len(log) < Characters
  /\ newline \/ Room
  /\ log' = Append(log, newline)
  /\ UNCHANGED <<open, reader>>

Close == open /\ open' = FALSE /\ UNCHANGED <<log, reader>>
-----------------------------------------------------------------------------
InPipe == Len(log) - received

\* libev calls back when the pipe is readable; nothing else looks at the buffer.
Invoke ==
  /\ pc = "loop" /\ (InPipe > 0 \/ ~open)
  /\ pc' = "get" /\ line' = << >>
  /\ UNCHANGED <<log, open, received, STDOUT_cnt, STDOUT_ptr, STDOUT_buf, frames>>

\* STDOUT_GetNextLine stores the character; a newline ends the line.
Store(c) == line' = Append(line, c) /\ pc' = IF log[c] THEN "send" ELSE "get"

\* Mutant of Refill: the character handed out is not counted.
RefillMiscounts ==
  /\ pc = "get" /\ STDOUT_cnt <= 0 /\ InPipe > 0
  /\ LET n == Min({BUFFSIZE, InPipe})
     IN  /\ STDOUT_buf' = [i \in 1..n |-> received + i] /\ STDOUT_ptr' = 2
         /\ STDOUT_cnt' = n /\ received' = received + n
  /\ Store(received + 1)
  /\ UNCHANGED <<log, open, frames>>

\* Mutant of Refill: read() is not told the size of the buffer.
RefillOverruns ==
  /\ pc = "get" /\ STDOUT_cnt <= 0 /\ InPipe > 0
  /\ STDOUT_buf' = [i \in 1..InPipe |-> received + i] /\ STDOUT_ptr' = 2
  /\ STDOUT_cnt' = InPipe - 1 /\ received' = received + InPipe
  /\ Store(received + 1)
  /\ UNCHANGED <<log, open, frames>>

\* STDOUT_Actual_Read with an empty buffer: a read(), and the first character.
Refill ==
  /\ pc = "get" /\ STDOUT_cnt <= 0 /\ InPipe > 0
  /\ LET n == Min({BUFFSIZE, InPipe})
     IN  /\ STDOUT_buf' = [i \in 1..n |-> received + i] /\ STDOUT_ptr' = 2
         /\ STDOUT_cnt' = n - 1 /\ received' = received + n
  /\ Store(received + 1)
  /\ UNCHANGED <<log, open, frames>>

NextCharacter ==
  /\ pc = "get" /\ STDOUT_cnt > 0
  /\ STDOUT_cnt' = STDOUT_cnt - 1 /\ STDOUT_ptr' = STDOUT_ptr + 1
  /\ Store(STDOUT_buf[STDOUT_ptr])
  /\ UNCHANGED <<log, open, received, STDOUT_buf, frames>>

\* Mutant of Block: EWOULDBLOCK is taken for the end of the stream.
BlockStops ==
  /\ pc = "get" /\ STDOUT_cnt <= 0 /\ InPipe = 0 /\ open
  /\ STDOUT_cnt' = -1 /\ line' = << >> /\ pc' = "stopped"
  /\ UNCHANGED <<log, open, received, STDOUT_ptr, STDOUT_buf, frames>>

\* read() = -1, EWOULDBLOCK: the callback returns and its buffer is gone.
Block ==
  /\ pc = "get" /\ STDOUT_cnt <= 0 /\ InPipe = 0 /\ open
  /\ STDOUT_cnt' = -1 /\ line' = << >> /\ pc' = "loop"
  /\ UNCHANGED <<log, open, received, STDOUT_ptr, STDOUT_buf, frames>>

\* Mutant of EndOfFile: the rest is given up.
EndOfFileDrops ==
  /\ pc = "get" /\ STDOUT_cnt <= 0 /\ InPipe = 0 /\ ~open
  /\ STDOUT_cnt' = 0 /\ line' = << >> /\ pc' = "stopped"
  /\ UNCHANGED <<log, open, received, STDOUT_ptr, STDOUT_buf, frames>>

\* read() = 0: the rest is a line of its own; without one the watcher stops.
EndOfFile ==
  /\ pc = "get" /\ STDOUT_cnt <= 0 /\ InPipe = 0 /\ ~open
  /\ STDOUT_cnt' = 0 /\ pc' = IF line = << >> THEN "stopped" ELSE "send"
  /\ UNCHANGED <<log, open, received, STDOUT_ptr, STDOUT_buf, line, frames>>

\* Mutant of Send: one line for each event.
SendOnce ==
  /\ pc = "send" /\ pc' = "loop"
  /\ frames' = Append(frames, line) /\ line' = << >>
  /\ UNCHANGED <<log, open, received, STDOUT_cnt, STDOUT_ptr, STDOUT_buf>>

Send ==
  /\ pc = "send" /\ pc' = "get"
  /\ frames' = Append(frames, line) /\ line' = << >>
  /\ UNCHANGED <<log, open, received, STDOUT_cnt, STDOUT_ptr, STDOUT_buf>>
-----------------------------------------------------------------------------
Reader == Invoke \/ Refill \/ NextCharacter \/ Block \/ EndOfFile \/ Send

Next == Reader \/ Close \/ \E newline \in BOOLEAN : Write(newline)

Spec == Init /\ [][Next]_vars

\* The session runs; nothing obliges the application to write or to end.
FairSpec == Spec /\ WF_vars(Reader)
-----------------------------------------------------------------------------
Buffered == IF STDOUT_cnt > 0 THEN STDOUT_cnt ELSE 0
Taken    == received - Buffered

\* No character waits in the static buffer while the loop waits for the pipe:
\* nothing would call back for it.
NothingHeld == pc \in {"loop", "stopped"} => Buffered = 0 /\ line = << >>

\* The buffer and the line hold consecutive characters of the stream, and the
\* line with its prefix fits the buffer it is copied to.
Consecutive ==
  /\ Buffered > 0 =>
       /\ STDOUT_ptr > 0 /\ STDOUT_ptr + Buffered - 1 = Len(STDOUT_buf)
       /\ \A i \in 1..Buffered : STDOUT_buf[STDOUT_ptr + i - 1] = Taken + i
  /\ \A i \in DOMAIN line : line[i] = Taken - Len(line) + i
  /\ Prefix + Len(line) < BUFFSIZE

\* Every line the application ends is shown, whatever the read()s return.
LineShown ==
  \A k \in 1..Characters :
    k <= Len(log) /\ log[k] ~> \E i \in DOMAIN frames : frames[i][Len(frames[i])] = k

Span(l) == [from |-> l[1], to |-> l[Len(l)]]
Shown   == {Span(frames[i]) : i \in DOMAIN frames} \cup (IF pc = "send" THEN {Span(line)} ELSE {})

Relay == INSTANCE LineRelay WITH
  closed <- ~open, taken <- Taken, shown <- Shown, link <- TRUE,
  start <- IF pc = "get" THEN Taken - Len(line) ELSE Taken

\* The reader relays lines as LineRelay promises.
RelaysLines == Relay!Spec
=============================================================================
